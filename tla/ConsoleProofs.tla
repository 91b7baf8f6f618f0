---------------------------- MODULE ConsoleProofs ----------------------------
(***************************************************************************)
(* The console: the line it receives, and what comes of a command.         *)
(*                                                                         *)
(* UartLine for a buffer of any size and any lines: the interrupt stays in *)
(* the buffer, and an orderly sender has its lines taken as they were      *)
(* typed.  ConfigTool for any parameters, values and number of commands:   *)
(* one printer at a time, true reports, and the value typed last in force. *)
(***************************************************************************)
EXTENDS UartLine, ConfigTool, SequenceTheorems, WellFoundedInduction, TLAPS

\* The bytes of the line typed last, with its end.
Byte(i) == IF i <= Len(typed) THEN typed[i] ELSE IF i = Len(typed) + 1 THEN "\\" ELSE "n"

\* A line has no end in its middle.
NoEnd == \A i \in 1 .. Len(typed) - 1 : ~(typed[i] = "\\" /\ typed[i + 1] = "n")

\* Nothing has been typed since the last line was taken.
Waiting == typing = <<>> /\ reader = "test" /\ ~is_new_data /\ buff_index = 0

\* What has arrived of a line is at the beginning of the buffer, the rest still to come.
Arriving ==
    /\ typing # <<>> /\ reader = "test" /\ ~is_new_data
    /\ buff_index + Len(typing) = Len(typed) + 2
    /\ \A i \in 0 .. buff_index - 1 : buff[i] = Byte(i + 1)
    /\ \A i \in 1 .. Len(typing) : typing[i] = Byte(buff_index + i)

\* The whole line is in the buffer, a zero in the place of the backslash.
Arrived ==
    /\ typing = <<>> /\ reader = "test" /\ is_new_data
    /\ buff_index = Len(typed) + 1 /\ buff[Len(typed)] = Zero
    /\ \A i \in 0 .. Len(typed) - 1 : buff[i] = typed[i + 1]

\* It has been copied; the flag and the index are not yet cleared.
Flagged == typing = <<>> /\ reader = "flag" /\ data_recv = typed
Indexed == typing = <<>> /\ reader = "index" /\ ~is_new_data /\ data_recv = typed

LineInv ==
    /\ LineTypeOK
    /\ orderly => /\ Len(typed) + 2 < Size /\ NoEnd
                  /\ Waiting \/ Arriving \/ Arrived \/ Flagged \/ Indexed

\* uart_module_init.
LEMMA InitLine == LineInit => LineInv
<1> SUFFICES ASSUME LineInit
             PROVE  LineInv
  OBVIOUS
<1>1. LineTypeOK
  <2>1. buff_index \in 0 .. Size - 1 /\ buff \in [0 .. Size - 1 -> Chars \union {Zero}]
    BY LineAssumption DEF LineInit, Chars
  <2>2. data_recv \in Seq(Chars) /\ typing \in Seq(Chars) /\ typed \in Seq(Chars)
    BY EmptySeq DEF LineInit
  <2>3. QED
    BY <2>1, <2>2 DEF LineInit, LineTypeOK
<1>2. Len(typed) = 0
  BY EmptySeq DEF LineInit
<1>3. Waiting
  BY DEF LineInit, Waiting
<1>4. QED
  BY <1>1, <1>2, <1>3, LineAssumption DEF LineInv, NoEnd

\* A line and its end: what is typed.
LEMMA LineBytes ==
    ASSUME NEW t \in Seq(Chars), NEW s, s = t \o <<"\\", "n">>
    PROVE  /\ s \in Seq(Chars) /\ Len(s) = Len(t) + 2 /\ s # <<>>
           /\ \A i \in 1 .. Len(s) :
                 s[i] = IF i <= Len(t) THEN t[i] ELSE IF i = Len(t) + 1 THEN "\\" ELSE "n"
<1> DEFINE e == <<"\\", "n">>
<1>1. e \in Seq(Chars) /\ Len(e) = 2 /\ e[1] = "\\" /\ e[2] = "n"
  BY DEF Chars
<1> HIDE DEF e
<1>2. /\ s \in Seq(Chars) /\ Len(s) = Len(t) + 2
      /\ \A i \in 1 .. Len(s) : s[i] = IF i <= Len(t) THEN t[i] ELSE e[i - Len(t)]
  BY <1>1, ConcatProperties DEF e
<1>3. s # <<>>
  BY <1>2, LenProperties
<1>4. ASSUME NEW i \in 1 .. Len(s)
      PROVE  s[i] = IF i <= Len(t) THEN t[i] ELSE IF i = Len(t) + 1 THEN "\\" ELSE "n"
  <2>1. Len(t) \in Nat
    BY LenProperties
  <2>2. CASE i <= Len(t)
    BY <1>2, <2>2
  <2>3. CASE i = Len(t) + 1
    BY <1>1, <1>2, <2>1, <2>3
  <2>4. CASE i = Len(t) + 2
    BY <1>1, <1>2, <2>1, <2>4
  <2>5. QED
    BY <1>2, <2>1, <2>2, <2>3, <2>4
<1>5. QED
  BY <1>2, <1>3, <1>4

\* A set of numbers that is not empty has a least one.
LEMMA LeastNumber ==
    ASSUME NEW T, T \subseteq Nat, T # {}
    PROVE  \E x \in T : \A y \in T : x <= y
<1> DEFINE less == OpToRel(<, Nat)
<1>1. IsWellFoundedOn(less, Nat)
  BY NatLessThanWellFounded
<1>2. \A x \in Nat, y \in Nat : y < x => <<y, x>> \in less
  BY DEF OpToRel
<1> HIDE DEF less
<1>3. PICK x \in T : \A y \in T : ~(<<y, x>> \in less)
  BY <1>1, WFMin, Zenon
<1>4. \A y \in T : ~(y < x)
  BY <1>2, <1>3
<1>5. QED
  BY <1>4

\* strncpy stops at the first zero byte or after buff_index bytes, so what it copies is
\* a line without a zero byte.
LEMMA CopiedBytes ==
    ASSUME LineTypeOK
    PROVE  Copied \in Seq(Chars)
<1> DEFINE Stops == {n \in 0 .. buff_index : n < buff_index => buff[n] = Zero}
           Ends(n) == /\ n < buff_index => buff[n] = Zero
                      /\ \A i \in 0 .. n - 1 : buff[i] # Zero
<1>1. /\ buff_index \in Nat /\ buff_index <= Size - 1 /\ Size \in Nat
      /\ buff \in [0 .. Size - 1 -> Chars \union {Zero}]
  BY LineAssumption DEF LineTypeOK
<1>2. Stops \subseteq Nat /\ buff_index \in Stops
  BY <1>1
<1>3. PICK n \in Stops : \A m \in Stops : n <= m
  BY <1>2, LeastNumber, Zenon
<1>4. \E m \in 0 .. buff_index : Ends(m)
  <2>1. ASSUME NEW i \in 0 .. n - 1
        PROVE  buff[i] # Zero
    <3>1. i < n /\ i \in 0 .. buff_index /\ i < buff_index
      BY <1>1, <1>3
    <3>2. i \notin Stops
      BY <1>1, <1>3, <3>1
    <3>3. QED
      BY <3>1, <3>2
  <2>2. n \in 0 .. buff_index /\ Ends(n)
    BY <1>3, <2>1
  <2>3. QED
    BY <2>2
<1> DEFINE k == CHOOSE m \in 0 .. buff_index : Ends(m)
<1>5. k \in 0 .. buff_index /\ Ends(k)
  BY <1>4
<1>6. Copied = [i \in 1 .. k |-> buff[i - 1]]
  BY DEF Copied
<1> HIDE DEF k
<1>7. ASSUME NEW i \in 1 .. k
      PROVE  buff[i - 1] \in Chars
  BY <1>1, <1>5
<1>8. k \in Nat
  BY <1>1, <1>5
<1>9. QED
  BY <1>6, <1>7, <1>8

\* Every step keeps the types.
LEMMA TypesStep == LineTypeOK /\ [LineNext]_lineVars => LineTypeOK'
<1> SUFFICES ASSUME LineTypeOK, [LineNext]_lineVars
             PROVE  LineTypeOK'
  OBVIOUS
<1>1. CASE BeginLine
  <2>1. PICK t \in Text : typing' = t \o <<"\\", "n">> /\ typed' = t
    BY <1>1 DEF BeginLine
  <2>2. typing' \in Seq(Chars) /\ typed' \in Seq(Chars)
    BY <2>1, LineBytes, LineAssumption
  <2>3. orderly' \in BOOLEAN
    BY <1>1 DEF BeginLine
  <2>4. QED
    BY <1>1, <2>2, <2>3 DEF BeginLine, rxVars, LineTypeOK
<1>2. CASE Receive
  <2>1. typing' \in Seq(Chars) /\ Head(typing) \in Chars
    BY <1>2, HeadTailProperties DEF Receive, LineTypeOK
  <2>2. buff' \in [0 .. Size - 1 -> Chars \union {Zero}] /\ buff_index' \in 0 .. Size - 1
    <3> DEFINE b == Head(typing)
               Cells == [0 .. Size - 1 -> Chars \union {Zero}]
    <3>1. buff \in Cells /\ buff_index \in 0 .. Size - 1 /\ Size \in Nat /\ Size >= 3
      BY LineAssumption DEF LineTypeOK
    <3>2. CASE Room /\ EndsLine(b)
      <4>1. buff_index' = buff_index
            /\ buff' = [buff EXCEPT ![buff_index] = b, ![buff_index - 1] = Zero]
        BY <1>2, <3>2 DEF Receive
      <4>2. [buff EXCEPT ![buff_index] = b, ![buff_index - 1] = Zero] \in Cells
        BY <2>1, <3>1
      <4>3. QED
        BY <3>1, <4>1, <4>2
    <3>3. CASE Room /\ ~EndsLine(b)
      <4>1. buff_index' = buff_index + 1 /\ buff' = [buff EXCEPT ![buff_index] = b]
        BY <1>2, <3>3 DEF Receive
      <4>2. [buff EXCEPT ![buff_index] = b] \in Cells
        BY <2>1, <3>1
      <4>3. QED
        BY <3>1, <3>3, <4>1, <4>2 DEF Room
    <3>4. CASE ~Room
      BY <1>2, <3>1, <3>4 DEF Receive
    <3>5. QED
      BY <3>2, <3>3, <3>4
  <2>3. QED
    BY <1>2, <2>1, <2>2 DEF Receive, LineTypeOK
<1>3. CASE GetCopy
  BY <1>3, CopiedBytes DEF GetCopy, rxVars, senderVars, LineTypeOK
<1>4. CASE GetClearFlag
  BY <1>4 DEF GetClearFlag, senderVars, LineTypeOK
<1>5. CASE GetClearIndex
  BY <1>5, LineAssumption DEF GetClearIndex, senderVars, LineTypeOK
<1>6. CASE UNCHANGED lineVars
  BY <1>6 DEF lineVars, rxVars, senderVars, LineTypeOK
<1>7. QED
  BY <1>1, <1>2, <1>3, <1>4, <1>5, <1>6 DEF LineNext

\* The sender begins a line; it stays orderly only if the last one has been taken.
LEMMA TypeLine ==
    ASSUME LineInv, BeginLine, orderly'
    PROVE  Len(typed') + 2 < Size /\ NoEnd' /\ Arriving'
<1>1. PICK t \in Text : /\ typing' = t \o <<"\\", "n">> /\ typed' = t
                        /\ orderly' = (orderly /\ LineIdle /\ Len(typing') < Size)
  BY DEF BeginLine
<1>2. orderly /\ LineIdle /\ Len(typing') < Size
  BY <1>1
<1>3. Waiting
  BY <1>2 DEF LineInv, LineIdle, Arriving, Arrived, Flagged, Indexed
<1>4. t \in Seq(Chars) /\ Len(t) \in Nat
  BY LineAssumption, LenProperties
<1>5. /\ Len(typing') = Len(typed') + 2 /\ typing' # <<>>
      /\ \A i \in 1 .. Len(typing') : typing'[i] = Byte(i)'
  BY <1>1, <1>4, LineBytes DEF Byte
<1>6. reader' = "test" /\ ~is_new_data' /\ buff_index' = 0
  BY <1>3 DEF BeginLine, rxVars, Waiting
<1>7. NoEnd'
  BY <1>1, LineAssumption DEF NoEnd
<1>8. Arriving'
  BY <1>1, <1>4, <1>5, <1>6 DEF Arriving
<1>9. QED
  BY <1>2, <1>5, <1>7, <1>8

\* The next byte arrives, and the line is complete with its n.
LEMMA ReceiveLine ==
    ASSUME LineInv, orderly, Receive
    PROVE  Arriving' \/ Arrived'
<1>1. Arriving /\ LineTypeOK /\ NoEnd /\ Len(typed) + 2 < Size
  BY DEF LineInv, Receive, Waiting, Arrived, Flagged, Indexed
<1> DEFINE k == buff_index
           n == Len(typed)
           b == Head(typing)
<1>2. /\ k \in Nat /\ n \in Nat /\ Size \in Nat /\ Len(typing) \in Nat /\ Len(typing) >= 1
      /\ k + Len(typing) = n + 2
  BY <1>1, LenProperties, LineAssumption, EmptySeq DEF Arriving, LineTypeOK
<1>3. /\ b = Byte(k + 1) /\ b \in Chars
      /\ typing' = Tail(typing) /\ typing' \in Seq(Chars) /\ Len(typing') = Len(typing) - 1
      /\ \A i \in 1 .. Len(typing') : typing'[i] = typing[i + 1]
  BY <1>1, <1>2, HeadTailProperties DEF Arriving, LineTypeOK, Receive
<1>4. Room
  BY <1>1, <1>2 DEF Room
<1>5. reader' = "test" /\ typed' = typed
  BY <1>1 DEF Receive, Arriving
<1>6. CASE k = n + 1
  <2>1. b = "n"
    BY <1>2, <1>3, <1>6 DEF Byte
  <2>2. buff[k - 1] = "\\"
    BY <1>1, <1>2, <1>6 DEF Arriving, Byte
  <2>3. EndsLine(b)
    BY <1>2, <1>6, <2>1, <2>2 DEF EndsLine
  <2>4. /\ buff' = [buff EXCEPT ![k] = b, ![k - 1] = Zero]
        /\ is_new_data' = TRUE /\ buff_index' = k
    BY <1>4, <2>3 DEF Receive
  <2>5. typing' = <<>>
    BY <1>2, <1>3, <1>6, EmptySeq
  <2>6. buff'[n] = Zero
    BY <1>1, <1>2, <1>6, <2>4 DEF LineTypeOK
  <2>7. \A i \in 0 .. n - 1 : buff'[i] = typed[i + 1]
    BY <1>1, <1>2, <1>6, <2>4 DEF LineTypeOK, Arriving, Byte
  <2>8. Arrived'
    BY <1>5, <1>6, <2>4, <2>5, <2>6, <2>7 DEF Arrived
  <2>9. QED
    BY <2>8
<1>7. CASE k <= n
  <2>1. ~EndsLine(b)
    <3>1. CASE k = n
      <4>1. b = "\\"
        BY <1>2, <1>3, <3>1 DEF Byte
      <4>2. QED
        BY <4>1 DEF EndsLine
    <3>2. CASE k < n /\ k > 0
      <4>1. b = typed[k + 1] /\ buff[k - 1] = typed[k]
        BY <1>1, <1>2, <1>3, <3>2 DEF Arriving, Byte
      <4>2. QED
        BY <1>1, <1>2, <3>2, <4>1 DEF NoEnd, EndsLine
    <3>3. CASE k = 0
      BY <3>3 DEF EndsLine
    <3>4. QED
      BY <1>2, <1>7, <3>1, <3>2, <3>3
  <2>2. buff' = [buff EXCEPT ![k] = b] /\ buff_index' = k + 1 /\ is_new_data' = is_new_data
    BY <1>4, <2>1 DEF Receive
  <2>3. \A i \in 0 .. (k + 1) - 1 : buff'[i] = Byte(i + 1)
    BY <1>1, <1>2, <1>3, <1>7, <2>2 DEF LineTypeOK, Arriving
  <2>4. \A i \in 1 .. Len(typing') : typing'[i] = Byte((k + 1) + i)
    <3>1. ASSUME NEW i \in 1 .. Len(typing')
          PROVE  typing'[i] = Byte((k + 1) + i)
      <4>1. i + 1 \in 1 .. Len(typing) /\ k + (i + 1) = (k + 1) + i
        BY <1>2, <1>3
      <4>2. QED
        BY <1>1, <1>3, <4>1 DEF Arriving
    <3>2. QED
      BY <3>1
  <2>5. typing' # <<>> /\ (k + 1) + Len(typing') = n + 2
    BY <1>2, <1>3, <1>7, EmptySeq
  <2>6. Arriving'
    <3>1. \A i : Byte(i)' = Byte(i)
      BY <1>5 DEF Byte
    <3>2. QED
      BY <1>1, <1>5, <2>2, <2>3, <2>4, <2>5, <3>1 DEF Arriving
  <2>7. QED
    BY <2>6
<1>8. QED
  BY <1>2, <1>6, <1>7

\* strncpy stops at the zero that stands for the backslash: the line is taken whole.
LEMMA CopyLine ==
    ASSUME LineInv, orderly, Arrived
    PROVE  Copied = typed
<1> DEFINE n == Len(typed)
           Ends(m) == /\ m < buff_index => buff[m] = Zero
                      /\ \A i \in 0 .. m - 1 : buff[i] # Zero
<1>1. n \in Nat /\ buff_index = n + 1 /\ typed \in Seq(Chars)
  BY LenProperties DEF LineInv, LineTypeOK, Arrived
<1>2. \A i \in 0 .. n - 1 : buff[i] = typed[i + 1] /\ buff[i] # Zero
  BY <1>1, ElementOfSeq DEF Arrived, Chars, Zero
<1>3. n \in 0 .. buff_index /\ Ends(n)
  BY <1>1, <1>2 DEF Arrived
<1>4. ASSUME NEW m \in 0 .. buff_index, Ends(m)
      PROVE  m = n
  <2>1. CASE m < n
    BY <1>1, <1>2, <1>4, <2>1
  <2>2. CASE m > n
    BY <1>1, <1>4, <2>2 DEF Arrived
  <2>3. QED
    BY <1>1, <2>1, <2>2
<1>5. (CHOOSE m \in 0 .. buff_index : Ends(m)) = n
  BY <1>3, <1>4
<1>6. Copied = [i \in 1 .. n |-> buff[i - 1]]
  BY <1>5 DEF Copied
<1>7. typed = [i \in 1 .. n |-> typed[i]]
  BY <1>1, LenProperties
<1>8. \A i \in 1 .. n : buff[i - 1] = typed[i]
  BY <1>1, <1>2
<1>9. QED
  BY <1>6, <1>7, <1>8

\* The invariant is inductive.
LEMMA LineStep == LineInv /\ [LineNext]_lineVars => LineInv'
<1> SUFFICES ASSUME LineInv, [LineNext]_lineVars, orderly'
             PROVE  /\ Len(typed') + 2 < Size /\ NoEnd'
                    /\ Waiting' \/ Arriving' \/ Arrived' \/ Flagged' \/ Indexed'
  BY TypesStep DEF LineInv
<1>1. CASE BeginLine
  BY <1>1, TypeLine
<1>o. ASSUME ~BeginLine
      PROVE  orderly /\ typed' = typed
  BY <1>o DEF LineNext, Receive, GetCopy, GetClearFlag, GetClearIndex, lineVars, senderVars
<1>n. ASSUME ~BeginLine
      PROVE  Len(typed') + 2 < Size /\ NoEnd'
  BY <1>n, <1>o DEF LineInv, NoEnd
<1>2. CASE Receive /\ ~BeginLine
  BY <1>2, <1>n, <1>o, ReceiveLine
<1>3. CASE GetCopy /\ ~BeginLine
  <2>1. Arrived
    BY <1>3, <1>o DEF LineInv, GetCopy, Waiting, Arriving, Flagged, Indexed
  <2>2. Flagged'
    BY <1>3, <1>o, <2>1, CopyLine DEF GetCopy, senderVars, Arrived, Flagged
  <2>3. QED
    BY <1>3, <1>n, <2>2
<1>4. CASE GetClearFlag /\ ~BeginLine
  <2>1. Flagged
    BY <1>4, <1>o DEF LineInv, GetClearFlag, Waiting, Arriving, Arrived, Indexed
  <2>2. Indexed'
    BY <1>4, <2>1 DEF GetClearFlag, senderVars, Flagged, Indexed
  <2>3. QED
    BY <1>4, <1>n, <2>2
<1>5. CASE GetClearIndex /\ ~BeginLine
  <2>1. Indexed
    BY <1>5, <1>o DEF LineInv, GetClearIndex, Waiting, Arriving, Arrived, Flagged
  <2>2. Waiting'
    BY <1>5, <2>1 DEF GetClearIndex, senderVars, Waiting, Indexed
  <2>3. QED
    BY <1>5, <1>n, <2>2
<1>6. CASE UNCHANGED lineVars /\ ~BeginLine
  <2>1. \A i : Byte(i)' = Byte(i)
    BY <1>o, <1>6 DEF Byte
  <2>2. Waiting' \/ Arriving' \/ Arrived' \/ Flagged' \/ Indexed'
    BY <1>6, <1>o, <2>1
    DEF LineInv, lineVars, rxVars, senderVars, Waiting, Arriving, Arrived, Flagged, Indexed
  <2>3. QED
    BY <1>6, <1>n, <2>2
<1>7. QED
  BY <1>1, <1>2, <1>3, <1>4, <1>5, <1>6 DEF LineNext

\* Whatever is typed and however fast: the receive interrupt writes inside buff, and what
\* get_data copies, with the zero behind it, fits the caller's buffer of the same size.
THEOREM LineTypes == LineSpec => []LineTypeOK
<1>1. LineInv => LineTypeOK
  BY DEF LineInv
<1>2. QED
  BY <1>1, InitLine, LineStep, PTL DEF LineSpec

\* For a buffer of any size and any lines: what uart_module_get_data hands over to an
\* orderly sender's listener is the line as it was typed, wherever the receive interrupt
\* cuts in.
THEOREM LinesTakenAsTyped == LineSpec => []TakenAsTyped
<1>1. LineInv => TakenAsTyped
  BY DEF LineInv, TakenAsTyped, Waiting, Arriving, Arrived, Flagged, Indexed
<1>2. QED
  BY <1>1, InitLine, LineStep, PTL DEF LineSpec

------------------------------------------------------------------------------
(* ConfigTool, for any parameters and values, however many commands are     *)
(* given and whichever of the two interrupts has the higher priority.       *)

\* The steps of sm_uart_process and of the writing handlers: what is printed, what is
\* handled and which callback is registered go with the statement reached.
ConsoleStep ==
    /\ text # Nothing <=> main \in {"print", "claim", "printing"}
    /\ command # NoLine <=> main \in {"value", "register", "push"}
    /\ main = "push" => m_cmd = command.name
    /\ text = "report" \/ main = "clear" => m_cmd_current

\* A transfer under way is that of the one who holds the lock, and m_tx_completed is up
\* exactly while there is none.
Transfer ==
    /\ m_tx_completed <=> tx = Nothing
    /\ tx # Nothing => lock
    /\ tx # Nothing /\ main = "printing" => tx = text
    /\ tx # Nothing /\ tick = "printing" => tx = "report"

\* A request goes through its stages in order, and what it is to carry was typed.
Stages ==
    /\ main \in {"register", "push"} => m_data_write[command.name] \in Value
    /\ \A i \in 1 .. Len(queue) : m_data_write[queue[i]] \in Value
    /\ serving # Nothing => m_data_write[serving] \in Value
    /\ carried # Nothing => serving # Nothing
    /\ result # Nothing => carried # Nothing
    /\ tick # "out" =>
          /\ result # Nothing /\ reports # <<>>
          /\ reports[Len(reports)].result = result

ToolInv == TypeOK /\ ConsoleStep /\ OnePrinter /\ Transfer /\ Stages


\* The types of what the operator, the console, sm_ev_config_co, sm_core_co and the UART
\* keep.
OperatorTypes ==
    /\ inbox \in Command \union {NoLine} /\ given \in 0 .. Commands
    /\ pair \in BOOLEAN /\ awaited \in BOOLEAN /\ hasty \in BOOLEAN
    /\ plain \in BOOLEAN /\ TxEndFirst \in BOOLEAN
MainTypes ==
    /\ main \in {"poll", "print", "claim", "printing", "flush", "clear", "get", "value",
                 "register", "push", "fault"}
    /\ command \in [name : Field, value : Value] \union {NoLine}
    /\ text \in {"banner", "report", "menu", Nothing}
    /\ m_pause_poll \in BOOLEAN /\ m_cmd_current \in BOOLEAN
ConfigTypes ==
    /\ m_data_write \in [Field -> Value \union {NoValue}] /\ m_cmd \in Field \union {Nothing}
    /\ refused \subseteq Field
RequestTypes ==
    /\ serving \in Field \union {Nothing} /\ carried \in Value \union {Nothing}
    /\ result \in {"success", "abort", Nothing}
    /\ mc \in [Field -> Value \union {NoValue}]
    /\ tick \in {"out", "print", "printing"}
QueueTypes == queue \in Seq(Field) /\ Len(queue) <= QueueLen
UartTypes ==
    /\ lock \in BOOLEAN /\ tx \in {"banner", "report", "menu", Nothing}
    /\ m_tx_completed \in BOOLEAN
ReportTypes ==
    reports \in Seq([told : Field \union {Nothing}, field : Field, result : {"success", "abort"}])

\* Together they are TypeOK.
LEMMA TypeParts ==
    /\ TypeOK <=> /\ OperatorTypes /\ MainTypes /\ ConfigTypes /\ RequestTypes
                  /\ QueueTypes /\ UartTypes /\ ReportTypes
    /\ TypeOK' <=> /\ OperatorTypes' /\ MainTypes' /\ ConfigTypes' /\ RequestTypes'
                   /\ QueueTypes' /\ UartTypes' /\ ReportTypes'
  BY DEF TypeOK, OperatorTypes, MainTypes, ConfigTypes, RequestTypes, QueueTypes, UartTypes,
         ReportTypes

\* The names of the parameters are the words the writing handlers match.
LEMMA FieldNames ==
    /\ Nothing \notin Field /\ "unknown" \notin Field /\ Field \cap Menus = {}
    /\ Commands \in Nat /\ QueueLen \in Nat /\ QueueLen > 0
    /\ \A b \in Pairs \union Priorities : b \in BOOLEAN
  BY ToolAssumption DEF Nothing, Menus

\* What an idle console and motor controller hold.
LEMMA InitTool == Init => ToolInv
<1> SUFFICES ASSUME Init
             PROVE  ToolInv
  OBVIOUS
<1>1. Len(queue) = 0
  BY EmptySeq DEF Init
<1>2. OperatorTypes /\ MainTypes
  <2>1. OperatorTypes
    <3>1. /\ inbox = NoLine /\ pair = TRUE /\ given = 0 /\ awaited = FALSE /\ hasty = FALSE
          /\ plain = TRUE /\ TxEndFirst \in Priorities
      BY DEF Init
    <3>2. given \in 0 .. Commands /\ TxEndFirst \in BOOLEAN
      BY <3>1, FieldNames
    <3>3. QED
      BY <3>1, <3>2, Zenon DEF OperatorTypes
  <2>2. MainTypes
    BY DEF Init, MainTypes
  <2>3. QED
    BY <2>1, <2>2
<1>3. ConfigTypes /\ RequestTypes /\ UartTypes
  BY DEF Init, ConfigTypes, RequestTypes, UartTypes
<1>4. QueueTypes /\ ReportTypes
  BY <1>1, FieldNames, EmptySeq DEF Init, QueueTypes, ReportTypes
<1>5. ConsoleStep /\ OnePrinter
  BY DEF Init, ConsoleStep, OnePrinter, Nothing
<1>6. Transfer /\ Stages
  BY <1>1 DEF Init, Transfer, Stages, Nothing
<1>7. QED
  BY <1>2, <1>3, <1>4, <1>5, <1>6, TypeParts DEF ToolInv

\* A line with the name of a parameter is a command to write it.
LEMMA WriteLine ==
    /\ \A line \in Command : IsWrite(line) => line \in [name : Field, value : Value]
    /\ NoLine \notin [name : Field, value : Value]
  BY FieldNames DEF Command, NoLine, IsWrite, Menus

\* What is dispatched is a line, and a word no handler knows becomes no other.
LEMMA ParsedLine ==
    ASSUME ToolInv, inbox # NoLine, NEW line \in Parsed
    PROVE  /\ line \in Command
           /\ line.name \in {inbox.name, "unknown"}
  BY DEF ToolInv, TypeOK, Parsed

\* A handler is at work on a command to write.
LEMMA Handled ==
    ASSUME ToolInv, main \in {"value", "register", "push"}
    PROVE  command \in [name : Field, value : Value] /\ command.name \in Field
           /\ command.value \in Value
<1>1. command \in [name : Field, value : Value]
  BY DEF ToolInv, TypeOK, ConsoleStep
<1>2. QED
  BY <1>1

\* What is printed in the main loop is one of the three texts.
LEMMA Printed ==
    ASSUME ToolInv, main \in {"print", "claim", "printing"}
    PROVE  text \in {"banner", "report", "menu"}
  BY DEF ToolInv, TypeOK, ConsoleStep

\* Each statement of the main loop keeps the types.
LEMMA MainTypesStep == ToolInv /\ Main => TypeOK'
<1> SUFFICES ASSUME ToolInv, Main
             PROVE  TypeOK'
  OBVIOUS
<1>0. /\ OperatorTypes /\ MainTypes /\ ConfigTypes /\ RequestTypes
      /\ QueueTypes /\ UartTypes /\ ReportTypes
  BY TypeParts DEF ToolInv
<1>1. OperatorTypes'
  <2>1. CASE Get \/ Fault
    BY <1>0, <2>1 DEF Get, Fault, OperatorTypes
  <2>2. CASE ~Get /\ ~Fault
    BY <1>0, <2>2 DEF Main, Poll, PrintWait, Fault, PrintStart, PrintEnd, Flush, ClearReport,
                      SetValue, Register,
                      Push, operator, OperatorTypes
  <2>3. QED
    BY <2>1, <2>2
<1>2. MainTypes'
  <2>1. CASE Poll
    BY <1>0, <2>1 DEF Poll, MainTypes
  <2>2. CASE PrintStart \/ PrintWait \/ Fault
    BY <1>0, <2>2 DEF PrintStart, PrintWait, Fault, MainTypes
  <2>3. CASE PrintEnd
    BY <1>0, <2>3, Printed DEF PrintEnd, MainAt, AfterPrint, MainTypes
  <2>4. CASE Flush
    BY <1>0, <2>4 DEF Flush, MainTypes
  <2>5. CASE ClearReport
    BY <1>0, <2>5 DEF ClearReport, MainTypes
  <2>6. CASE Get
    <3>1. CASE inbox = NoLine
      BY <1>0, <2>6, <3>1 DEF Get, MainTypes
    <3>2. CASE inbox # NoLine
      <4>1. PICK line \in Parsed :
               \/ IsWrite(line) /\ main' = "value" /\ command' = line /\ UNCHANGED text
               \/ main' = "print" /\ text' = "menu" /\ UNCHANGED command
               \/ main' = "poll" /\ UNCHANGED <<command, text>>
        BY <2>6, <3>2 DEF Get
      <4>2. IsWrite(line) => line \in [name : Field, value : Value]
        BY <3>2, ParsedLine, WriteLine
      <4>3. m_pause_poll' = TRUE /\ UNCHANGED m_cmd_current
        BY <2>6, <3>2 DEF Get
      <4>4. QED
        BY <1>0, <4>1, <4>2, <4>3 DEF MainTypes
    <3>3. QED
      BY <3>1, <3>2
  <2>7. CASE SetValue \/ Register
    BY <1>0, <2>7 DEF SetValue, Register, MainTypes
  <2>8. CASE Push
    BY <1>0, <2>8 DEF Push, MainTypes
  <2>9. QED
    BY <2>1, <2>2, <2>3, <2>4, <2>5, <2>6, <2>7, <2>8 DEF Main
<1>3. ConfigTypes'
  <2>1. CASE SetValue
    BY <1>0, <2>1, Handled DEF SetValue, MainAt, ConfigTypes
  <2>2. CASE Register
    BY <1>0, <2>2, Handled DEF Register, MainAt, ConfigTypes
  <2>3. CASE Push
    BY <1>0, <2>3, Handled DEF Push, MainAt, ConfigTypes
  <2>4. CASE ~SetValue /\ ~Register /\ ~Push
    BY <1>0, <2>4 DEF Main, Poll, PrintWait, Fault, PrintStart, PrintEnd, Flush, ClearReport,
                      Get, config,
                      ConfigTypes
  <2>5. QED
    BY <2>1, <2>2, <2>3, <2>4
<1>4. RequestTypes' /\ ReportTypes'
  BY <1>0 DEF Main, Poll, PrintWait, Fault, PrintStart, PrintEnd, Flush, ClearReport, Get,
              SetValue, Register, Push,
              request, RequestTypes, ReportTypes
<1>5. QueueTypes'
  <2>1. CASE Push
    <3>1. command.name \in Field
      BY <2>1, Handled DEF Push, MainAt
    <3>2. queue \in Seq(Field) /\ Len(queue) <= QueueLen /\ QueueLen \in Nat
      BY <1>0, FieldNames DEF QueueTypes
    <3>3. CASE Len(queue) < QueueLen
      <4>1. queue' = Append(queue, command.name)
        BY <2>1, <3>3 DEF Push
      <4>2. queue' \in Seq(Field) /\ Len(queue') = Len(queue) + 1 /\ Len(queue) \in Nat
        BY <3>1, <3>2, <4>1, AppendProperties, LenProperties
      <4>3. QED
        BY <3>2, <3>3, <4>2 DEF QueueTypes
    <3>4. CASE ~(Len(queue) < QueueLen)
      BY <2>1, <3>2, <3>4 DEF Push, QueueTypes
    <3>5. QED
      BY <3>3, <3>4
  <2>2. CASE ~Push
    BY <1>0, <2>2 DEF Main, Poll, PrintWait, Fault, PrintStart, PrintEnd, Flush, ClearReport,
                      Get, SetValue,
                      Register, QueueTypes
  <2>3. QED
    BY <2>1, <2>2
<1>6. UartTypes'
  <2>1. CASE PrintStart
    BY <1>0, <2>1, Printed DEF PrintStart, MainAt, StartTx, UartTypes
  <2>2. CASE PrintEnd
    BY <1>0, <2>2 DEF PrintEnd, EndTx, UartTypes
  <2>3. CASE ~PrintStart /\ ~PrintEnd
    BY <1>0, <2>3 DEF Main, Poll, PrintWait, Fault, Flush, ClearReport, Get, SetValue, Register,
                      Push, uart,
                      UartTypes
  <2>4. QED
    BY <2>1, <2>2, <2>3
<1>7. QED
  BY <1>1, <1>2, <1>3, <1>4, <1>5, <1>6, TypeParts

\* Each step of sm_co_process keeps the types.
LEMMA TickTypesStep == ToolInv /\ Tick => TypeOK'
<1> SUFFICES ASSUME ToolInv, Tick
             PROVE  TypeOK'
  OBVIOUS
<1>0. /\ OperatorTypes /\ MainTypes /\ ConfigTypes /\ RequestTypes
      /\ QueueTypes /\ UartTypes /\ ReportTypes
  BY TypeParts DEF ToolInv
<1>1. OperatorTypes' /\ ConfigTypes'
  BY <1>0 DEF Tick, TickTake, TickStart, TickEnd, TickCallback, TickPrintStart, TickPrintEnd,
              operator, config, OperatorTypes, ConfigTypes
<1>2. MainTypes'
  <2>1. CASE TickCallback
    BY <1>0, <2>1 DEF TickCallback, console, MainTypes
  <2>2. CASE ~TickCallback
    BY <1>0, <2>2 DEF Tick, TickTake, TickStart, TickEnd, TickPrintStart, TickPrintEnd, console,
                      MainTypes
  <2>3. QED
    BY <2>1, <2>2
<1>3. QueueTypes' /\ (TickTake => Head(queue) \in Field)
  <2>1. CASE TickTake
    BY <1>0, <2>1, HeadTailProperties, LenProperties, FieldNames DEF TickTake, QueueTypes
  <2>2. CASE ~TickTake
    BY <1>0, <2>2 DEF Tick, TickStart, TickEnd, TickCallback, TickPrintStart, TickPrintEnd,
                      QueueTypes
  <2>3. QED
    BY <2>1, <2>2
<1>4. RequestTypes'
  <2>1. CASE TickTake
    BY <1>0, <1>3, <2>1 DEF TickTake, RequestTypes
  <2>2. CASE TickStart
    BY <1>0, <2>2 DEF ToolInv, Stages, TickStart, RequestTypes
  <2>3. CASE TickEnd
    <3>1. carried \in Value /\ serving \in Field
      BY <1>0, <2>3 DEF ToolInv, Stages, TickEnd, RequestTypes
    <3>2. QED
      BY <1>0, <2>3, <3>1 DEF TickEnd, RequestTypes
  <2>4. CASE TickCallback
    BY <1>0, <2>4 DEF TickCallback, Served, request, RequestTypes
  <2>5. CASE TickPrintStart
    BY <1>0, <2>5 DEF TickPrintStart, request, RequestTypes
  <2>6. CASE TickPrintEnd
    BY <1>0, <2>6 DEF TickPrintEnd, Served, RequestTypes
  <2>7. QED
    BY <2>1, <2>2, <2>3, <2>4, <2>5, <2>6 DEF Tick
<1>5. UartTypes'
  <2>1. CASE TickPrintStart
    BY <1>0, <2>1 DEF TickPrintStart, StartTx, UartTypes
  <2>2. CASE TickPrintEnd
    BY <1>0, <2>2 DEF TickPrintEnd, EndTx, UartTypes
  <2>3. CASE ~TickPrintStart /\ ~TickPrintEnd
    BY <1>0, <2>3 DEF Tick, TickTake, TickStart, TickEnd, TickCallback, uart, UartTypes
  <2>4. QED
    BY <2>1, <2>2, <2>3
<1>6. ReportTypes'
  <2>1. CASE TickCallback
    <3>1. serving \in Field /\ result \in {"success", "abort"}
      BY <1>0, <2>1 DEF ToolInv, Stages, TickCallback, RequestTypes
    <3> DEFINE r == [told |-> m_cmd, field |-> serving, result |-> result]
               R == [told : Field \union {Nothing}, field : Field, result : {"success", "abort"}]
    <3>2. r \in R
      BY <1>0, <3>1 DEF ConfigTypes
    <3>3. reports' = Append(reports, r) /\ reports \in Seq(R)
      BY <1>0, <2>1 DEF TickCallback, ReportTypes
    <3> HIDE DEF r
    <3>4. reports' \in Seq(R)
      BY <3>2, <3>3, AppendProperties
    <3>5. QED
      BY <3>4 DEF ReportTypes
  <2>2. CASE ~TickCallback
    BY <1>0, <2>2 DEF Tick, TickTake, TickStart, TickEnd, TickPrintStart, TickPrintEnd,
                      ReportTypes
  <2>3. QED
    BY <2>1, <2>2
<1>7. QED
  BY <1>1, <1>2, <1>3, <1>4, <1>5, <1>6, TypeParts

\* Every step keeps the types.
LEMMA ToolTypesStep == ToolInv /\ [Next]_vars => TypeOK'
<1> SUFFICES ASSUME ToolInv, [Next]_vars
             PROVE  TypeOK'
  OBVIOUS
<1>0. /\ OperatorTypes /\ MainTypes /\ ConfigTypes /\ RequestTypes
      /\ QueueTypes /\ UartTypes /\ ReportTypes
  BY TypeParts DEF ToolInv
<1>1. CASE Type
  <2>1. OperatorTypes'
    BY <1>0, <1>1, FieldNames DEF Type, OperatorTypes
  <2>2. MainTypes' /\ ConfigTypes' /\ RequestTypes'
    BY <1>0, <1>1 DEF Type, console, config, request, MainTypes, ConfigTypes, RequestTypes
  <2>3. QueueTypes' /\ UartTypes' /\ ReportTypes'
    BY <1>0, <1>1 DEF Type, uart, QueueTypes, UartTypes, ReportTypes
  <2>4. QED
    BY <2>1, <2>2, <2>3, TypeParts
<1>2. CASE TxEnd
  <2>1. OperatorTypes' /\ UartTypes'
    BY <1>0, <1>2 DEF TxEnd, OperatorTypes, UartTypes
  <2>2. MainTypes' /\ ConfigTypes' /\ RequestTypes'
    BY <1>0, <1>2 DEF TxEnd, console, config, request, MainTypes, ConfigTypes, RequestTypes
  <2>3. QueueTypes' /\ ReportTypes'
    BY <1>0, <1>2 DEF TxEnd, QueueTypes, ReportTypes
  <2>4. QED
    BY <2>1, <2>2, <2>3, TypeParts
<1>3. CASE UNCHANGED vars
  <2>1. OperatorTypes' /\ MainTypes' /\ ConfigTypes' /\ RequestTypes'
    BY <1>0, <1>3 DEF vars, operator, console, config, request, OperatorTypes, MainTypes,
                      ConfigTypes, RequestTypes
  <2>2. QueueTypes' /\ UartTypes' /\ ReportTypes'
    BY <1>0, <1>3 DEF vars, uart, QueueTypes, UartTypes, ReportTypes
  <2>3. QED
    BY <2>1, <2>2, TypeParts
<1>4. QED
  BY <1>1, <1>2, <1>3, MainTypesStep, TickTypesStep DEF Next

\* What is printed, handled and registered goes on with the statement of the main loop.
LEMMA ConsoleStepStep == ToolInv /\ [Next]_vars => ConsoleStep'
<1> SUFFICES ASSUME ToolInv, [Next]_vars
             PROVE  ConsoleStep'
  OBVIOUS
<1>0. MainTypes /\ ConsoleStep /\ OperatorTypes
  BY TypeParts DEF ToolInv
<1> USE DEF ConsoleStep, MainAt, console, config
<1>1. CASE Type \/ TxEnd
  BY <1>0, <1>1 DEF Type, TxEnd
<1>2. CASE Poll \/ Flush \/ PrintWait \/ Fault
  BY <1>0, <1>2 DEF Poll, PrintWait, Fault, Flush, Nothing
<1>3. CASE PrintStart
  BY <1>0, <1>3 DEF PrintStart
<1>4. CASE PrintEnd
  <2>1. CASE text = "report"
    BY <1>0, <1>4, <2>1 DEF PrintEnd, AfterPrint, Nothing
  <2>2. CASE text # "report"
    BY <1>0, <1>4, <2>2, Printed DEF PrintEnd, AfterPrint, Nothing
  <2>3. QED
    BY <2>1, <2>2
<1>5. CASE ClearReport
  BY <1>0, <1>5 DEF ClearReport, Nothing
<1>6. CASE Get
  <2>1. text = Nothing /\ command = NoLine /\ UNCHANGED <<m_cmd, m_cmd_current>>
    BY <1>0, <1>6 DEF Get
  <2>2. CASE inbox = NoLine
    BY <1>0, <1>6, <2>1, <2>2 DEF Get
  <2>3. CASE inbox # NoLine
    <3>1. PICK line \in Parsed :
             \/ IsWrite(line) /\ main' = "value" /\ command' = line /\ UNCHANGED text
             \/ main' = "print" /\ text' = "menu" /\ UNCHANGED command
             \/ main' = "poll" /\ UNCHANGED <<command, text>>
      BY <1>6, <2>3 DEF Get
    <3>2. IsWrite(line) => line # NoLine
      BY <2>3, ParsedLine, WriteLine
    <3>3. QED
      BY <1>0, <2>1, <3>1, <3>2 DEF Nothing
  <2>4. QED
    BY <2>2, <2>3
<1>7. CASE SetValue \/ Register \/ Push
  BY <1>0, <1>7 DEF SetValue, Register, Push
<1>8. CASE Tick
  BY <1>0, <1>8 DEF Tick, TickTake, TickStart, TickEnd, TickCallback, TickPrintStart, TickPrintEnd
<1>9. CASE UNCHANGED vars
  BY <1>0, <1>9 DEF vars
<1>10. QED
  BY <1>1, <1>2, <1>3, <1>4, <1>5, <1>6, <1>7, <1>8, <1>9 DEF Next, Main

\* uart_module_write waits for the lock, and the interrupt runs only where the main loop
\* stands between two statements: the transfer belongs to the one who holds the lock.
LEMMA PrinterStep == ToolInv /\ [Next]_vars => OnePrinter' /\ Transfer'
<1> SUFFICES ASSUME ToolInv, [Next]_vars
             PROVE  OnePrinter' /\ Transfer'
  OBVIOUS
<1>0. MainTypes /\ ConsoleStep /\ OnePrinter /\ Transfer /\ UartTypes
  BY TypeParts DEF ToolInv
<1> USE DEF OnePrinter, Transfer, MainAt
<1>1. CASE Type
  BY <1>0, <1>1 DEF Type, console, uart
<1>2. CASE TxEnd
  BY <1>0, <1>2 DEF TxEnd, console
<1>3. CASE PrintStart
  <2>1. text # Nothing
    BY <1>0, <1>3 DEF PrintStart, ConsoleStep
  <2>2. QED
    BY <1>0, <1>3, <2>1 DEF PrintStart, StartTx
<1>4. CASE PrintEnd
  <2>1. main' # "printing"
    BY <1>4, Printed DEF PrintEnd, AfterPrint
  <2>2. QED
    BY <1>0, <1>4, <2>1 DEF PrintEnd, EndTx
<1>5. CASE Poll \/ PrintWait \/ Fault \/ Flush \/ ClearReport \/ Get \/ SetValue \/ Register \/ Push
  <2>1. UNCHANGED uart /\ tick' = "out" /\ tick = "out"
    BY <1>5 DEF Poll, PrintWait, Fault, Flush, ClearReport, Get, SetValue, Register, Push
  <2>2. main # "printing" /\ main' # "printing"
    BY <1>5 DEF Poll, PrintWait, Fault, Flush, ClearReport, Get, SetValue, Register, Push
  <2>3. QED
    BY <1>0, <2>1, <2>2 DEF uart
<1>6. CASE TickTake \/ TickStart \/ TickEnd
  BY <1>0, <1>6 DEF TickTake, TickStart, TickEnd, console, uart
<1>7. CASE TickCallback
  BY <1>0, <1>7 DEF TickCallback, console, uart
<1>8. CASE TickPrintStart
  BY <1>0, <1>8 DEF TickPrintStart, StartTx, console, Nothing
<1>9. CASE TickPrintEnd
  BY <1>0, <1>9 DEF TickPrintEnd, EndTx, console
<1>10. CASE UNCHANGED vars
  BY <1>0, <1>10 DEF vars, console, uart
<1>11. QED
  BY <1>1, <1>2, <1>3, <1>4, <1>5, <1>6, <1>7, <1>8, <1>9, <1>10 DEF Next, Main, Tick

\* A request goes from queue to sm_core_co to its callback with a value that was typed.
LEMMA StagesStep == ToolInv /\ [Next]_vars => Stages'
<1> SUFFICES ASSUME ToolInv, [Next]_vars
             PROVE  Stages'
  OBVIOUS
<1>0. Stages /\ QueueTypes /\ ConfigTypes /\ RequestTypes
  BY TypeParts DEF ToolInv
<1>1. CASE Type \/ TxEnd
  BY <1>0, <1>1 DEF Type, TxEnd, Stages, console, config, request
<1>2. CASE Poll \/ PrintWait \/ Fault \/ PrintStart \/ Flush \/ ClearReport \/ Get
  BY <1>0, <1>2 DEF Poll, PrintWait, Fault, PrintStart, Flush, ClearReport, Get, Stages, config,
                    request
<1>3. CASE PrintEnd
  <2>1. main' \notin {"register", "push"}
    BY <1>3, Printed DEF PrintEnd, MainAt, AfterPrint
  <2>2. QED
    BY <1>0, <1>3, <2>1 DEF PrintEnd, Stages, config, request
<1>4. CASE SetValue
  <2>1. /\ command.name \in Field /\ command.value \in Value /\ command' = command
        /\ m_data_write' = [m_data_write EXCEPT ![command.name] = command.value]
        /\ UNCHANGED <<queue, serving, carried, result, tick, reports>>
    BY <1>4, Handled DEF SetValue, MainAt, request
  <2>2. \A f \in Field : m_data_write[f] \in Value => m_data_write'[f] \in Value
    BY <1>0, <2>1 DEF ConfigTypes
  <2>3. m_data_write'[command'.name] \in Value
    BY <1>0, <2>1 DEF ConfigTypes
  <2>4. \A i \in 1 .. Len(queue) : queue[i] \in Field
    BY <1>0, ElementOfSeq DEF QueueTypes
  <2>5. serving # Nothing => serving \in Field
    BY <1>0 DEF RequestTypes
  <2>6. QED
    BY <1>0, <2>1, <2>2, <2>3, <2>4, <2>5 DEF Stages
<1>5. CASE Register
  BY <1>0, <1>5 DEF Register, MainAt, Stages, request
<1>6. CASE Push
  <2>1. main = "push" /\ main' = "poll" /\ UNCHANGED <<m_data_write, request, tick, reports>>
    BY <1>6 DEF Push, MainAt
  <2>2. m_data_write[command.name] \in Value /\ command.name \in Field
    BY <1>0, <2>1, Handled DEF Stages
  <2>3. \A i \in 1 .. Len(queue') : m_data_write[queue'[i]] \in Value
    <3>1. CASE Len(queue) < QueueLen
      BY <1>0, <1>6, <2>2, <3>1, AppendProperties, LenProperties DEF Push, Stages, QueueTypes
    <3>2. CASE ~(Len(queue) < QueueLen)
      BY <1>0, <1>6, <3>2 DEF Push, Stages
    <3>3. QED
      BY <3>1, <3>2
  <2>4. QED
    BY <1>0, <2>1, <2>3 DEF Stages, request
<1>7. CASE TickTake
  <2>1. /\ queue \in Seq(Field) /\ queue # <<>> /\ queue' = Tail(queue)
        /\ serving' = Head(queue) /\ serving = Nothing
        /\ UNCHANGED <<main, command, m_data_write, carried, result, reports>> /\ tick' = "out"
    BY <1>0, <1>7 DEF TickTake, QueueTypes, console, config
  <2>2. /\ Len(queue) \in Nat /\ Len(queue) > 0 /\ Len(queue') = Len(queue) - 1
        /\ serving' = queue[1]
        /\ \A i \in 1 .. Len(queue') : queue'[i] = queue[i + 1]
    BY <2>1, HeadTailProperties, LenProperties, EmptySeq
  <2>3. m_data_write[serving'] \in Value
    BY <1>0, <2>2 DEF Stages
  <2>4. \A i \in 1 .. Len(queue') : m_data_write[queue'[i]] \in Value
    BY <1>0, <2>2 DEF Stages
  <2>5. carried = Nothing /\ result = Nothing
    BY <1>0, <2>1 DEF Stages
  <2>6. QED
    BY <1>0, <2>1, <2>3, <2>4, <2>5 DEF Stages
<1>8. CASE TickStart
  BY <1>0, <1>8 DEF TickStart, Stages, console, config
<1>9. CASE TickEnd
  BY <1>0, <1>9 DEF TickEnd, Stages, console, config
<1>10. CASE TickCallback
  <2>1. /\ reports' = Append(reports, [told |-> m_cmd, field |-> serving, result |-> result])
        /\ result # Nothing /\ UNCHANGED <<main, command, m_data_write, queue>>
        /\ \/ Served /\ tick' = "out"
           \/ UNCHANGED request
    BY <1>10 DEF TickCallback, console, config
  <2>2. reports' # <<>> /\ reports'[Len(reports')].result = result
    <3> DEFINE R == [told : Field \union {Nothing}, field : Field,
                     result : {"success", "abort"}]
               r == [told |-> m_cmd, field |-> serving, result |-> result]
    <3>1. reports \in Seq(R) /\ r \in R
      BY <1>0, <2>1, TypeParts DEF ToolInv, ReportTypes, ConfigTypes, RequestTypes, Stages
    <3>2. r.result = result
      OBVIOUS
    <3> HIDE DEF r
    <3>3. QED
      BY <2>1, <3>1, <3>2, AppendProperties DEF r
  <2>3. QED
    BY <1>0, <2>1, <2>2 DEF Stages, Served, request
<1>11. CASE TickPrintStart
  BY <1>0, <1>11 DEF TickPrintStart, Stages, console, config, request
<1>12. CASE TickPrintEnd
  BY <1>0, <1>12 DEF TickPrintEnd, Served, Stages, console, config
<1>13. CASE UNCHANGED vars
  BY <1>0, <1>13 DEF vars, Stages, console, config, request
<1>14. QED
  BY <1>1, <1>2, <1>3, <1>4, <1>5, <1>6, <1>7, <1>8, <1>9, <1>10, <1>11, <1>12, <1>13
  DEF Next, Main, Tick

\* The invariant is inductive.
LEMMA ToolStep == ToolInv /\ [Next]_vars => ToolInv'
  BY ToolTypesStep, ConsoleStepStep, PrinterStep, StagesStep DEF ToolInv

\* The invariant holds throughout.
LEMMA ToolSafe == Spec => []ToolInv
<1>1. QED
  BY InitTool, ToolStep, PTL DEF Spec

\* Whatever is typed and however the two interrupts are ranked: every variable keeps its
\* type, and no transfer is started over another's (sm_pmu_uart.c and the callbacks of
\* sm_ev_config_co.c print through one uart_module).
THEOREM ToolTypes == Spec => []TypeOK
<1>1. ToolInv => TypeOK
  BY DEF ToolInv
<1>2. QED
  BY <1>1, ToolSafe, PTL

\* The main loop and the timer interrupt never print at once, and the lock of
\* uart_module.c is up exactly while one of them prints.
THEOREM OneAtThePrinter == Spec => []OnePrinter
<1>1. ToolInv => OnePrinter
  BY DEF ToolInv
<1>2. QED
  BY <1>1, ToolSafe, PTL


------------------------------------------------------------------------------
(* An operator who waits for each answer                                    *)

Asked     == inbox # NoLine /\ inbox.name # "unknown"
MenuDue   == text = "menu" /\ ~(main = "printing" /\ tx = Nothing)
ReportDue ==
    m_cmd_current /\ main # "clear" /\ ~(main = "printing" /\ text = "report" /\ tx = Nothing)

\* At most one thing the operator asked for is on its way, and he has been told that he
\* waits for it.
OneAtATime ==
    /\ Asked => command = NoLine /\ queue = <<>> /\ serving = Nothing /\ ~MenuDue /\ ~ReportDue
    /\ command # NoLine => queue = <<>> /\ serving = Nothing
    /\ queue # <<>> => serving = Nothing /\ Len(queue) = 1
    /\ command # NoLine \/ queue # <<>> \/ serving # Nothing => ~m_cmd_current /\ ~MenuDue
    /\ MenuDue => ~ReportDue
    /\ ~awaited =>
          /\ ~Asked /\ command = NoLine /\ queue = <<>> /\ ~MenuDue /\ ~ReportDue
          /\ serving # Nothing => tick = "printing"

\* The callback registered is the one of the request, and what it carries is the value set.
Matched ==
    /\ queue # <<>> => m_cmd = Head(queue)
    /\ serving # Nothing => m_cmd = serving
    /\ carried # Nothing => carried = m_data_write[serving]
    /\ result = "success" => mc[serving] = m_data_write[serving]

\* The last report said to be a success is in force until the next value is set.
LastInForce ==
    /\ command = NoLine /\ queue = <<>> /\ (serving # Nothing => tick # "out")
    /\ reports # <<>> /\ reports[Len(reports)].result = "success"
    => LET f == reports[Len(reports)].field IN mc[f] = m_data_write[f]

WaitsInv == ToldField /\ (~hasty => OneAtATime /\ Matched /\ LastInForce)

\* The operator begins with nothing asked and nothing reported.
LEMMA InitWaits == Init => WaitsInv
<1> SUFFICES ASSUME Init
             PROVE  WaitsInv
  OBVIOUS
<1>1. ToldField
  BY DEF Init, ToldField
<1>2. OneAtATime
  BY DEF Init, OneAtATime, Asked, MenuDue, ReportDue, Nothing
<1>3. Matched /\ LastInForce
  BY DEF Init, Matched, LastInForce, Nothing
<1>4. QED
  BY <1>1, <1>2, <1>3 DEF WaitsInv

\* Only a typed line makes an operator hasty.
LEMMA HastyStays == [Next]_vars /\ ~hasty' => ~hasty
  BY DEF Next, Main, Tick, Type, TxEnd, Poll, PrintWait, Fault, PrintStart, PrintEnd, Flush,
         ClearReport, Get,
         SetValue, Register, Push, TickTake, TickStart, TickEnd, TickCallback, TickPrintStart,
         TickPrintEnd, operator, vars

\* A line is typed, or the end of a transmission reaches the operator.
LEMMA OperatorOneAtATime ==
    ASSUME ToolInv, OneAtATime, ~hasty, ~hasty', Type \/ TxEnd
    PROVE  OneAtATime'
<1>0. MainTypes /\ ConsoleStep /\ OnePrinter /\ Transfer /\ Stages /\ UartTypes
  BY TypeParts DEF ToolInv
<1>1. CASE Type
  <2>1. ~awaited /\ tick = "out" /\ UNCHANGED <<console, m_cmd_current, queue, request, tick, tx>>
    BY <1>1 DEF Type, uart
  <2>2. /\ command = NoLine /\ queue = <<>> /\ serving = Nothing /\ ~MenuDue /\ ~ReportDue
    BY <2>1 DEF OneAtATime
  <2>3. ~MenuDue' /\ ~ReportDue'
    BY <2>1, <2>2 DEF MenuDue, ReportDue, console
  <2>4. Asked' => awaited'
    BY <1>1 DEF Type, Asked
  <2>5. QED
    BY <2>1, <2>2, <2>3, <2>4 DEF OneAtATime, console, request
<1>2. CASE TxEnd
  <2>1. /\ tx # Nothing /\ tx' = Nothing
        /\ awaited' = (awaited /\ tx \notin {"menu", "report"})
        /\ UNCHANGED <<inbox, console, m_cmd_current, queue, request, tick>>
    BY <1>2 DEF TxEnd
  <2>2. Asked' = Asked /\ (MenuDue' => MenuDue) /\ (ReportDue' => ReportDue)
    BY <2>1 DEF Asked, MenuDue, ReportDue, console
  <2>3. CASE tx = "banner"
    BY <2>1, <2>2, <2>3 DEF OneAtATime, console, request
  <2>4. CASE tx = "menu"
    <3>1. main = "printing" /\ text = "menu" /\ MenuDue
      BY <1>0, <2>1, <2>4 DEF Transfer, OnePrinter, MenuDue
    <3>2. ~Asked /\ command = NoLine /\ queue = <<>> /\ serving = Nothing /\ ~ReportDue
      BY <3>1 DEF OneAtATime
    <3>3. ~MenuDue'
      BY <2>1, <3>1 DEF MenuDue, console
    <3>4. QED
      BY <2>1, <2>2, <3>2, <3>3 DEF OneAtATime, console, request
  <2>5. CASE tx = "report" /\ tick = "printing"
    <3>1. serving # Nothing
      BY <1>0, <2>5 DEF Stages
    <3>2. ~Asked /\ command = NoLine /\ queue = <<>> /\ ~MenuDue /\ ~m_cmd_current
      BY <3>1 DEF OneAtATime
    <3>3. QED
      BY <2>1, <2>2, <2>5, <3>2 DEF OneAtATime, ReportDue, console, request
  <2>6. CASE tx = "report" /\ tick # "printing"
    <3>1. main = "printing" /\ text = "report" /\ m_cmd_current
      BY <1>0, <2>1, <2>6 DEF Transfer, OnePrinter, ConsoleStep
    <3>2. ReportDue
      BY <2>1, <3>1 DEF ReportDue
    <3>3. ~Asked /\ command = NoLine /\ queue = <<>> /\ serving = Nothing /\ ~MenuDue
      BY <3>1, <3>2 DEF OneAtATime
    <3>4. ~ReportDue'
      BY <2>1, <3>1 DEF ReportDue, console
    <3>5. QED
      BY <2>1, <2>2, <3>3, <3>4 DEF OneAtATime, console, request
  <2>7. QED
    BY <1>0, <2>1, <2>3, <2>4, <2>5, <2>6 DEF UartTypes
<1>3. QED
  BY <1>1, <1>2

\* What the main loop does for one thing asked comes before the next is typed.
LEMMA MainOneAtATime ==
    ASSUME ToolInv, OneAtATime, ~hasty, Main
    PROVE  OneAtATime'
<1>0. MainTypes /\ ConsoleStep /\ OnePrinter /\ Transfer /\ Stages /\ UartTypes /\ QueueTypes
  BY TypeParts DEF ToolInv
<1> USE DEF MainAt, operator
<1>1. CASE Poll \/ PrintWait \/ PrintStart \/ Flush
  <2>1. /\ UNCHANGED <<inbox, awaited, command, m_cmd_current, queue, serving, tick>>
        /\ (MenuDue' <=> MenuDue) /\ (ReportDue' <=> ReportDue)
    <3>1. CASE Poll
      BY <1>0, <3>1 DEF Poll, MenuDue, ReportDue, request, uart, ConsoleStep, Nothing
    <3>2. CASE PrintStart
      <4>1. text # Nothing
        BY <1>0, <3>2 DEF PrintStart, ConsoleStep
      <4>2. QED
        BY <3>2, <4>1 DEF PrintStart, StartTx, MenuDue, ReportDue, request
    <3>3. CASE Flush
      BY <1>0, <3>3 DEF Flush, MenuDue, ReportDue, request, uart, ConsoleStep, Nothing
    <3>4. CASE PrintWait
      BY <1>0, <3>4 DEF PrintWait, MenuDue, ReportDue, request, uart
    <3>5. QED
      BY <1>1, <3>1, <3>2, <3>3, <3>4
  <2>2. QED
    BY <2>1 DEF OneAtATime, Asked
<1>2. CASE PrintEnd
  <2>1. /\ UNCHANGED <<inbox, awaited, command, m_cmd_current, queue, serving, tick, tx>>
        /\ main = "printing" /\ tx = Nothing /\ main' = AfterPrint[text] /\ text' = Nothing
    BY <1>0, <1>2 DEF PrintEnd, EndTx, Transfer, request
  <2>2. ~MenuDue' /\ (ReportDue' => ReportDue)
    <3>1. CASE text = "report"
      BY <2>1, <3>1 DEF MenuDue, ReportDue, AfterPrint, Nothing
    <3>2. CASE text # "report"
      BY <2>1, <3>2 DEF MenuDue, ReportDue, AfterPrint, Nothing
    <3>3. QED
      BY <3>1, <3>2
  <2>3. QED
    BY <2>1, <2>2 DEF OneAtATime, Asked
<1>3. CASE ClearReport
  <2>1. /\ UNCHANGED <<inbox, awaited, command, queue, serving, tick, text>> /\ text = Nothing
        /\ m_cmd_current' = FALSE
    BY <1>0, <1>3 DEF ClearReport, ConsoleStep, request
  <2>2. ~MenuDue' /\ ~ReportDue'
    BY <2>1 DEF MenuDue, ReportDue, Nothing
  <2>3. QED
    BY <2>1, <2>2 DEF OneAtATime, Asked
<1>4. CASE Get
  <2>1. /\ UNCHANGED <<awaited, m_cmd_current, queue, serving, tick, tx>> /\ main = "get"
        /\ text = Nothing /\ command = NoLine
    BY <1>0, <1>4 DEF Get, ConsoleStep, request, uart
  <2>2. ReportDue' <=> ReportDue
    <3>1. main' \notin {"clear", "printing"}
      BY <1>4 DEF Get
    <3>2. QED
      BY <2>1, <3>1 DEF ReportDue
  <2>3. CASE inbox = NoLine
    <3>1. UNCHANGED <<inbox, command, text>> /\ main' = "poll"
      BY <1>4, <2>3 DEF Get
    <3>2. QED
      BY <2>1, <2>2, <3>1 DEF OneAtATime, Asked, MenuDue, Nothing
  <2>4. CASE inbox # NoLine /\ inbox.name = "unknown"
    <3>1. UNCHANGED <<command, text>> /\ inbox' = NoLine
      <4>1. \A line \in Parsed : ~IsWrite(line) /\ line.name \notin Menus
        BY <2>4, ParsedLine, FieldNames DEF IsWrite, Menus
      <4>2. QED
        BY <1>4, <2>4, <4>1 DEF Get
    <3>2. QED
      BY <2>1, <2>2, <2>4, <3>1 DEF OneAtATime, Asked, MenuDue, Nothing
  <2>5. CASE inbox # NoLine /\ inbox.name # "unknown"
    <3>1. Asked
      BY <2>5 DEF Asked
    <3>2. awaited /\ queue = <<>> /\ serving = Nothing /\ ~MenuDue /\ ~ReportDue
      BY <3>1 DEF OneAtATime
    <3>3. ~m_cmd_current
      BY <2>1, <3>2 DEF ReportDue
    <3>4. inbox' = NoLine /\ ~Asked'
      BY <1>4, <2>5 DEF Get, Asked
    <3>5. \/ UNCHANGED text
          \/ UNCHANGED command
      BY <1>4, <2>5 DEF Get
    <3>6. QED
      BY <2>1, <2>2, <3>2, <3>3, <3>4, <3>5 DEF OneAtATime, MenuDue, Nothing
  <2>6. QED
    BY <2>3, <2>4, <2>5
<1>5. CASE SetValue \/ Register
  <2>1. /\ UNCHANGED <<inbox, awaited, command, m_cmd_current, queue, serving, tick, text, tx>>
        /\ main \notin {"clear", "printing"} /\ main' \notin {"clear", "printing"}
    BY <1>5 DEF SetValue, Register, request, uart
  <2>2. QED
    BY <2>1 DEF OneAtATime, Asked, MenuDue, ReportDue
<1>6. CASE Push
  <2>1. /\ UNCHANGED <<inbox, awaited, m_cmd_current, serving, tick, text, tx>>
        /\ main = "push" /\ main' = "poll" /\ command # NoLine /\ command' = NoLine
    BY <1>0, <1>6 DEF Push, request, uart, ConsoleStep
  <2>2. /\ queue = <<>> /\ serving = Nothing /\ ~Asked /\ ~m_cmd_current /\ ~MenuDue /\ awaited
    BY <2>1 DEF OneAtATime
  <2>3. Len(queue') = 1
    <3>1. Len(queue) = 0 /\ command.name \in Field
      BY <2>1, <2>2, Handled, EmptySeq
    <3>2. QED
      BY <1>0, <1>6, <3>1, FieldNames, AppendProperties DEF Push, QueueTypes
  <2>4. ~Asked' /\ ~MenuDue' /\ ~ReportDue'
    BY <2>1, <2>2 DEF Asked, MenuDue, ReportDue
  <2>5. QED
    BY <2>1, <2>2, <2>3, <2>4 DEF OneAtATime
<1>7. CASE Fault
  <2>1. /\ UNCHANGED <<awaited, command, m_cmd_current, queue, serving, tick, text, tx>>
        /\ main = "get" /\ main' = "fault" /\ inbox' = NoLine
    BY <1>7 DEF Fault, request, uart
  <2>2. ~Asked' /\ (MenuDue' <=> MenuDue) /\ (ReportDue' <=> ReportDue)
    BY <2>1 DEF Asked, MenuDue, ReportDue
  <2>3. QED
    BY <2>1, <2>2 DEF OneAtATime
<1>8. QED
  BY <1>1, <1>2, <1>3, <1>4, <1>5, <1>6, <1>7 DEF Main

\* The timer interrupt takes the one request there is to its callback.
LEMMA TickOneAtATime ==
    ASSUME ToolInv, OneAtATime, ~hasty, Tick
    PROVE  OneAtATime'
<1>0. MainTypes /\ ConsoleStep /\ OnePrinter /\ Transfer /\ Stages /\ UartTypes /\ QueueTypes
  BY TypeParts DEF ToolInv
<1> USE DEF operator, console
<1>1. CASE TickTake
  <2>1. /\ UNCHANGED <<inbox, awaited, command, m_cmd_current, main, text, tx, tick>>
        /\ queue # <<>> /\ queue' = Tail(queue)
    BY <1>1 DEF TickTake, uart
  <2>2. command = NoLine /\ ~Asked /\ ~m_cmd_current /\ ~MenuDue /\ awaited /\ Len(queue) = 1
    BY <2>1 DEF OneAtATime
  <2>3. queue' = <<>>
    BY <1>0, <2>1, <2>2, HeadTailProperties, EmptySeq DEF QueueTypes
  <2>4. QED
    BY <2>1, <2>2, <2>3 DEF OneAtATime, Asked, MenuDue, ReportDue
<1>2. CASE TickStart \/ TickEnd
  BY <1>2 DEF TickStart, TickEnd, uart, OneAtATime, Asked, MenuDue, ReportDue
<1>3. CASE TickCallback
  <2>1. /\ UNCHANGED <<inbox, awaited, command, main, text, tx, queue>> /\ tick = "out"
        /\ serving # Nothing
        /\ \/ serving' = Nothing /\ tick' = "out"
           \/ UNCHANGED <<serving, m_cmd_current>>
    BY <1>0, <1>3 DEF TickCallback, Served, Stages, uart, request
  <2>2. /\ command = NoLine /\ queue = <<>> /\ ~Asked /\ ~m_cmd_current /\ ~MenuDue /\ awaited
    BY <2>1 DEF OneAtATime
  <2>3. QED
    BY <2>1, <2>2 DEF OneAtATime, Asked, MenuDue, ReportDue
<1>4. CASE TickPrintStart
  <2>1. /\ UNCHANGED <<inbox, awaited, command, main, text, queue, serving, m_cmd_current>>
        /\ main # "printing" /\ serving # Nothing /\ tick' = "printing" /\ tick = "print"
    BY <1>0, <1>4 DEF TickPrintStart, StartTx, OnePrinter, Stages, request
  <2>2. QED
    BY <2>1 DEF OneAtATime, Asked, MenuDue, ReportDue
<1>5. CASE TickPrintEnd
  <2>1. /\ UNCHANGED <<inbox, awaited, command, main, text, queue, m_cmd_current, tx>>
        /\ serving # Nothing /\ serving' = Nothing
    BY <1>0, <1>5 DEF TickPrintEnd, EndTx, Served, Stages
  <2>2. QED
    BY <2>1 DEF OneAtATime, Asked, MenuDue, ReportDue
<1>6. QED
  BY <1>1, <1>2, <1>3, <1>4, <1>5 DEF Tick


\* With one thing at a time the callback registered is that of the request performed, and
\* the value it carries is the one set.
LEMMA MatchedStep ==
    ASSUME ToolInv, OneAtATime, Matched, ~hasty, ~hasty', [Next]_vars
    PROVE  Matched'
<1>0. ConsoleStep /\ Stages /\ QueueTypes /\ ConfigTypes /\ RequestTypes
  BY TypeParts DEF ToolInv
<1>1. CASE Type \/ TxEnd \/ TickPrintStart \/ UNCHANGED vars
  BY <1>1 DEF Type, TxEnd, TickPrintStart, vars, config, request, Matched
<1>2. CASE Poll \/ PrintWait \/ Fault \/ PrintStart \/ PrintEnd \/ Flush \/ ClearReport \/ Get
  BY <1>2 DEF Poll, PrintWait, Fault, PrintStart, PrintEnd, Flush, ClearReport, Get, config,
              request, Matched
<1>3. CASE SetValue \/ Register
  <2>1. command # NoLine /\ UNCHANGED <<queue, serving, carried, result>>
    BY <1>0, <1>3 DEF SetValue, Register, MainAt, ConsoleStep, request
  <2>2. queue = <<>> /\ serving = Nothing
    BY <2>1 DEF OneAtATime
  <2>3. carried = Nothing /\ result = Nothing
    BY <1>0, <2>2 DEF Stages
  <2>4. QED
    BY <2>1, <2>2, <2>3 DEF Matched, Nothing
<1>4. CASE Push
  <2>1. main = "push" /\ command # NoLine /\ m_cmd = command.name
    BY <1>0, <1>4 DEF Push, MainAt, ConsoleStep
  <2>2. queue = <<>> /\ serving = Nothing /\ command.name \in Field
    BY <2>1, Handled DEF OneAtATime
  <2>3. queue' = Append(queue, command.name) /\ Head(queue') = command.name
    BY <1>0, <1>4, <2>2, FieldNames, EmptySeq DEF Push, QueueTypes
  <2>4. QED
    BY <1>4, <2>1, <2>3 DEF Push, Matched, config, request
<1>5. CASE TickTake
  <2>1. Len(queue) = 1 /\ queue # <<>> /\ queue' = Tail(queue) /\ serving' = Head(queue)
    BY <1>5 DEF TickTake, OneAtATime
  <2>2. queue' = <<>>
    BY <1>0, <2>1, HeadTailProperties, EmptySeq DEF QueueTypes
  <2>3. carried' = Nothing /\ result' = Nothing
    BY <1>0, <1>5 DEF TickTake, Stages
  <2>4. m_cmd' = m_cmd
    BY <1>5 DEF TickTake, config
  <2>5. QED
    BY <2>1, <2>2, <2>3, <2>4 DEF Matched, Nothing
<1>6. CASE TickStart
  <2>1. result = Nothing
    BY <1>0, <1>6 DEF TickStart, Stages
  <2>2. QED
    BY <1>6, <2>1 DEF TickStart, Matched, config, Nothing
<1>7. CASE TickEnd
  <2>1. carried # Nothing /\ carried = m_data_write[serving] /\ serving \in Field
    BY <1>0, <1>7 DEF TickEnd, Matched, Stages, RequestTypes
  <2>2. result' = "success" => mc'[serving] = carried
    BY <1>0, <1>7, <2>1 DEF TickEnd, RequestTypes
  <2>3. QED
    BY <1>7, <2>1, <2>2 DEF TickEnd, Matched, config
<1>8. CASE TickCallback
  BY <1>8 DEF TickCallback, Served, Matched, config, request, Nothing
<1>9. CASE TickPrintEnd
  BY <1>9 DEF TickPrintEnd, Served, Matched, config, Nothing
<1>10. QED
  BY <1>1, <1>2, <1>3, <1>4, <1>5, <1>6, <1>7, <1>8, <1>9 DEF Next, Main, Tick

\* What a callback adds to the reports.
LEMMA Reported ==
    ASSUME ToolInv, TickCallback
    PROVE  /\ reports' # <<>> /\ Len(reports) \in Nat /\ Len(reports') = Len(reports) + 1
           /\ reports'[Len(reports')] = [told |-> m_cmd, field |-> serving, result |-> result]
           /\ \A i \in 1 .. Len(reports) : reports'[i] = reports[i]
<1> DEFINE R == [told : Field \union {Nothing}, field : Field, result : {"success", "abort"}]
           r == [told |-> m_cmd, field |-> serving, result |-> result]
<1>1. reports \in Seq(R) /\ r \in R
  BY TypeParts DEF ToolInv, ReportTypes, ConfigTypes, RequestTypes, Stages, TickCallback
<1>2. reports' = Append(reports, r)
  BY DEF TickCallback
<1> HIDE DEF r
<1>3. /\ reports' # <<>> /\ Len(reports) \in Nat /\ Len(reports') = Len(reports) + 1
      /\ reports'[Len(reports')] = r
      /\ \A i \in 1 .. Len(reports) : reports'[i] = reports[i]
  BY <1>1, <1>2, AppendProperties, LenProperties
<1>4. QED
  BY <1>3 DEF r

\* The reports are numbered from 1.
LEMMA ReportDomain == ToolInv => DOMAIN reports = 1 .. Len(reports) /\ Len(reports) \in Nat
  BY TypeParts, LenProperties DEF ToolInv, ReportTypes

\* A callback tells of the parameter whose write ended.
LEMMA ToldFieldStep ==
    ASSUME ToolInv, ToolInv', WaitsInv, [Next]_vars
    PROVE  ToldField'
<1> SUFFICES ASSUME ~hasty'
             PROVE  \A i \in DOMAIN reports' : reports'[i].told = reports'[i].field
  BY DEF ToldField
<1>1. ~hasty /\ Matched /\ \A i \in DOMAIN reports : reports[i].told = reports[i].field
  BY HastyStays DEF WaitsInv, ToldField
<1>2. CASE TickCallback
  <2>1. m_cmd = serving
    BY <1>1, <1>2 DEF ToolInv, Stages, Matched, TickCallback
  <2>2. DOMAIN reports = 1 .. Len(reports) /\ DOMAIN reports' = 1 .. Len(reports')
    BY ReportDomain, TypeParts, LenProperties DEF ToolInv, ReportTypes
  <2>3. reports'[Len(reports')].told = reports'[Len(reports')].field
    BY <1>2, <2>1, Reported
  <2>4. QED
    BY <1>1, <1>2, <2>2, <2>3, Reported
<1>3. CASE ~TickCallback
  <2>1. UNCHANGED reports
    BY <1>3 DEF Next, Main, Tick, Type, TxEnd, Poll, PrintWait, Fault, PrintStart, PrintEnd,
                Flush, ClearReport,
       Get, SetValue, Register, Push, TickTake, TickStart, TickEnd, TickPrintStart, TickPrintEnd,
       vars
  <2>2. QED
    BY <1>1, <2>1
<1>4. QED
  BY <1>2, <1>3

\* What was reported a success stays in force until the next command is handled.
LEMMA LastInForceStep ==
    ASSUME ToolInv, OneAtATime, Matched, LastInForce, ~hasty, ~hasty', [Next]_vars
    PROVE  LastInForce'
<1>0. ConsoleStep /\ Stages /\ QueueTypes /\ RequestTypes
  BY TypeParts DEF ToolInv
<1>1. CASE Type \/ TxEnd \/ UNCHANGED vars
  BY <1>1 DEF Type, TxEnd, console, config, request, vars, LastInForce
<1>2. CASE Poll \/ PrintWait \/ Fault \/ PrintStart \/ PrintEnd \/ Flush \/ ClearReport
  BY <1>2 DEF Poll, PrintWait, Fault, PrintStart, PrintEnd, Flush, ClearReport, config, request,
              LastInForce
<1>3. CASE Get
  BY <1>0, <1>3 DEF Get, MainAt, ConsoleStep, config, request, LastInForce
<1>4. CASE SetValue \/ Register
  <2>1. command # NoLine /\ command' = command
    BY <1>0, <1>4 DEF SetValue, Register, MainAt, ConsoleStep
  <2>2. QED
    BY <2>1 DEF LastInForce
<1>5. CASE Push
  <2>1. main = "push" /\ command # NoLine
    BY <1>0, <1>5 DEF Push, MainAt, ConsoleStep
  <2>2. queue = <<>> /\ command.name \in Field
    BY <2>1, Handled DEF OneAtATime
  <2>3. queue' # <<>>
    BY <1>0, <1>5, <2>2, FieldNames, EmptySeq, AppendProperties DEF Push, QueueTypes
  <2>4. QED
    BY <2>3 DEF LastInForce
<1>6. CASE TickTake
  <2>1. serving' \in Field /\ tick' = "out"
    BY <1>0, <1>6, HeadTailProperties DEF TickTake, QueueTypes
  <2>2. QED
    BY <2>1, FieldNames DEF LastInForce
<1>7. CASE TickStart \/ TickEnd
  <2>1. serving' # Nothing /\ tick' = "out"
    BY <1>0, <1>7 DEF TickStart, TickEnd, Stages
  <2>2. QED
    BY <2>1 DEF LastInForce
<1>8. CASE TickCallback
  <2>1. reports'[Len(reports')] = [told |-> m_cmd, field |-> serving, result |-> result]
    BY <1>8, Reported
  <2>2. result = "success" => mc[serving] = m_data_write[serving]
    BY DEF Matched
  <2>3. UNCHANGED <<mc, m_data_write>>
    BY <1>8 DEF TickCallback, config
  <2>4. QED
    BY <2>1, <2>2, <2>3 DEF LastInForce
<1>9. CASE TickPrintStart \/ TickPrintEnd
  <2>1. tick # "out" /\ UNCHANGED <<command, queue, reports, mc, m_data_write>>
    BY <1>9 DEF TickPrintStart, TickPrintEnd, console, config
  <2>2. QED
    BY <2>1 DEF LastInForce
<1>10. QED
  BY <1>1, <1>2, <1>3, <1>4, <1>5, <1>6, <1>7, <1>8, <1>9 DEF Next, Main, Tick

\* The invariant is inductive.
LEMMA WaitsStep == ToolInv /\ ToolInv' /\ WaitsInv /\ [Next]_vars => WaitsInv'
<1> SUFFICES ASSUME ToolInv, ToolInv', WaitsInv, [Next]_vars
             PROVE  WaitsInv'
  OBVIOUS
<1>1. ToldField'
  BY ToldFieldStep
<1>2. ASSUME ~hasty'
      PROVE  OneAtATime' /\ Matched' /\ LastInForce'
  <2>1. ~hasty /\ OneAtATime /\ Matched /\ LastInForce
    BY <1>2, HastyStays DEF WaitsInv
  <2>2. OneAtATime'
    <3>1. CASE UNCHANGED vars
      BY <2>1, <3>1 DEF vars, operator, console, request, uart, OneAtATime, Asked, MenuDue,
                        ReportDue
    <3>2. QED
      BY <1>2, <2>1, <3>1, OperatorOneAtATime, MainOneAtATime, TickOneAtATime DEF Next
  <2>3. QED
    BY <1>2, <2>1, <2>2, MatchedStep, LastInForceStep
<1>3. QED
  BY <1>1, <1>2 DEF WaitsInv

\* For an operator who waits for each answer, whatever he types: a report names the
\* parameter that was written, though the callbacks of sm_ev_config_co.c keep one pointer to
\* what is written; and a value reported as written is in force.
THEOREM ReportsAreTrue == Spec => []ReportIsTrue
<1>1. ToolInv /\ WaitsInv => ReportIsTrue
  <2> SUFFICES ASSUME ToolInv, WaitsInv, ~hasty, ~awaited
               PROVE  SuccessIsInForce
    BY DEF ReportIsTrue, SuccessIsInForce, WaitsInv
  <2>1. command = NoLine /\ queue = <<>> /\ (serving # Nothing => tick = "printing")
    BY DEF WaitsInv, OneAtATime
  <2>2. LastInForce
    BY DEF WaitsInv
  <2>3. QED
    BY <2>1, <2>2 DEF LastInForce, SuccessIsInForce
<1>2. QED
  BY <1>1, ToolSafe, InitWaits, WaitsStep, PTL DEF Spec


------------------------------------------------------------------------------
(* An operator who does not wait                                            *)

\* A value set is on its way as long as a request of its parameter has not left.
Unsent(f) ==
    \/ main \in {"register", "push"} /\ command.name = f
    \/ \E i \in 1 .. Len(queue) : queue[i] = f
    \/ serving = f /\ carried = Nothing

\* As long as no write was aborted: what the motor controller holds, or is about to hold,
\* is the value set last, or a request still to leave will carry it, unless a full queue
\* refused the last request.
WinsInv ==
    (\A i \in 1 .. Len(reports) : reports[i].result = "success") /\ result # "abort" =>
        \A f \in Field \ refused :
            \/ Unsent(f)
            \/ IF serving = f /\ result = Nothing THEN carried = m_data_write[f]
                                                  ELSE mc[f] = m_data_write[f]

\* Nothing is asked yet.
LEMMA InitWins == Init => WinsInv
<1> SUFFICES ASSUME Init
             PROVE  WinsInv
  OBVIOUS
<1>1. ASSUME NEW f \in Field
      PROVE  serving # f /\ mc[f] = m_data_write[f]
  BY <1>1, FieldNames DEF Init
<1>2. QED
  BY <1>1 DEF WinsInv

\* What the motor controller holds of a parameter, or is about to hold.
Bound(f) == IF serving = f /\ result = Nothing THEN carried = m_data_write[f]
                                               ELSE mc[f] = m_data_write[f]

\* Nothing but a success has been reported, nor is about to be.
AllWell == (\A i \in 1 .. Len(reports) : reports[i].result = "success") /\ result # "abort"

\* An abort is not forgotten.
LEMMA WellBefore == ToolInv /\ [Next]_vars /\ AllWell' => AllWell
<1> SUFFICES ASSUME ToolInv, [Next]_vars, AllWell'
             PROVE  AllWell
  OBVIOUS
<1>1. CASE TickCallback
  BY <1>1, Reported DEF AllWell
<1>2. CASE TickPrintEnd
  <2>1. /\ UNCHANGED reports /\ Len(reports) \in Nat /\ Len(reports) > 0
        /\ reports[Len(reports)].result = result
    BY <1>2, EmptySeq, TypeParts, LenProperties DEF TickPrintEnd, ToolInv, Stages, ReportTypes
  <2>2. result = "success"
    BY <2>1 DEF AllWell
  <2>3. QED
    BY <2>1, <2>2 DEF AllWell
<1>3. CASE TickEnd
  BY <1>3 DEF TickEnd, AllWell, Nothing
<1>4. CASE ~TickCallback /\ ~TickPrintEnd /\ ~TickEnd
  <2>1. UNCHANGED <<reports, result>>
    BY <1>4 DEF Next, Main, Tick, Type, TxEnd, Poll, PrintWait, Fault, PrintStart, PrintEnd,
                Flush, ClearReport,
       Get, SetValue, Register, Push, TickTake, TickStart, TickPrintStart, request, vars
  <2>2. QED
    BY <2>1 DEF AllWell
<1>5. QED
  BY <1>1, <1>2, <1>3, <1>4

\* A value set leaves with a request, and the last to leave carries the value set last.
LEMMA BoundStep ==
    ASSUME ToolInv, [Next]_vars, AllWell, AllWell',
           NEW f \in Field, f \notin refused', f \in refused \/ Unsent(f) \/ Bound(f)
    PROVE  Unsent(f)' \/ Bound(f)'
<1>0. /\ ConsoleStep /\ Stages /\ QueueTypes /\ ConfigTypes /\ RequestTypes
      /\ Len(queue) \in Nat /\ QueueLen \in Nat
  BY TypeParts, FieldNames, LenProperties DEF ToolInv, QueueTypes
<1>1. CASE Type \/ TxEnd \/ UNCHANGED vars
  BY <1>1 DEF Type, TxEnd, console, config, request, vars, Unsent, Bound
<1>2. CASE Poll \/ PrintWait \/ Fault \/ PrintStart \/ Flush \/ ClearReport \/ Get
  <2>1. main \notin {"register", "push"} /\ UNCHANGED <<queue, config, request, mc>>
    BY <1>2 DEF Poll, PrintWait, Fault, PrintStart, Flush, ClearReport, Get, MainAt
  <2>2. QED
    BY <2>1 DEF Unsent, Bound, config, request
<1>3. CASE PrintEnd
  <2>1. main \notin {"register", "push"} /\ UNCHANGED <<queue, config, request, mc>>
    BY <1>3 DEF PrintEnd, MainAt
  <2>2. QED
    BY <2>1 DEF Unsent, Bound, config, request
<1>4. CASE SetValue
  <2>1. CASE command.name = f
    BY <1>4, <2>1 DEF SetValue, Unsent
  <2>2. CASE command.name # f
    <3>1. m_data_write'[f] = m_data_write[f] /\ UNCHANGED <<refused, queue, request, mc>>
          /\ main = "value"
      BY <1>0, <1>4, <2>2 DEF SetValue, MainAt, ConfigTypes
    <3>2. QED
      BY <3>1 DEF Unsent, Bound, request
  <2>3. QED
    BY <2>1, <2>2
<1>5. CASE Register
  BY <1>5 DEF Register, MainAt, Unsent, Bound, request
<1>6. CASE Push
  <2>1. main = "push" /\ command.name \in Field /\ UNCHANGED <<m_data_write, request, mc>>
    BY <1>6, Handled DEF Push, MainAt
  <2>2. CASE Len(queue) < QueueLen
    <3>1. queue' = Append(queue, command.name) /\ refused' = refused \ {command.name}
      BY <1>6, <2>2 DEF Push
    <3>2. /\ Len(queue') = Len(queue) + 1 /\ queue'[Len(queue) + 1] = command.name
          /\ \A i \in 1 .. Len(queue) : queue'[i] = queue[i]
      BY <1>0, <2>1, <3>1, AppendProperties DEF QueueTypes
    <3>3. CASE command.name = f
      BY <1>0, <3>2, <3>3 DEF Unsent
    <3>4. CASE command.name # f
      BY <1>0, <2>1, <3>1, <3>2, <3>4 DEF Unsent, Bound, request
    <3>5. QED
      BY <3>3, <3>4
  <2>3. CASE ~(Len(queue) < QueueLen)
    <3>1. queue' = queue /\ refused' = refused \union {command.name} /\ main' = "poll"
      BY <1>6, <2>3 DEF Push
    <3>2. command.name # f
      BY <3>1
    <3>3. QED
      BY <2>1, <3>1, <3>2 DEF Unsent, Bound, request
  <2>4. QED
    BY <2>2, <2>3
<1>7. CASE TickTake
  <2>1. /\ queue # <<>> /\ queue' = Tail(queue) /\ serving = Nothing /\ serving' = Head(queue)
        /\ UNCHANGED <<main, command, config, carried, result, mc>>
    BY <1>7 DEF TickTake, console
  <2>2. /\ Len(queue') = Len(queue) - 1 /\ Len(queue) >= 1 /\ serving' = queue[1]
        /\ \A i \in 1 .. Len(queue') : queue'[i] = queue[i + 1]
    BY <1>0, <2>1, HeadTailProperties, EmptySeq DEF QueueTypes
  <2>3. carried = Nothing /\ result = Nothing /\ serving # f
    BY <1>0, <2>1, FieldNames DEF Stages
  <2>4. CASE serving' = f
    BY <2>1, <2>3, <2>4 DEF Unsent
  <2>5. CASE serving' # f
    <3>1. ASSUME NEW i \in 1 .. Len(queue), queue[i] = f
          PROVE  i - 1 \in 1 .. Len(queue') /\ queue'[i - 1] = f
      BY <1>0, <2>2, <2>5, <3>1
    <3>2. QED
      BY <2>1, <2>3, <2>5, <3>1 DEF Unsent, Bound, config
  <2>6. QED
    BY <2>4, <2>5
<1>8. CASE TickStart
  <2>1. /\ carried' = m_data_write[serving] /\ carried = Nothing /\ result = Nothing
        /\ UNCHANGED <<main, command, config, queue, serving, result, mc>>
    BY <1>0, <1>8 DEF TickStart, console, Stages
  <2>2. CASE serving = f
    BY <2>1, <2>2 DEF Bound, config
  <2>3. CASE serving # f
    BY <2>1, <2>3 DEF Unsent, Bound, config
  <2>4. QED
    BY <2>2, <2>3
<1>9. CASE TickEnd
  <2>1. /\ carried # Nothing /\ result = Nothing /\ serving \in Field
        /\ UNCHANGED <<main, command, config, queue, serving, carried>>
    BY <1>0, <1>9 DEF TickEnd, console, Stages, RequestTypes
  <2>2. result' = "success" /\ mc' = [mc EXCEPT ![serving] = carried]
    BY <1>9 DEF TickEnd, AllWell
  <2>3. CASE serving = f
    <3>1. mc'[f] = carried
      BY <1>0, <2>2, <2>3 DEF RequestTypes
    <3>2. QED
      BY <2>1, <2>2, <2>3, <3>1 DEF Unsent, Bound, config, Nothing
  <2>4. CASE serving # f
    <3>1. mc'[f] = mc[f]
      BY <1>0, <2>2, <2>4 DEF RequestTypes
    <3>2. QED
      BY <2>1, <2>4, <3>1 DEF Unsent, Bound, config
  <2>5. QED
    BY <2>3, <2>4
<1>10. CASE TickCallback \/ TickPrintStart \/ TickPrintEnd
  <2>1. /\ result # Nothing /\ carried # Nothing
        /\ UNCHANGED <<main, command, config, queue, mc>>
        /\ Served \/ UNCHANGED request
    BY <1>0, <1>10 DEF TickCallback, TickPrintStart, TickPrintEnd, console, Stages
  <2>2. CASE UNCHANGED request
    BY <2>1, <2>2 DEF Unsent, Bound, config, request
  <2>3. CASE Served
    BY <2>1, <2>3, FieldNames DEF Unsent, Bound, config, Served
  <2>4. QED
    BY <2>1, <2>2, <2>3
<1>11. QED
  BY <1>1, <1>2, <1>3, <1>4, <1>5, <1>6, <1>7, <1>8, <1>9, <1>10 DEF Next, Main, Tick

\* The invariant is inductive, whatever queue refuses.
LEMMA WinsStep == ToolInv /\ WinsInv /\ [Next]_vars => WinsInv'
<1> SUFFICES ASSUME ToolInv, WinsInv, [Next]_vars
             PROVE  WinsInv'
  OBVIOUS
<1>1. ASSUME AllWell', NEW f \in Field, f \notin refused'
      PROVE  Unsent(f)' \/ Bound(f)'
  <2>1. AllWell
    BY <1>1, WellBefore
  <2>2. f \in refused \/ Unsent(f) \/ Bound(f)
    BY <2>1 DEF WinsInv, AllWell, Bound
  <2>3. QED
    BY <1>1, <2>1, <2>2, BoundStep
<1>2. QED
  BY <1>1 DEF WinsInv, AllWell, Bound

\* However fast the operator types and whatever a full queue refuses (in silence:
\* sm_ev_config_co.c looks at no answer): when everything has been performed without an
\* abort, the motor controller holds the value typed last for each parameter whose last
\* request the queue took.
THEOREM LastTypedWins == Spec => []LastValueWins
<1>1. ToolInv /\ WinsInv => LastValueWins
  <2> SUFFICES ASSUME ToolInv, WinsInv, Idle,
                      \A i \in DOMAIN reports : reports[i].result = "success"
               PROVE  \A f \in Field \ refused : mc[f] = m_data_write[f]
    BY DEF LastValueWins
  <2>1. result = Nothing /\ AllWell
    BY ReportDomain DEF ToolInv, Stages, Idle, AllWell, Nothing
  <2>2. ASSUME NEW f \in Field, f \notin refused
        PROVE  mc[f] = m_data_write[f]
    <3>1. ~Unsent(f)
      BY FieldNames, EmptySeq DEF Idle, Unsent, ToolInv, ConsoleStep
    <3>2. Bound(f)
      BY <2>1, <2>2, <3>1 DEF WinsInv, AllWell, Bound
    <3>3. QED
      BY <3>2, FieldNames DEF Bound, Idle
  <2>3. QED
    BY <2>2
<1>2. QED
  BY <1>1, ToolSafe, InitWins, WinsStep, PTL DEF Spec
==============================================================================
