------------------------------- MODULE UartLine -------------------------------
(***************************************************************************)
(* uart_module.c: how the console receives a command line.  The receive    *)
(* interrupt stores the bytes one by one; a backslash and an n end a line. *)
(* The main loop takes the line with uart_module_get_data, which the       *)
(* interrupt may cut into at every statement.                              *)
(*                                                                         *)
(* The sender types lines of Text.  It is orderly as long as its lines fit *)
(* the buffer and it begins a line only when the device has taken the one  *)
(* before it: the console answers every line it knows.                     *)
(***************************************************************************)
EXTENDS Naturals, Sequences

CONSTANTS Size,         \* buff_size, 100 in the code
          Text          \* the lines typed, without their end

\* What get_data copies ends at the first zero byte.
Chars == {"x", "y", "\\", "n"}
Zero == "nul"

ASSUME LineAssumption ==
    /\ Size \in Nat /\ Size >= 3
    /\ Text \subseteq Seq(Chars)
    /\ \A t \in Text : \A i \in 1 .. Len(t) - 1 : ~(t[i] = "\\" /\ t[i + 1] = "n")

VARIABLES buff, buff_index, is_new_data,
          reader,       \* the next statement of uart_module_get_data
          data_recv,    \* what it has copied
          typing,       \* the bytes of the line still to come
          typed,        \* the line typed last
          orderly       \* has the sender been so from the beginning?

rxVars == <<buff, buff_index, is_new_data>>
senderVars == <<typing, typed, orderly>>
lineVars == <<rxVars, reader, data_recv, senderVars>>

\* uart_module_init; malloc leaves any bytes.
LineInit ==
    /\ buff = [i \in 0 .. Size - 1 |-> "x"] /\ buff_index = 0 /\ is_new_data = FALSE
    /\ reader = "test" /\ data_recv = <<>> /\ typing = <<>> /\ typed = <<>>
    /\ orderly = TRUE

LineIdle == typing = <<>> /\ reader = "test" /\ ~is_new_data

\* The sender begins another line.
BeginLine ==
    /\ typing = <<>>
    /\ \E t \in Text : /\ typing' = t \o <<"\\", "n">> /\ typed' = t
                       /\ orderly' = (orderly /\ LineIdle /\ Len(typing') < Size)
    /\ UNCHANGED <<rxVars, reader, data_recv>>

------------------------------------------------------------------------------
EndsLine(b) == b = "n" /\ buff_index > 0 /\ buff[buff_index - 1] = "\\"

\* mutant: the last byte of the buffer is used too
RoomAll == buff_index < Size

Room == buff_index < Size - 1

\* uart_module_recv_data_callback: the index stays on the n of a line's end, and a
\* full buffer starts again without the byte that did not fit.
Receive ==
    /\ typing # <<>> /\ typing' = Tail(typing)
    /\ LET b == Head(typing)
       IN \/ /\ Room /\ EndsLine(b)
             /\ buff' = [buff EXCEPT ![buff_index] = b, ![buff_index - 1] = Zero]
             /\ is_new_data' = TRUE
             /\ UNCHANGED buff_index
          \/ /\ Room /\ ~EndsLine(b)
             /\ buff' = [buff EXCEPT ![buff_index] = b]
             /\ buff_index' = buff_index + 1
             /\ UNCHANGED is_new_data
          \/ /\ ~Room
             /\ buff_index' = 0
             /\ UNCHANGED <<buff, is_new_data>>
    /\ UNCHANGED <<reader, data_recv, typed, orderly>>

------------------------------------------------------------------------------
\* mutant: the copy runs over the end of the line
CopiedPastEnd == [i \in 1 .. buff_index |-> buff[i - 1]]

\* strncpy(data_recv, buff, buff_index)
Copied ==
    LET n == CHOOSE n \in 0 .. buff_index :
                 /\ n < buff_index => buff[n] = Zero
                 /\ \A i \in 0 .. n - 1 : buff[i] # Zero
    IN [i \in 1 .. n |-> buff[i - 1]]

GetCopy ==
    /\ reader = "test" /\ is_new_data
    /\ data_recv' = Copied
    /\ reader' = "flag"
    /\ UNCHANGED <<rxVars, senderVars>>

\* mutant: the flag is left up
GetClearFlagForgotten ==
    /\ reader = "flag"
    /\ reader' = "index"
    /\ UNCHANGED <<rxVars, data_recv, senderVars>>

GetClearFlag ==
    /\ reader = "flag"
    /\ is_new_data' = FALSE
    /\ reader' = "index"
    /\ UNCHANGED <<buff, buff_index, data_recv, senderVars>>

\* mutant: the index is not put back
GetClearIndexForgotten ==
    /\ reader = "index"
    /\ reader' = "test"
    /\ UNCHANGED <<rxVars, data_recv, senderVars>>

\* data_recv[buff_index] = 0 on a zeroed buffer, then buff_index = 0
GetClearIndex ==
    /\ reader = "index"
    /\ buff_index' = 0
    /\ reader' = "test"
    /\ UNCHANGED <<buff, is_new_data, data_recv, senderVars>>

LineNext == BeginLine \/ Receive \/ GetCopy \/ GetClearFlag \/ GetClearIndex

LineSpec == LineInit /\ [][LineNext]_lineVars

\* A line begun is typed to its end, and the main loop keeps coming round.
LineFairSpec ==
    /\ LineSpec
    /\ WF_lineVars(Receive) /\ WF_lineVars(GetCopy \/ GetClearFlag \/ GetClearIndex)

------------------------------------------------------------------------------
\* Every variable holds a value of its type; whatever is typed, however fast, the
\* interrupt writes inside buff and the terminating zero of get_data falls inside the
\* caller's buffer of Size bytes.
LineTypeOK ==
    /\ buff \in [0 .. Size - 1 -> Chars \union {Zero}]
    /\ is_new_data \in BOOLEAN /\ reader \in {"test", "flag", "index"}
    /\ data_recv \in Seq(Chars) /\ typing \in Seq(Chars) /\ typed \in Seq(Chars)
    /\ orderly \in BOOLEAN
    /\ buff_index \in 0 .. Size - 1

\* An orderly sender has each line taken as it was typed.
TakenAsTyped == orderly /\ reader # "test" => data_recv = typed

\* An orderly sender is not kept waiting: each line is taken.
LineTaken == orderly /\ typing # <<>> ~> LineIdle \/ ~orderly
==============================================================================
