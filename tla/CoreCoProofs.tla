----------------------------- MODULE CoreCoProofs -----------------------------
(***************************************************************************)
(* CoreCo for every set of requests and every queue length: the client is  *)
(* never started over a running job, and until a *_now request or a reset  *)
(* the queue implements SdoLine.                                           *)
(***************************************************************************)
EXTENDS CoreCo, SequenceTheorems, TLAPS

\* A push leaves a sequence of at most QueueLen tickets (sm_core_co.c 118, sm_fifo.c 71).
LEMMA PushType ==
    ASSUME TypeOK, NEW r \in Request, Pushed(r)
    PROVE  queue' \in Seq(Request) /\ Len(queue') <= QueueLen
<1>1. Append(queue, r) \in Seq(Request) /\ Len(Append(queue, r)) = Len(queue) + 1
  BY DEF TypeOK
<1>2. Len(queue) \in Nat
  BY DEF TypeOK
<1>3. QED
  BY <1>1, <1>2, CoreAssumption DEF TypeOK, Pushed

\* What the client leaves behind after its part of a tick (CO_process).
LEMMA WorkedType ==
    ASSUME CoreInv, NEW c \in Worked, Recorded(c)
    PROVE  /\ c \in [running : BOOLEAN, job : Request \union {None},
                     status : {"idle", "busy"} \union Ends]
           /\ c.job = client.job
           /\ c.running => client.running /\ c.status \notin Ends
           /\ client.running /\ ~c.running => c.status \in Ends
           /\ ~client.running => c = client
           /\ outcome' \in [Request -> {None} \union Ends]
<1> DEFINE Clients == [running : BOOLEAN, job : Request \union {None},
                      status : {"idle", "busy"} \union Ends]
<1>t. /\ client \in Clients /\ outcome \in [Request -> {None} \union Ends]
      /\ client.running => client.job \in Request /\ client.status \notin Ends
  BY DEF CoreInv, TypeOK, TicketsHeld
<1>1. CASE ~client.running
  <2>1. c = client
    BY <1>1 DEF Worked
  <2>2. QED
    BY <1>t, <1>1, <2>1 DEF Recorded
<1>2. CASE client.running /\ c \in Running
  <2>1. c = client \/ c = [client EXCEPT !.status = "busy"]
    BY <1>2 DEF Running
  <2>2. c \in Clients /\ c.job = client.job /\ c.running /\ c.status \notin Ends
    BY <1>t, <1>2, <2>1 DEF Ends
  <2>3. QED
    BY <1>t, <1>2, <2>2 DEF Recorded
<1>3. CASE client.running /\ c \in Ended
  <2>1. PICK s \in Ends : c = [client EXCEPT !.running = FALSE, !.status = s]
    BY <1>3 DEF Ended
  <2>2. c \in Clients /\ c.job = client.job /\ ~c.running /\ c.status \in Ends
    BY <1>t, <2>1
  <2>3. outcome' \in [Request -> {None} \union Ends]
    BY <1>t, <1>3, <2>2 DEF Recorded
  <2>4. QED
    BY <1>3, <2>2, <2>3
<1>4. QED
  BY <1>1, <1>2, <1>3 DEF Worked

\* sm_co_create leaves an idle client and an empty queue.
LEMMA InitCore == Init => CoreInv
<1> SUFFICES ASSUME Init
             PROVE  CoreInv
  OBVIOUS
<1>1. /\ queue \in Seq(Request) /\ Len(queue) <= QueueLen
      /\ answers \in Seq((Request \union {None}) \X ({"idle", "busy"} \union Ends))
  BY CoreAssumption, EmptySeq DEF Init
<1>2. client \in [running : BOOLEAN, job : Request \union {None},
                  status : {"idle", "busy"} \union Ends]
  BY DEF Init
<1>3. TypeOK
  BY <1>1, <1>2 DEF Init, TypeOK
<1>4. TicketsHeld /\ StartsFree
  BY DEF Init, TicketsHeld, StartsFree
<1>5. QED
  BY <1>3, <1>4 DEF CoreInv

\* The callback's own request keeps the types (sm_core_co.c 437-442).
LEMMA CallbackType ==
    ASSUME TypeOK, Callback
    PROVE  /\ queue' \in Seq(Request) /\ Len(queue') <= QueueLen
           /\ sdo_now' \in Request \union {None}
           /\ offered' \subseteq Request
  BY PushType DEF Callback, TypeOK

\* The core invariant is inductive, whatever the callers do.
LEMMA CoreStep == CoreInv /\ [Next]_vars => CoreInv'
<1> SUFFICES ASSUME CoreInv, [Next]_vars
             PROVE  CoreInv'
  OBVIOUS
<1>t. TypeOK /\ TicketsHeld /\ StartsFree
  BY DEF CoreInv
<1>1. CASE Send
  <2>1. PICK r \in Request \ offered : Pushed(r) /\ offered' = offered \union {r}
    BY <1>1 DEF Send
  <2>2. TypeOK'
    BY <1>1, <1>t, <2>1, PushType DEF Send, TypeOK
  <2>3. TicketsHeld' /\ StartsFree'
    BY <1>1, <1>t DEF Send, TicketsHeld, StartsFree
  <2>4. QED
    BY <2>2, <2>3 DEF CoreInv
<1>2. CASE SendNow
  <2>1. TypeOK'
    BY <1>2, <1>t DEF SendNow, TypeOK
  <2>2. TicketsHeld' /\ StartsFree'
    BY <1>2, <1>t DEF SendNow, TicketsHeld, StartsFree
  <2>3. QED
    BY <2>1, <2>2 DEF CoreInv
<1>3. CASE Reset
  <2>1. client' = [client EXCEPT !.status = "idle"]
    BY <1>3 DEF Reset
  <2>2. TypeOK'
    BY <1>3, <1>t, <2>1 DEF Reset, TypeOK, lineVars
  <2>3. TicketsHeld' /\ StartsFree'
    BY <1>3, <1>t, <2>1 DEF Reset, TypeOK, TicketsHeld, StartsFree, lineVars, Ends
  <2>4. QED
    BY <2>2, <2>3 DEF CoreInv
<1>4. CASE Tick
  <2>1. PICK c \in Worked : TickWith(c) /\ UNCHANGED was_reset
    BY <1>4 DEF Tick
  <2>2. Recorded(c)
    BY <2>1 DEF TickWith
  <2>w. /\ c \in [running : BOOLEAN, job : Request \union {None},
                  status : {"idle", "busy"} \union Ends]
        /\ c.job = client.job
        /\ c.running => client.running /\ c.status \notin Ends
        /\ client.running /\ ~c.running => c.status \in Ends
        /\ ~client.running => c = client
        /\ outcome' \in [Request -> {None} \union Ends]
    BY <2>2, WorkedType
  <2>c. Current \in Request \union {None} /\ (sdo_process => Current \in Request)
    BY <1>t DEF TypeOK, TicketsHeld, Current
  <2>3. CASE SendRequest(c)
    <3>1. TypeOK'
      BY <1>t, <2>1, <2>3, <2>w, <2>c DEF SendRequest, TypeOK, lineVars
    <3>2. TicketsHeld' /\ StartsFree'
      BY <1>t, <2>3, <2>c DEF SendRequest, TicketsHeld, StartsFree, lineVars, Ends
    <3>3. QED
      BY <3>1, <3>2 DEF CoreInv
  <2>4. CASE WaitResult(c)
    <3>1. TypeOK'
      BY <1>t, <2>1, <2>4, <2>w DEF WaitResult, TypeOK, lineVars
    <3>2. TicketsHeld' /\ StartsFree'
      BY <1>t, <2>4, <2>w DEF WaitResult, TypeOK, TicketsHeld, StartsFree, lineVars
    <3>3. QED
      BY <3>1, <3>2 DEF CoreInv
  <2>5. CASE EndRequest(c)
    <3>1. ~client.running /\ c = client
      BY <1>t, <2>5, <2>w DEF EndRequest, StartsFree
    <3>2. client' = [client EXCEPT !.status = "idle"] /\ ~client'.running
      BY <1>t, <2>5, <3>1 DEF EndRequest, TypeOK
    <3>3. answers' \in Seq((Request \union {None}) \X ({"idle", "busy"} \union Ends))
      <4>1. <<Current, c.status>> \in (Request \union {None}) \X ({"idle", "busy"} \union Ends)
        BY <2>c, <2>w
      <4>2. QED
        BY <1>t, <2>5, <4>1 DEF EndRequest, TypeOK
    <3>4. TypeOK'
      <4>1. Callback
        BY <2>5 DEF EndRequest
      <4>2. client' \in [running : BOOLEAN, job : Request \union {None},
                         status : {"idle", "busy"} \union Ends]
        BY <1>t, <3>2 DEF TypeOK
      <4>3. QED
        BY <1>t, <2>1, <2>5, <2>w, <3>3, <4>1, <4>2, CallbackType DEF EndRequest, TypeOK
    <3>5. TicketsHeld' /\ StartsFree'
      BY <1>t, <2>5, <3>2 DEF EndRequest, TicketsHeld, StartsFree
    <3>6. QED
      BY <3>4, <3>5 DEF CoreInv
  <2>6. CASE TakeRequest(c)
    <3>1. ~client.running /\ c = client
      BY <1>t, <2>6, <2>w DEF TakeRequest, StartsFree
    <3>2. /\ queue' \in Seq(Request) /\ Len(queue') <= QueueLen
          /\ sub_obj' \in Request \union {None} /\ (~is_sdo_now => sub_obj' \in Request)
      <4>1. CASE is_sdo_now
        BY <1>t, <2>6, <4>1 DEF TakeRequest, TypeOK
      <4>2. CASE ~is_sdo_now
        <5>1. queue # <<>> /\ sub_obj' = Head(queue) /\ queue' = Tail(queue)
          BY <2>6, <4>2 DEF TakeRequest
        <5>2. Head(queue) \in Request /\ Tail(queue) \in Seq(Request)
              /\ Len(Tail(queue)) = Len(queue) - 1
          BY <1>t, <5>1, HeadTailProperties DEF TypeOK
        <5>3. Len(queue) \in Nat /\ Len(queue) <= QueueLen
          BY <1>t DEF TypeOK
        <5>4. QED
          BY <5>1, <5>2, <5>3, CoreAssumption
      <4>3. QED
        BY <4>1, <4>2
    <3>3. TypeOK'
      BY <1>t, <2>1, <2>6, <2>w, <3>1, <3>2 DEF TakeRequest, TypeOK
    <3>4. TicketsHeld' /\ StartsFree'
      BY <1>t, <2>6, <3>1, <3>2 DEF TakeRequest, TicketsHeld, StartsFree
    <3>5. QED
      BY <3>3, <3>4 DEF CoreInv
  <2>7. CASE NothingToDo(c)
    <3>1. ~client.running /\ c = client
      BY <1>t, <2>7, <2>w DEF NothingToDo, StartsFree
    <3>2. TypeOK'
      BY <1>t, <2>1, <2>7, <2>w, <3>1 DEF NothingToDo, TypeOK, lineVars
    <3>3. TicketsHeld' /\ StartsFree'
      BY <1>t, <2>7, <3>1 DEF NothingToDo, TicketsHeld, StartsFree, lineVars
    <3>4. QED
      BY <3>2, <3>3 DEF CoreInv
  <2>8. QED
    BY <2>1, <2>3, <2>4, <2>5, <2>6, <2>7 DEF TickWith
<1>5. CASE UNCHANGED vars
  BY <1>5, <1>t DEF vars, lineVars, CoreInv, TypeOK, TicketsHeld, StartsFree
<1>6. QED
  BY <1>1, <1>2, <1>3, <1>4, <1>5 DEF Next

\* For every queue length and any callers: the fifo keeps its bound, and
\* sm_co_SDO_process starts a job only when the client has none, whatever is queued, made
\* at once or reset in between.
THEOREM CoreSafe == Spec => []CoreInv
  BY InitCore, CoreStep, PTL DEF Spec

------------------------------------------------------------------------------
(* The line of SdoLine is the served ticket in front of the fifo.           *)

\* One element in front of a sequence.
LEMMA InFront ==
    ASSUME NEW S, NEW x \in S, NEW q \in Seq(S)
    PROVE  /\ <<x>> \o q \in Seq(S) /\ <<x>> \o q # <<>>
           /\ Len(<<x>> \o q) = Len(q) + 1
           /\ Head(<<x>> \o q) = x
           /\ Tail(<<x>> \o q) = q
           /\ \A r \in S : Append(<<x>> \o q, r) = <<x>> \o Append(q, r)
<1>1. <<x>> \in Seq(S) /\ Len(<<x>>) = 1 /\ <<x>>[1] = x
  OBVIOUS
<1>2. /\ <<x>> \o q \in Seq(S)
      /\ Len(<<x>> \o q) = Len(q) + 1
      /\ \A i \in 1 .. Len(q) + 1 : (<<x>> \o q)[i] = IF i = 1 THEN x ELSE q[i - 1]
  <2>1. Len(q) \in Nat
    OBVIOUS
  <2>2. QED
    BY <1>1, <2>1, ConcatProperties
<1>3. <<x>> \o q # <<>>
  BY <1>2, EmptySeq, LenProperties
<1>4. Head(<<x>> \o q) = x
  BY <1>2
<1>5. Tail(<<x>> \o q) = q
  <2>1. /\ Tail(<<x>> \o q) \in Seq(S)
        /\ Len(Tail(<<x>> \o q)) = Len(q)
        /\ \A i \in 1 .. Len(q) : Tail(<<x>> \o q)[i] = (<<x>> \o q)[i + 1]
    BY <1>2, <1>3, HeadTailProperties, LenProperties
  <2>2. ASSUME NEW i \in 1 .. Len(q)
        PROVE  Tail(<<x>> \o q)[i] = q[i]
    BY <1>2, <2>1, LenProperties
  <2>3. QED
    BY <2>1, <2>2, SeqEqual
<1>6. ASSUME NEW r \in S
      PROVE  Append(<<x>> \o q, r) = <<x>> \o Append(q, r)
  BY <1>1, <1>2, AppendIsConcat, ConcatAssociative
<1>7. QED
  BY <1>2, <1>3, <1>4, <1>5, <1>6

\* A sequence that is not empty is its head in front of its tail.
LEMMA HeadThenTail ==
    ASSUME NEW S, NEW q \in Seq(S), q # <<>>
    PROVE  <<Head(q)>> \o Tail(q) = q
<1>1. /\ Head(q) \in S /\ Tail(q) \in Seq(S) /\ Len(q) \in Nat
      /\ Len(Tail(q)) = Len(q) - 1 /\ Head(q) = q[1]
      /\ \A i \in 1 .. Len(Tail(q)) : Tail(q)[i] = q[i + 1]
  BY HeadTailProperties, LenProperties
<1>2. <<Head(q)>> \in Seq(S) /\ Len(<<Head(q)>>) = 1 /\ <<Head(q)>>[1] = Head(q)
  BY <1>1
<1>3. /\ <<Head(q)>> \o Tail(q) \in Seq(S)
      /\ Len(<<Head(q)>> \o Tail(q)) = Len(q)
      /\ \A i \in 1 .. Len(q) : (<<Head(q)>> \o Tail(q))[i] =
                                IF i <= 1 THEN Head(q) ELSE Tail(q)[i - 1]
  BY <1>1, <1>2, ConcatProperties
<1>4. ASSUME NEW i \in 1 .. Len(q)
      PROVE  (<<Head(q)>> \o Tail(q))[i] = q[i]
  BY <1>1, <1>3
<1>5. QED
  BY <1>3, <1>4, SeqEqual

\* A *_now request is remembered for good: sdo_now is never cleared.
LEMMA NowEndsPlain == CoreInv /\ SendNow => ~Plain'
  BY CoreAssumption DEF SendNow, CoreInv, TicketsHeld, Plain

\* The callers stay plain up to a plain state.
LEMMA PlainBefore == CoreInv /\ [Next]_vars /\ Plain' => Plain
<1> SUFFICES ASSUME CoreInv, [Next]_vars, Plain'
             PROVE  Plain
  OBVIOUS
<1>t. TypeOK /\ TicketsHeld
  BY DEF CoreInv
<1>1. CASE Send \/ SendNow \/ Reset
  BY <1>1, NowEndsPlain DEF Send, Reset, Plain, lineVars
<1>2. CASE Tick
  <2>1. PICK c \in Worked : TickWith(c) /\ UNCHANGED was_reset
    BY <1>2 DEF Tick
  <2>2. CASE SendRequest(c) \/ WaitResult(c) \/ TakeRequest(c) \/ NothingToDo(c)
    BY <2>1, <2>2 DEF SendRequest, WaitResult, TakeRequest, NothingToDo, Plain, lineVars
  <2>3. CASE EndRequest(c)
    BY <1>t, <2>1, <2>3, CoreAssumption DEF EndRequest, Callback, TicketsHeld, Plain
  <2>4. QED
    BY <2>1, <2>2, <2>3 DEF TickWith
<1>3. CASE UNCHANGED vars
  BY <1>3 DEF vars, lineVars, Plain
<1>4. QED
  BY <1>1, <1>2, <1>3 DEF Next

\* Plain requests only: the job on the client is the ticket popped, to its end
\* (sm_core_co.c 396-461 with is_sdo_now false).
LEMMA ServesHeadStep ==
    ASSUME Plain', CoreInv, ServesHead, [Next]_vars
    PROVE  ServesHead'
<1>t. TypeOK /\ TicketsHeld /\ StartsFree
  BY DEF CoreInv
<1>1. CASE Send
  BY <1>1 DEF Send, ServesHead
<1>2. CASE SendNow \/ Reset
  BY <1>2, NowEndsPlain DEF Reset, Plain
<1>3. CASE Tick
  <2>1. PICK c \in Worked : TickWith(c)
    BY <1>3 DEF Tick
  <2>w. /\ Recorded(c) /\ c.job = client.job
        /\ c.running => client.running /\ c.status \notin Ends
        /\ client.running /\ ~c.running => c.status \in Ends
        /\ ~client.running => c = client
    BY <2>1, WorkedType DEF TickWith
  <2>2. CASE SendRequest(c)
    BY <2>2 DEF SendRequest, ServesHead, Current, lineVars
  <2>3. CASE WaitResult(c)
    <3>1. client.running /\ client.job = sub_obj /\ sub_obj \in Request
      BY <1>t, <2>3 DEF WaitResult, StartsFree, ServesHead, TicketsHeld
    <3>2. CASE c.running
      BY <2>3, <2>w, <3>2 DEF WaitResult, ServesHead, lineVars
    <3>3. CASE ~c.running
      <4>1. c.status \in Ends /\ outcome' = [outcome EXCEPT ![sub_obj] = c.status]
        BY <2>w, <3>1, <3>3 DEF Recorded
      <4>2. outcome'[sub_obj] = c.status
        BY <1>t, <3>1, <4>1 DEF TypeOK
      <4>3. QED
        BY <2>3, <4>1, <4>2 DEF WaitResult, ServesHead, lineVars
    <3>4. QED
      BY <3>2, <3>3
  <2>4. CASE EndRequest(c)
    BY <2>4 DEF EndRequest, ServesHead
  <2>5. CASE TakeRequest(c)
    BY <2>5 DEF TakeRequest, ServesHead
  <2>6. CASE NothingToDo(c)
    BY <2>6 DEF NothingToDo, ServesHead, lineVars
  <2>7. QED
    BY <2>1, <2>2, <2>3, <2>4, <2>5, <2>6 DEF TickWith
<1>4. CASE UNCHANGED vars
  BY <1>4 DEF vars, lineVars, ServesHead
<1>5. QED
  BY <1>1, <1>2, <1>3, <1>4 DEF Next

InLine == (IF sdo_process THEN <<sub_obj>> ELSE <<>>) \o queue
ResultOfFirst == IF sdo_process /\ sdo_state = "END_REQUEST" THEN outcome[sub_obj] ELSE None

\* The line as the state machine sees it.
LEMMA LineShape ==
    ASSUME CoreInv, ServesHead
    PROVE  /\ ~sdo_process => InLine = queue
           /\ sdo_process => /\ sub_obj \in Request
                             /\ InLine # <<>> /\ Head(InLine) = sub_obj
                             /\ Tail(InLine) = queue
                             /\ Len(InLine) = Len(queue) + 1
           /\ queue \in Seq(Request) /\ Len(queue) \in Nat /\ Len(queue) <= QueueLen
<1>t. TypeOK /\ TicketsHeld
  BY DEF CoreInv
<1>1. queue \in Seq(Request) /\ Len(queue) \in Nat /\ Len(queue) <= QueueLen
  BY <1>t DEF TypeOK
<1>2. CASE ~sdo_process
  BY <1>1, <1>2, ConcatEmptySeq DEF InLine
<1>3. CASE sdo_process
  <2>1. sub_obj \in Request
    BY <1>t, <1>3 DEF TicketsHeld, ServesHead
  <2>2. InLine = <<sub_obj>> \o queue
    BY <1>3 DEF InLine
  <2>3. QED
    BY <1>1, <1>3, <2>1, <2>2, InFront
<1>4. QED
  BY <1>1, <1>2, <1>3

\* A push, made by the application or in a callback, appends to the line or is refused.
LEMMA PushLine ==
    ASSUME CoreInv, ServesHead, NEW r \in Request, Pushed(r), UNCHANGED <<sdo_process, sub_obj>>
    PROVE  \/ UNCHANGED InLine
           \/ Len(InLine) < QueueLen + 1 /\ InLine' = Append(InLine, r)
<1>1. CASE Len(queue) < QueueLen
  <2>1. queue' = Append(queue, r)
    BY <1>1 DEF Pushed
  <2>2. CASE sdo_process
    <3>1. sub_obj \in Request /\ InLine = <<sub_obj>> \o queue
          /\ InLine' = <<sub_obj>> \o Append(queue, r)
      BY <2>1, <2>2, LineShape DEF InLine
    <3>2. Append(InLine, r) = <<sub_obj>> \o Append(queue, r)
      <4>1. queue \in Seq(Request)
        BY LineShape
      <4>2. Append(<<sub_obj>> \o queue, r) = <<sub_obj>> \o Append(queue, r)
        BY <3>1, <4>1, InFront
      <4>3. QED
        BY <3>1, <4>2
    <3>3. Len(InLine) < QueueLen + 1
      BY <1>1, <2>2, LineShape, CoreAssumption
    <3>4. QED
      BY <3>1, <3>2, <3>3
  <2>3. CASE ~sdo_process
    <3>1. InLine = queue
      BY <2>3, LineShape
    <3>2. InLine' = Append(queue, r)
      <4>1. Append(queue, r) \in Seq(Request)
        BY LineShape
      <4>2. QED
        BY <2>1, <2>3, <4>1, ConcatEmptySeq DEF InLine
    <3>3. Len(InLine) < QueueLen + 1
      BY <1>1, <3>1, LineShape, CoreAssumption
    <3>4. QED
      BY <3>1, <3>2, <3>3
  <2>4. QED
    BY <2>2, <2>3
<1>2. CASE ~(Len(queue) < QueueLen)
  BY <1>2 DEF Pushed, InLine
<1>3. QED
  BY <1>1, <1>2

\* Every step of the queue is a step of the line or leaves it alone: TakeRequest and
\* SendRequest stutter, WaitResult performs, EndRequest answers.
LEMMA LineStep ==
    ASSUME Plain', CoreInv, ServesHead, CoreInv', ServesHead', [Next]_vars
    PROVE  [Line!Next]_(Line!vars)
<1> DEFINE Abstract == [Line!Next]_(Line!vars)
<1>t. TypeOK /\ TicketsHeld /\ StartsFree
  BY DEF CoreInv
<1>s. ASSUME UNCHANGED <<InLine, ResultOfFirst, answers>>
      PROVE  Abstract
  BY <1>s DEF Line!vars, InLine, ResultOfFirst
<1>1. CASE Send
  <2>1. PICK r \in Request : Pushed(r)
    BY <1>1 DEF Send
  <2>2. UNCHANGED <<ResultOfFirst, answers>>
    BY <1>1 DEF Send, ResultOfFirst
  <2>3. CASE UNCHANGED InLine
    BY <2>2, <2>3, <1>s
  <2>4. CASE Len(InLine) < QueueLen + 1 /\ InLine' = Append(InLine, r)
    <3>1. Line!Accept
      BY <2>2, <2>4 DEF Line!Accept, InLine, ResultOfFirst
    <3>2. QED
      BY <3>1 DEF Line!Next
  <2>5. QED
    BY <1>1, <2>1, <2>3, <2>4, PushLine DEF Send
<1>2. CASE SendNow \/ Reset
  BY <1>2, NowEndsPlain DEF Reset, Plain
<1>3. CASE Tick
  <2>1. PICK c \in Worked : TickWith(c)
    BY <1>3 DEF Tick
  <2>w. /\ Recorded(c) /\ c.job = client.job
        /\ c.running => client.running /\ c.status \notin Ends
        /\ client.running /\ ~c.running => c.status \in Ends
        /\ ~client.running => c = client
    BY <2>1, WorkedType DEF TickWith
  <2>2. CASE SendRequest(c)
    <3>1. UNCHANGED <<InLine, ResultOfFirst, answers>>
      BY <2>2 DEF SendRequest, InLine, ResultOfFirst, lineVars
    <3>2. QED
      BY <3>1, <1>s
  <2>3. CASE WaitResult(c)
    <3>0. UNCHANGED <<InLine, answers>> /\ sdo_process /\ sdo_process' /\ UNCHANGED sub_obj
      BY <2>3 DEF WaitResult, InLine, lineVars
    <3>1. CASE c.status \notin Ends
      <4>1. UNCHANGED ResultOfFirst
        BY <2>3, <3>1 DEF WaitResult, ResultOfFirst
      <4>2. QED
        BY <3>0, <4>1, <1>s
    <3>2. CASE c.status \in Ends
      <4>1. sdo_state' = "END_REQUEST" /\ ResultOfFirst = None /\ client' = c
        BY <2>3, <3>2 DEF WaitResult, ResultOfFirst
      <4>2. ResultOfFirst' = c.status
        BY <3>0, <4>1 DEF ResultOfFirst, ServesHead
      <4>3. Line!Perform
        <5>1. InLine # <<>>
          BY <3>0, LineShape
        <5>2. QED
          BY <3>0, <3>2, <4>1, <4>2, <5>1
          DEF Line!Perform, Line!Results, InLine, ResultOfFirst, None, Ends
      <4>4. QED
        BY <4>3 DEF Line!Next
    <3>3. QED
      BY <3>1, <3>2
  <2>4. CASE EndRequest(c)
    <3>1. /\ sdo_process /\ ~sdo_process' /\ Current = sub_obj /\ c = client
          /\ Callback
      BY <1>t, <2>4, <2>w DEF EndRequest, StartsFree, ServesHead, Current
    <3>2. ResultOfFirst = client.status /\ ResultOfFirst # None /\ ResultOfFirst' = None
      BY <2>4, <3>1 DEF EndRequest, ServesHead, ResultOfFirst, None, Ends
    <3>3. answers' = Append(answers, <<Head(InLine), ResultOfFirst>>) /\ InLine # <<>>
      BY <2>4, <3>1, <3>2, LineShape DEF EndRequest
    <3>4. InLine' = queue' /\ Tail(InLine) = queue
      <4>1. queue' \in Seq(Request)
        BY DEF CoreInv, TypeOK
      <4>2. InLine' = queue'
        BY <3>1, <4>1, ConcatEmptySeq DEF InLine
      <4>3. QED
        BY <3>1, <4>2, LineShape
    <3>5. \/ InLine' = Tail(InLine)
          \/ Len(InLine) <= QueueLen + 1 /\ \E r \in Request : InLine' = Append(Tail(InLine), r)
      <4>1. CASE UNCHANGED queue
        BY <3>4, <4>1
      <4>2. ASSUME NEW r \in Request, Pushed(r)
            PROVE  \/ InLine' = Tail(InLine)
                   \/ /\ Len(InLine) <= QueueLen + 1
                      /\ InLine' = Append(Tail(InLine), r)
        <5>1. Len(InLine) <= QueueLen + 1
          BY <3>1, LineShape, CoreAssumption
        <5>2. QED
          BY <3>4, <4>2, <5>1 DEF Pushed
      <4>3. UNCHANGED queue \/ \E r \in Request : Pushed(r)
        BY <3>1 DEF Callback
      <4>4. QED
        BY <4>1, <4>2, <4>3
    <3>6. Line!Answer
      BY <3>2, <3>3, <3>5 DEF Line!Answer, InLine, ResultOfFirst, None
    <3>7. QED
      BY <3>6 DEF Line!Next
  <2>5. CASE TakeRequest(c)
    <3>1. ~sdo_process /\ sdo_process' /\ queue # <<>> /\ sub_obj' = Head(queue)
          /\ queue' = Tail(queue) /\ sdo_state' = "SEND_REQUEST" /\ UNCHANGED answers
      BY <2>5 DEF TakeRequest, ServesHead
    <3>2. InLine = queue /\ InLine' = <<Head(queue)>> \o Tail(queue)
      BY <3>1, LineShape DEF InLine
    <3>3. InLine' = InLine
      BY <3>1, <3>2, LineShape, HeadThenTail
    <3>4. UNCHANGED ResultOfFirst
      BY <3>1 DEF ResultOfFirst
    <3>5. QED
      BY <3>1, <3>3, <3>4, <1>s
  <2>6. CASE NothingToDo(c)
    <3>1. UNCHANGED <<InLine, ResultOfFirst, answers>>
      BY <2>6 DEF NothingToDo, InLine, ResultOfFirst, lineVars
    <3>2. QED
      BY <3>1, <1>s
  <2>7. QED
    BY <2>1, <2>2, <2>3, <2>4, <2>5, <2>6 DEF TickWith
<1>4. CASE UNCHANGED vars
  BY <1>4, <1>s DEF vars, lineVars, InLine, ResultOfFirst
<1>5. QED
  BY <1>1, <1>2, <1>3, <1>4 DEF Next

\* An idle sm_core_co is an empty line.
LEMMA LineInit == Init => Line!Init
<1> SUFFICES ASSUME Init
             PROVE  Line!Init
  OBVIOUS
<1>1. <<>> \o <<>> = <<>>
  BY EmptySeq, ConcatEmptySeq
<1>2. QED
  BY <1>1 DEF Init, Line!Init, None

\* Callers of sm_co_sdo_client_send and _receive get their requests performed in
\* order, and each callback once with the result of its own request.
THEOREM CoreImplementsLine == Spec => LineSpec
<1> DEFINE Inv == CoreInv /\ (Plain => ServesHead)
<1>1. Init => Inv
  BY InitCore DEF Init, ServesHead
<1>2. Inv /\ [Next]_vars => Inv'
  BY CoreStep, ServesHeadStep, PlainBefore
<1>3. Inv /\ Inv' /\ [Next]_vars
        => [Plain' => Line!Next \/ UNCHANGED Line!vars]_vars
  BY LineStep, PlainBefore
<1>4. QED
  BY <1>1, <1>2, <1>3, LineInit, PTL DEF Spec, LineSpec

------------------------------------------------------------------------------
(* Each ticket is in one place: it waits in the fifo once, or is being      *)
(* served, or has been answered.                                            *)

Waits(r) == \E i \in DOMAIN queue : queue[i] = r
Alive(r) == r \in offered /\ ~Answered(r) /\ ~Waits(r)

FifoOnce ==
    /\ \A i, j \in DOMAIN queue : queue[i] = queue[j] => i = j
    /\ \A x : Waits(x) => x \in offered /\ ~Answered(x)

OnceInv ==
    /\ AnsweredOnce
    /\ FifoOnce
    /\ is_sdo_now => Alive(sdo_now)
    /\ sdo_process /\ ~is_sdo_now => Alive(sub_obj)

\* A push of a fresh ticket keeps the fifo free of repetitions.
LEMMA PushOnce ==
    ASSUME TypeOK, OnceInv, NEW r \in Request \ offered, Pushed(r)
    PROVE  /\ \A i, j \in DOMAIN queue' : queue'[i] = queue'[j] => i = j
           /\ \A x : Waits(x)' => Waits(x) \/ x = r
<1>1. CASE Len(queue) < QueueLen
  <2>1. /\ queue' = Append(queue, r) /\ Len(queue) \in Nat
        /\ DOMAIN queue = 1 .. Len(queue)
    BY <1>1, LenProperties DEF Pushed, TypeOK
  <2>2. /\ DOMAIN queue' = 1 .. Len(queue) + 1 /\ queue'[Len(queue) + 1] = r
        /\ \A i \in 1 .. Len(queue) : queue'[i] = queue[i]
    BY <2>1, AppendProperties, LenProperties DEF TypeOK
  <2>3. \A i \in DOMAIN queue : queue[i] # r
    BY DEF OnceInv, FifoOnce, Waits
  <2>4. QED
    BY <2>1, <2>2, <2>3 DEF OnceInv, FifoOnce, Waits
<1>2. CASE ~(Len(queue) < QueueLen)
  BY <1>2 DEF Pushed, OnceInv, FifoOnce, Waits
<1>3. QED
  BY <1>1, <1>2

\* A fresh ticket is neither answered nor waiting.
LEMMA FreshTicket ==
    ASSUME OnceInv, NEW r \in Request \ offered
    PROVE  ~Answered(r) /\ ~Waits(r)
  BY DEF OnceInv, FifoOnce, AnsweredOnce, Answered

\* Every step leaves each ticket in one place.
LEMMA OnceStep ==
    ASSUME CoreInv, OnceInv, [Next]_vars
    PROVE  OnceInv'
<1>t. TypeOK /\ TicketsHeld
  BY DEF CoreInv
<1>1. CASE Send
  <2>1. PICK r \in Request \ offered : Pushed(r) /\ offered' = offered \union {r}
    BY <1>1 DEF Send
  <2>2. UNCHANGED <<sub_obj, sdo_now, is_sdo_now, sdo_process, answers>>
    BY <1>1 DEF Send
  <2>3. \A x : Answered(x)' <=> Answered(x)
    BY <2>2 DEF Answered
  <2>4. /\ \A i, j \in DOMAIN queue' : queue'[i] = queue'[j] => i = j
        /\ \A x : Waits(x)' => Waits(x) \/ x = r
    BY <1>t, <2>1, PushOnce
  <2>5. AnsweredOnce'
    BY <2>1, <2>2 DEF OnceInv, AnsweredOnce
  <2>6. FifoOnce'
    BY <2>1, <2>3, <2>4, FreshTicket DEF OnceInv, FifoOnce
  <2>7. \A x : Alive(x) => Alive(x)'
    BY <2>1, <2>3, <2>4 DEF Alive
  <2>8. QED
    BY <2>2, <2>5, <2>6, <2>7 DEF OnceInv, Alive
<1>2. CASE SendNow
  <2>1. PICK r \in Request \ offered :
            /\ offered' = offered \union {r}
            /\ sdo_now' = IF is_sdo_now THEN sdo_now ELSE r
    BY <1>2 DEF SendNow
  <2>2. UNCHANGED <<queue, answers>> /\ is_sdo_now'
    BY <1>2 DEF SendNow
  <2>3. \A x : Alive(x) \/ x = r => Alive(x)'
    BY <2>1, <2>2, FreshTicket DEF Alive, Answered, Waits
  <2>4. QED
    BY <2>1, <2>2, <2>3 DEF OnceInv, FifoOnce, AnsweredOnce, Answered, Waits
<1>3. CASE Reset
  BY <1>3 DEF Reset, lineVars, OnceInv, FifoOnce, AnsweredOnce, Answered, Waits, Alive
<1>4. CASE Tick
  <2>1. PICK c \in Worked : TickWith(c)
    BY <1>4 DEF Tick
  <2>2. CASE SendRequest(c) \/ WaitResult(c) \/ NothingToDo(c)
    BY <2>2 DEF SendRequest, WaitResult, NothingToDo, lineVars,
                OnceInv, FifoOnce, AnsweredOnce, Answered, Waits, Alive
  <2>3. CASE EndRequest(c)
    <3>1. /\ answers' = Append(answers, <<Current, c.status>>) /\ Callback
          /\ ~sdo_process' /\ ~is_sdo_now'
      BY <2>3 DEF EndRequest
    <3>2. Alive(Current)
      BY <2>3 DEF EndRequest, OnceInv, Current
    <3>3. /\ DOMAIN answers' = 1 .. Len(answers) + 1 /\ Len(answers) \in Nat
          /\ DOMAIN answers = 1 .. Len(answers)
          /\ answers'[Len(answers) + 1][1] = Current
          /\ \A i \in 1 .. Len(answers) : answers'[i] = answers[i]
      <4>1. DOMAIN answers = 1 .. Len(answers) /\ Len(answers) \in Nat
        BY <1>t, LenProperties DEF TypeOK
      <4>2. QED
        BY <1>t, <3>1, <4>1 DEF TypeOK
    <3>4. \A x : Answered(x)' => Answered(x) \/ x = Current
      BY <3>3 DEF Answered
    <3>5. offered \subseteq offered'
      BY <3>1 DEF Callback
    <3>6. AnsweredOnce'
      BY <3>2, <3>3, <3>5 DEF Alive, Answered, OnceInv, AnsweredOnce
    <3>7. FifoOnce'
      <4>0. \A x : Waits(x) => x \in offered /\ ~Answered(x) /\ x # Current
        BY <3>2 DEF OnceInv, FifoOnce, Alive
      <4>1. CASE UNCHANGED queue
        BY <3>4, <3>5, <4>0, <4>1 DEF OnceInv, FifoOnce, Waits
      <4>2. ASSUME NEW r \in Request \ offered, Pushed(r), offered' = offered \union {r}
            PROVE  FifoOnce'
        <5>1. ~Answered(r) /\ r # Current
          BY <3>2, <4>2, FreshTicket DEF Alive
        <5>2. /\ \A i, j \in DOMAIN queue' : queue'[i] = queue'[j] => i = j
              /\ \A x : Waits(x)' => Waits(x) \/ x = r
          BY <1>t, <4>2, PushOnce
        <5>3. QED
          BY <3>4, <4>0, <4>2, <5>1, <5>2 DEF FifoOnce
      <4>3. QED
        BY <3>1, <4>1, <4>2 DEF Callback
    <3>8. QED
      BY <3>1, <3>6, <3>7 DEF OnceInv
  <2>4. CASE TakeRequest(c)
    <3>1. UNCHANGED <<sdo_now, is_sdo_now, offered, answers>>
      BY <2>4 DEF TakeRequest
    <3>2. CASE is_sdo_now
      BY <2>4, <3>1, <3>2 DEF TakeRequest, OnceInv, FifoOnce, AnsweredOnce, Answered, Waits, Alive
    <3>3. CASE ~is_sdo_now
      <4>1. queue # <<>> /\ sub_obj' = Head(queue) /\ queue' = Tail(queue)
        BY <2>4, <3>3 DEF TakeRequest
      <4>2. /\ Len(queue) \in Nat \ {0} /\ DOMAIN queue = 1 .. Len(queue)
            /\ Head(queue) = queue[1] /\ DOMAIN Tail(queue) = 1 .. Len(queue) - 1
            /\ \A i \in 1 .. Len(queue) - 1 : Tail(queue)[i] = queue[i + 1]
        BY <1>t, <4>1, HeadTailProperties, LenProperties, EmptySeq DEF TypeOK
      <4>3. Waits(Head(queue)) /\ \A x : Waits(x)' => Waits(x) /\ x # Head(queue)
        BY <4>1, <4>2 DEF OnceInv, FifoOnce, Waits
      <4>4. \A x : Answered(x)' <=> Answered(x)
        BY <3>1 DEF Answered
      <4>5. Alive(sub_obj)'
        BY <3>1, <4>1, <4>3, <4>4 DEF OnceInv, FifoOnce, Alive
      <4>6. FifoOnce'
        BY <3>1, <4>1, <4>2, <4>3, <4>4 DEF OnceInv, FifoOnce
      <4>7. QED
        BY <3>1, <3>3, <4>5, <4>6 DEF OnceInv, AnsweredOnce
    <3>4. QED
      BY <3>2, <3>3
  <2>5. QED
    BY <2>1, <2>2, <2>3, <2>4 DEF TickWith
<1>5. CASE UNCHANGED vars
  BY <1>5 DEF vars, lineVars, OnceInv, FifoOnce, AnsweredOnce, Answered, Waits, Alive
<1>6. QED
  BY <1>1, <1>2, <1>3, <1>4, <1>5 DEF Next

\* A callback runs at most once for each request, *_now requests, resets and
\* requests made in callbacks included.
THEOREM CoreAnswersOnce == Spec => []AnsweredOnce
<1>1. Init => CoreInv /\ OnceInv
  BY InitCore DEF Init, OnceInv, FifoOnce, Waits, AnsweredOnce
<1>2. CoreInv /\ OnceInv /\ [Next]_vars => (CoreInv /\ OnceInv)'
  BY CoreStep, OnceStep
<1>3. OnceInv => AnsweredOnce
  BY DEF OnceInv
<1>4. QED
  BY <1>1, <1>2, <1>3, PTL DEF Spec


------------------------------------------------------------------------------
(* Resets do not spoil the result passed on, *_now requests do: as long as   *)
(* none was made, the request being served is the one the client works for. *)

ServesOwn ==
    /\ ~is_sdo_now
    /\ sdo_process /\ sdo_state = "WAIT_RESULT" => client.job = sub_obj
    /\ sdo_process /\ sdo_state = "END_REQUEST" /\ client.status \in Ends
          => outcome[sub_obj] = client.status

OwnInv == sdo_now = None => ServesOwn /\ OwnResult

\* The ticket of a *_now call is never taken back.
LEMMA NowBefore == CoreInv /\ [Next]_vars /\ sdo_now' = None => sdo_now = None
<1> SUFFICES ASSUME CoreInv, [Next]_vars, sdo_now' = None
             PROVE  sdo_now = None
  OBVIOUS
<1>1. is_sdo_now => sdo_now # None
  BY CoreAssumption DEF CoreInv, TicketsHeld
<1>2. CASE SendNow
  BY <1>1, <1>2, CoreAssumption DEF SendNow
<1>3. CASE Tick
  BY <1>1, <1>3, CoreAssumption DEF Tick, TickWith, SendRequest, WaitResult, EndRequest,
     TakeRequest, NothingToDo, Callback, lineVars
<1>4. CASE Send \/ Reset \/ UNCHANGED vars
  BY <1>4 DEF Send, Reset, vars, lineVars
<1>5. QED
  BY <1>2, <1>3, <1>4 DEF Next

\* The end of the running job is recorded for the ticket being served, and for no other.
LEMMA RecordedOwn ==
    ASSUME CoreInv, ServesOwn, NEW c \in Worked, Recorded(c)
    PROVE  /\ \A x : x # sub_obj => outcome'[x] = outcome[x]
           /\ ~client.running => outcome' = outcome
           /\ client.running /\ ~c.running => outcome'[sub_obj] = c.status
<1>1. CASE client.running /\ ~c.running
  <2>1. client.job = sub_obj /\ client.job \in Request
    BY <1>1 DEF CoreInv, StartsFree, TicketsHeld, ServesOwn
  <2>2. /\ outcome' = [outcome EXCEPT ![sub_obj] = c.status]
        /\ outcome \in [Request -> {None} \union Ends]
    BY <1>1, <2>1 DEF Recorded, CoreInv, TypeOK
  <2>3. QED
    BY <1>1, <2>1, <2>2
<1>2. CASE ~(client.running /\ ~c.running)
  BY <1>2 DEF Recorded
<1>3. QED
  BY <1>1, <1>2

\* While a ticket is served, what is recorded leaves the answers given so far true.
LEMMA AnswersStay ==
    ASSUME CoreInv, OnceInv, OwnInv, sdo_now = None, NEW c \in Worked, Recorded(c)
    PROVE  \A i \in DOMAIN answers :
              answers[i][2] \in Ends => outcome'[answers[i][1]] = answers[i][2]
<1>1. ServesOwn /\ OwnResult
  BY DEF OwnInv
<1>2. CASE sdo_process
  <2>1. ~Answered(sub_obj)
    BY <1>1, <1>2 DEF OnceInv, Alive, ServesOwn
  <2>2. \A i \in DOMAIN answers : answers[i][1] # sub_obj
    BY <2>1 DEF Answered
  <2>3. QED
    BY <1>1, <2>2, RecordedOwn DEF OwnResult
<1>3. CASE ~sdo_process
  <2>1. outcome' = outcome
    BY <1>1, <1>3, RecordedOwn DEF CoreInv, StartsFree
  <2>2. QED
    BY <1>1, <2>1 DEF OwnResult
<1>4. QED
  BY <1>2, <1>3

\* A tick keeps the results right: the request that ends hands on the end of its own job.
LEMMA OwnTick ==
    ASSUME CoreInv, OnceInv, OwnInv, sdo_now = None, Tick
    PROVE  ServesOwn' /\ OwnResult'
<1>1. PICK c \in Worked : TickWith(c)
  BY DEF Tick
<1>2. /\ Recorded(c) /\ c.job = client.job
      /\ c.running => client.running /\ c.status \notin Ends
      /\ client.running /\ ~c.running => c.status \in Ends
      /\ ~client.running => c = client
  BY <1>1, WorkedType DEF TickWith
<1>s. ServesOwn /\ OwnResult /\ StartsFree
  BY DEF OwnInv, CoreInv
<1>3. \A i \in DOMAIN answers :
          answers[i][2] \in Ends => outcome'[answers[i][1]] = answers[i][2]
  BY <1>2, AnswersStay
<1>4. CASE SendRequest(c)
  <2>1. ServesOwn'
    BY <1>s, <1>4 DEF SendRequest, ServesOwn, Current, lineVars
  <2>2. OwnResult'
    BY <1>3, <1>4 DEF SendRequest, OwnResult
  <2>3. QED
    BY <2>1, <2>2
<1>5. CASE WaitResult(c)
  <2>1. client.running /\ client.job = sub_obj
    BY <1>s, <1>5 DEF WaitResult, StartsFree, ServesOwn
  <2>2. c.status \in Ends => outcome'[sub_obj] = c.status
    BY <1>2, <1>s, <2>1, RecordedOwn
  <2>3. ServesOwn'
    BY <1>2, <1>s, <1>5, <2>1, <2>2 DEF WaitResult, ServesOwn, lineVars
  <2>4. OwnResult'
    BY <1>3, <1>5 DEF WaitResult, OwnResult
  <2>5. QED
    BY <2>3, <2>4
<1>6. CASE EndRequest(c)
  <2>1. ~client.running /\ c = client /\ Current = sub_obj
    BY <1>2, <1>s, <1>6 DEF EndRequest, StartsFree, ServesOwn, Current
  <2>2. outcome' = outcome
    BY <1>2, <1>s, <2>1, RecordedOwn
  <2>3. ServesOwn'
    BY <1>6 DEF EndRequest, ServesOwn
  <2>4. answers' = Append(answers, <<sub_obj, client.status>>)
    BY <1>6, <2>1 DEF EndRequest
  <2>5. /\ Len(answers) \in Nat /\ DOMAIN answers = 1 .. Len(answers)
        /\ DOMAIN answers' = 1 .. Len(answers) + 1
        /\ answers'[Len(answers) + 1] = <<sub_obj, client.status>>
        /\ \A i \in 1 .. Len(answers) : answers'[i] = answers[i]
    <3>1. answers \in Seq((Request \union {None}) \X ({"idle", "busy"} \union Ends))
      BY DEF CoreInv, TypeOK
    <3>2. DOMAIN answers = 1 .. Len(answers) /\ Len(answers) \in Nat
      BY <3>1, LenProperties
    <3>3. answers' \in Seq((Request \union {None}) \X ({"idle", "busy"} \union Ends))
      BY CoreStep DEF CoreInv, TypeOK, Next
    <3>4. QED
      BY <2>4, <3>1, <3>2, <3>3
  <2>6. client.status \in Ends => outcome[sub_obj] = client.status
    BY <1>s, <1>6 DEF EndRequest, ServesOwn
  <2>7. \A i \in DOMAIN answers' :
            answers'[i][2] \in Ends => outcome'[answers'[i][1]] = answers'[i][2]
    <3>1. TAKE i \in DOMAIN answers'
    <3>2. CASE i \in 1 .. Len(answers)
      BY <1>3, <2>5, <3>2
    <3>3. CASE i = Len(answers) + 1
      BY <2>2, <2>5, <2>6, <3>3
    <3>4. QED
      BY <2>5, <3>2, <3>3
  <2>8. QED
    BY <2>3, <2>7 DEF OwnResult
<1>7. CASE TakeRequest(c) \/ NothingToDo(c)
  <2>1. ServesOwn'
    BY <1>s, <1>7 DEF TakeRequest, NothingToDo, ServesOwn, lineVars
  <2>2. OwnResult'
    BY <1>3, <1>7 DEF TakeRequest, NothingToDo, OwnResult
  <2>3. QED
    BY <2>1, <2>2
<1>8. QED
  BY <1>1, <1>4, <1>5, <1>6, <1>7 DEF TickWith

\* No step spoils a result as long as no *_now request is made.
LEMMA OwnStep ==
    ASSUME CoreInv, OnceInv, OwnInv, [Next]_vars
    PROVE  OwnInv'
<1> SUFFICES ASSUME sdo_now' = None
             PROVE  ServesOwn' /\ OwnResult'
  BY DEF OwnInv
<1>1. sdo_now = None /\ ServesOwn /\ OwnResult
  BY NowBefore DEF OwnInv
<1>2. CASE Tick
  BY <1>1, <1>2, OwnTick
<1>3. CASE SendNow
  BY <1>1, <1>3, CoreAssumption DEF SendNow, ServesOwn
<1>4. CASE Reset
  <2>1. client'.job = client.job /\ client'.status = "idle"
    BY <1>4 DEF Reset, CoreInv, TypeOK
  <2>2. QED
    BY <1>1, <1>4, <2>1 DEF Reset, lineVars, ServesOwn, OwnResult, Ends
<1>5. CASE Send \/ UNCHANGED vars
  BY <1>1, <1>5 DEF Send, vars, lineVars, ServesOwn, OwnResult
<1>6. QED
  BY <1>2, <1>3, <1>4, <1>5 DEF Next

\* For any requests and any queue length: as long as no *_now request was made, a
\* callback that is told success or abort is told the end of its own job, resets and
\* requests made in callbacks included.
THEOREM CoreGivesOwnResult == Spec => []OwnResult
<1>1. Init => CoreInv /\ OnceInv /\ OwnInv
  BY InitCore
  DEF Init, OnceInv, FifoOnce, Waits, AnsweredOnce, OwnInv, ServesOwn, OwnResult
<1>2. CoreInv /\ OnceInv /\ OwnInv /\ [Next]_vars => (CoreInv /\ OnceInv /\ OwnInv)'
  BY CoreStep, OnceStep, OwnStep
<1>3. OwnInv => OwnResult
  BY DEF OwnInv, OwnResult
<1>4. QED
  BY <1>1, <1>2, <1>3, PTL DEF Spec
==============================================================================
