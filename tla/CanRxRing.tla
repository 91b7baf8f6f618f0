------------------------------ MODULE CanRxRing -------------------------------
(***************************************************************************)
(* sm_co_ra4m2_if.c: the ring between the CAN interrupt, which stores every *)
(* frame it receives, and sm_co_if_process, which the timer interrupt calls *)
(* once a millisecond and which hands one frame to every callback.          *)
(*                                                                          *)
(* Both interrupts have the same priority, so neither comes in the middle  *)
(* of the other.  A frame is the number of its arrival; 0 is the empty     *)
(* frame the slots hold at first.                                          *)
(***************************************************************************)
EXTENDS Naturals, Sequences

CONSTANTS QueueSize,      \* SM_QUEUE_CAN_MSG, 32 in the code
          CallbackNum,    \* SM_CO_FUNCTION_CALLBACK_NUM, 4 in the code
          MaxFrames       \* bound: how many frames arrive

\* The indices are of type uint8_t.
ASSUME QueueSizeAssumption == QueueSize \in 1 .. 255
ASSUME CallbackNumAssumption == CallbackNum \in Nat
ASSUME MaxFramesAssumption == MaxFrames \in Nat

VARIABLES m_queue, m_head, m_tail,
          registered,     \* how many entries of sm_co_recv_cb are set
          received,       \* the number of the frame that arrived last
          told            \* the frame each callback was called with last

rxVars == <<m_queue, m_head, m_tail, registered, received, told>>

RxSlots == 0 .. QueueSize - 1
Callback == 1 .. CallbackNum

RxSucc(i) == IF i + 1 >= QueueSize THEN 0 ELSE i + 1

RxInit ==
    /\ m_queue = [s \in RxSlots |-> 0] /\ m_head = 0 /\ m_tail = 0
    /\ registered = 0 /\ received = 0
    /\ told = [c \in Callback |-> 0]

\* sm_co_if_reg_recv_callback takes the first free entry and fails when there is
\* none.  The program registers before it enables interrupts.
Register ==
    /\ received = 0
    /\ registered < CallbackNum /\ registered' = registered + 1
    /\ UNCHANGED <<m_queue, m_head, m_tail, received, told>>

\* mutant: the head moves before the frame is stored
ReceiveMovesFirst ==
    /\ received < MaxFrames /\ received' = received + 1
    /\ m_head' = RxSucc(m_head)
    /\ m_queue' = [m_queue EXCEPT ![m_head'] = received']
    /\ UNCHANGED <<m_tail, registered, told>>

\* sm_can_rx_cb: nothing asks whether the ring is full.
Receive ==
    /\ received < MaxFrames /\ received' = received + 1
    /\ m_queue' = [m_queue EXCEPT ![m_head] = received']
    /\ m_head' = RxSucc(m_head)
    /\ UNCHANGED <<m_tail, registered, told>>

\* mutant: the tail is not moved once a callback has taken the frame
ProcessKeeps ==
    /\ m_head # m_tail
    /\ told' = [c \in Callback |-> IF c <= registered THEN m_queue[m_tail] ELSE told[c]]
    /\ m_tail' = IF registered = 0 THEN RxSucc(m_tail) ELSE m_tail
    /\ UNCHANGED <<m_queue, m_head, registered, received>>

\* mutant: the empty ring is not asked for
ProcessUnguarded ==
    /\ told' = [c \in Callback |-> IF c <= registered THEN m_queue[m_tail] ELSE told[c]]
    /\ m_tail' = RxSucc(m_tail)
    /\ UNCHANGED <<m_queue, m_head, registered, received>>

\* sm_co_if_process: on an empty ring it does nothing.
Process ==
    /\ m_head # m_tail
    /\ told' = [c \in Callback |-> IF c <= registered THEN m_queue[m_tail] ELSE told[c]]
    /\ m_tail' = RxSucc(m_tail)
    /\ UNCHANGED <<m_queue, m_head, registered, received>>

RxNext == Register \/ Receive \/ Process

RxSpec == RxInit /\ [][RxNext]_rxVars

------------------------------------------------------------------------------
(* The frames between tail and head, oldest first *)
Unread == IF m_tail <= m_head THEN m_head - m_tail ELSE (m_head + QueueSize) - m_tail
UnreadSlot(i) ==
    IF m_tail + i <= QueueSize THEN (m_tail + i) - 1 ELSE ((m_tail + i) - 1) - QueueSize
Pending == [i \in 1 .. Unread |-> m_queue[UnreadSlot(i)]]

\* Every variable holds a value of its type; the indices stay inside the ring.
RxTypeOK ==
    /\ m_queue \in [RxSlots -> 0 .. MaxFrames] /\ m_head \in RxSlots /\ m_tail \in RxSlots
    /\ registered \in 0 .. CallbackNum /\ received \in 0 .. MaxFrames
    /\ told \in [Callback -> 0 .. MaxFrames]

\* However far the head has run over the tail, what lies between them are the frames
\* that arrived last, without a gap (sm_co_ra4m2_if.c 33-41 stores over frames not
\* read and asks nothing).
NewestPending == \A i \in 1 .. Unread : m_queue[UnreadSlot(i)] + Unread = received + i

\* What was handed on is older than all that waits.
ToldOlder == \A c \in Callback : told[c] + Unread <= received

\* The ring's order: the newest wait, in the place where they were received, and what
\* was handed on came before them.
RxRingInv == RxTypeOK /\ NewestPending /\ ToldOlder

\* No callback sees a frame twice or a frame older than one it has seen, though
\* whole rings of frames may be lost in between (sm_co_ra4m2_if.c 151-166).
OnlyNewer ==
    [][\A c \in Callback : told'[c] >= told[c]
        /\ (c <= registered /\ m_tail' # m_tail => told'[c] > told[c])]_rxVars

\* The ring loses frames only QueueSize at a time and otherwise feeds every frame to
\* the callbacks in order.
Feed == INSTANCE FrameFeed WITH
            pending <- Pending, Capacity <- QueueSize, Frame <- 1 .. MaxFrames
FeedSpec == Feed!Spec
==============================================================================
