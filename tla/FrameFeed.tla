------------------------------ MODULE FrameFeed -------------------------------
(***************************************************************************)
(* What the callbacks of sm_co_if may rely on: frames come in the order of *)
(* their arrival and none comes twice.  Frames are lost only all at once:  *)
(* the arrival that fills the buffer forgets everything it holds.          *)
(***************************************************************************)
EXTENDS Naturals, Sequences

CONSTANTS Frame,
          Capacity,     \* how many frames are forgotten when the buffer fills
          Callback

VARIABLES pending,      \* the frames that wait, oldest first
          told          \* the frame each callback was called with last

Init == pending = <<>> /\ told = [c \in Callback |-> 0]

Arrive(frame) ==
    /\ pending' = IF Len(pending) + 1 < Capacity THEN Append(pending, frame) ELSE <<>>
    /\ UNCHANGED told

Tell(hearers) ==
    /\ pending # <<>>
    /\ told' = [c \in Callback |-> IF c \in hearers THEN Head(pending) ELSE told[c]]
    /\ pending' = Tail(pending)

Next == \/ \E frame \in Frame : Arrive(frame)
        \/ \E hearers \in SUBSET Callback : Tell(hearers)

Spec == Init /\ [][Next]_<<pending, told>>
==============================================================================
