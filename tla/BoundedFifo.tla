----------------------------- MODULE BoundedFifo -----------------------------
(***************************************************************************)
(* What a user of utils/containers/sm_fifo.c relies on: a queue of at most *)
(* Length items, taken out in the order in which they were put in, each    *)
(* exactly once.                                                           *)
(***************************************************************************)
EXTENDS Naturals, Sequences

CONSTANTS Length,   \* the length given to sm_fifo_init
          Item,     \* the values that are queued
          NoItem    \* the zeroed destination of a pop before the first pop

VARIABLES q,        \* the queued items, oldest first
          out       \* the item the last successful pop handed over

Init == /\ q = <<>>
        /\ out = NoItem

Push == /\ Len(q) < Length
        /\ \E x \in Item : q' = Append(q, x)
        /\ UNCHANGED out

Pop == /\ q # <<>>
       /\ out' = Head(q)
       /\ q' = Tail(q)

Next == Push \/ Pop

Spec == Init /\ [][Next]_<<q, out>>
==============================================================================
