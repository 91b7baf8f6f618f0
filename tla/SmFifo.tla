------------------------------- MODULE SmFifo --------------------------------
(***************************************************************************)
(* utils/containers/sm_fifo.c: the ring buffer between the main loop, which *)
(* pushes, and the timer interrupt, which pops.                             *)
(*                                                                          *)
(* The interrupt runs to completion between two instructions of the main   *)
(* loop, so sm_fifo_pop is one step and sm_fifo_push is one step for each  *)
(* access to memory that both contexts use.  The flag p_fifo->lock is      *)
(* written but nothing ever reads it; it is left out.                      *)
(***************************************************************************)
EXTENDS Integers, Sequences

CONSTANTS Length,     \* the length given to sm_fifo_init
          Item,       \* the values that are queued
          NoItem,     \* what calloc leaves in a slot
          IndexMod,   \* 2^8 in the code: a slot is addressed through a uint8_t
          CountMod    \* 2^32 in the code: count is an unsigned int

ASSUME LengthAssumption == Length \in Nat \ {0}
\* A uint8_t can number the slots 0 .. Length.  Past that two indices meet in one slot
\* and the ring is no queue; the fifos of the two programs are 4, 5 and 10 long.
ASSUME IndexModAssumption == IndexMod \in Nat /\ Length < IndexMod
ASSUME CountModAssumption == CountMod \in Nat /\ CountMod > Length
ASSUME NoItemAssumption == NoItem \notin Item

VARIABLES buff,       \* the slots
          head,       \* the slot the next push fills
          tail,       \* the slot the next pop empties
          count,      \* number of items, kept by += and -= on shared memory
          pc,         \* where the main loop is inside sm_fifo_push
          item,       \* the argument of the push in progress
          next,       \* the local variable next of the push in progress
          reg,        \* the register that holds count between load and store
          out         \* the item the last successful pop copied out

vars == <<buff, head, tail, count, pc, item, next, reg, out>>
pushVars == <<pc, item, next, reg>>

Slots == 0 .. Length            \* sm_fifo_init allocates length + 1 slots

Succ(i) == (i + 1) % (Length + 1)
Slot(i) == i % IndexMod         \* (uint8_t) head, (uint8_t) tail

Init == /\ buff = [s \in Slots |-> NoItem]
        /\ head = 0 /\ tail = 0 /\ count = 0
        /\ pc = "idle" /\ item = NoItem /\ next = 0 /\ reg = 0
        /\ out = NoItem

------------------------------------------------------------------------------
(* sm_fifo_push, in the main loop *)

PushTestUnguarded(x) ==         \* mutant: the full test is dropped
    /\ pc = "idle"
    /\ pc' = "copy"
    /\ item' = x
    /\ next' = Succ(head)
    /\ UNCHANGED <<buff, head, tail, count, reg, out>>

PushTestPublishes(x) ==         \* mutant: head moves before the item is copied
    /\ pc = "idle"
    /\ Succ(head) # tail
    /\ pc' = "copy"
    /\ item' = x
    /\ next' = Succ(head)
    /\ head' = Succ(head)
    /\ UNCHANGED <<buff, tail, count, reg, out>>

\* The full test; on a full ring sm_fifo_push returns false and changes nothing.
PushTest(x) ==
    /\ pc = "idle"
    /\ Succ(head) # tail
    /\ pc' = "copy"
    /\ item' = x
    /\ next' = Succ(head)
    /\ UNCHANGED <<buff, head, tail, count, reg, out>>

PushCopy ==
    /\ pc = "copy"
    /\ buff' = [buff EXCEPT ![Slot(head)] = item]
    /\ pc' = "publish"
    /\ UNCHANGED <<head, tail, count, item, next, reg, out>>

PushHead ==
    /\ pc = "publish"
    /\ head' = next
    /\ pc' = "load"
    /\ UNCHANGED <<buff, tail, count, item, next, reg, out>>

PushCountLoad ==
    /\ pc = "load"
    /\ reg' = count
    /\ pc' = "store"
    /\ UNCHANGED <<buff, head, tail, count, item, next, out>>

PushCountStore ==
    /\ pc = "store"
    /\ count' = (reg + 1) % CountMod
    /\ pc' = "idle"
    /\ UNCHANGED <<buff, head, tail, item, next, reg, out>>

PopUnguarded ==                 \* mutant: the empty test is dropped
    /\ out' = buff[Slot(tail)]
    /\ tail' = Succ(tail)
    /\ count' = (count - 1) % CountMod
    /\ UNCHANGED <<buff, head, pushVars>>

(* sm_fifo_pop, in the interrupt; on an empty ring it changes nothing *)
Pop ==
    /\ head # tail
    /\ out' = buff[Slot(tail)]
    /\ tail' = Succ(tail)
    /\ count' = (count - 1) % CountMod
    /\ UNCHANGED <<buff, head, pushVars>>

Next == \/ \E x \in Item : PushTest(x)
        \/ PushCopy
        \/ PushHead
        \/ PushCountLoad
        \/ PushCountStore
        \/ Pop

Spec == Init /\ [][Next]_vars

------------------------------------------------------------------------------
(* The items between tail and head, oldest first *)
Size == IF tail <= head THEN head - tail ELSE head - tail + Length + 1
SlotOf(i) == IF tail + i - 1 <= Length THEN tail + i - 1 ELSE tail + i - 2 - Length
Contents == [i \in 1 .. Size |-> buff[SlotOf(i)]]

\* Every variable holds a value of its type; the indices stay inside the ring.
TypeOK ==
    /\ buff \in [Slots -> Item \cup {NoItem}]
    /\ head \in Slots /\ tail \in Slots /\ next \in Slots
    /\ count \in 0 .. CountMod - 1 /\ reg \in 0 .. CountMod - 1
    /\ pc \in {"idle", "copy", "publish", "load", "store"}
    /\ item \in Item \cup {NoItem}
    /\ out \in Item \cup {NoItem}

\* A push that has passed the full test still owns a free slot when it copies and
\* publishes, however many pops came in between, and what it publishes is its
\* argument (sm_fifo.c 73-77: the test and the store of head are far apart).
PushOwnsSlot ==
    /\ pc \in {"copy", "publish"} =>
          next = Succ(head) /\ next # tail /\ item \in Item
    /\ pc = "publish" => buff[head] = item

\* Every slot the interrupt may read was written by a completed copy: a pop never
\* hands over the zeroes of calloc (sm_fifo.c 93-95).
ReadsWritten == \A i \in 1 .. Size : buff[SlotOf(i)] \in Item

\* The indices stay in the ring and the counter in its word, a push owns the slot it has
\* tested, and a pop reads only what was written: the three need one another.
RingInv == TypeOK /\ PushOwnsSlot /\ ReadsWritten

\* The ring is the bounded queue its users expect, under every interleaving of the
\* interrupt with a push.
Queue == INSTANCE BoundedFifo WITH q <- Contents
QueueSpec == Queue!Spec
==============================================================================
