----------------------------- MODULE RingsProofs -----------------------------
(***************************************************************************)
(* The two rings between an interrupt and the rest of the program: sm_fifo *)
(* for every length whose slots a uint8_t can number, the receive ring for  *)
(* every length.                                                           *)
(*                                                                         *)
(* SmFifo: the ring invariant, and that the ring buffer implements the     *)
(* bounded queue.  CanRxRing, however many frames arrive: overruns lose    *)
(* frames, and that is all they do.                                        *)
(***************************************************************************)
EXTENDS SmFifo, CanRxRing, SequenceTheorems, TLAPS

------------------------------------------------------------------------------
(* sm_fifo.c: one context pushes, the interrupt pops                        *)

\* The index step (head + 1) % length of sm_fifo.c 73 and 96, without the modulus.
LEMMA SuccValue ==
    ASSUME NEW i \in Slots
    PROVE  /\ Succ(i) = IF i = Length THEN 0 ELSE i + 1
           /\ Succ(i) \in Slots
  <1>1. CASE i = Length
    BY <1>1, LengthAssumption DEF Succ, Slots
  <1>2. CASE i # Length
    BY <1>2, LengthAssumption DEF Succ, Slots
  <1>3. QED
    BY <1>1, <1>2

\* The cast to uint8_t leaves an index alone while a uint8_t can number the slots
\* (sm_fifo.c 76 and 95).
LEMMA CastKeepsSlot ==
    ASSUME NEW i \in Slots
    PROVE  Slot(i) = i
  BY LengthAssumption, IndexModAssumption DEF Slot, Slots

\* The unsigned counter stays in its word whatever is added (sm_fifo.c 78 and 97).
LEMMA CountWraps ==
    ASSUME NEW n \in Int
    PROVE  n % CountMod \in 0 .. CountMod - 1
  BY LengthAssumption, CountModAssumption

\* Between tail and head lie at most Length slots, and their indices are slots.
LEMMA SizeBounds ==
    ASSUME TypeOK
    PROVE  /\ Size \in 0 .. Length
           /\ \A i \in 1 .. Size : SlotOf(i) \in Slots
           /\ \A i \in 1 .. Size : SlotOf(i) # head
           /\ (Size = 0) <=> (head = tail)
           /\ head # tail => SlotOf(1) = tail
  BY LengthAssumption DEF TypeOK, Size, SlotOf, Slots

------------------------------------------------------------------------------
(* The ring invariant is inductive: its parts need each other, since a pop  *)
(* that overtook head would read the slot a push is still filling.          *)

\* sm_fifo_init leaves an empty ring.
LEMMA InitRing == Init => RingInv
  BY LengthAssumption, CountModAssumption
  DEF Init, RingInv, TypeOK, PushOwnsSlot, ReadsWritten, Size, SlotOf, Slots

\* Every step keeps the types: the indices stay in the ring, count in its word.
LEMMA TypeStep == TypeOK /\ [Next]_vars => TypeOK'
<1> SUFFICES ASSUME TypeOK, [Next]_vars
             PROVE  TypeOK'
  OBVIOUS
<1> USE DEF TypeOK
<1>1. ASSUME NEW x \in Item, PushTest(x)
      PROVE  TypeOK'
  BY <1>1, SuccValue DEF PushTest
<1>2. CASE PushCopy
  BY <1>2 DEF PushCopy
<1>3. CASE PushHead
  BY <1>3 DEF PushHead
<1>4. CASE PushCountLoad
  BY <1>4 DEF PushCountLoad
<1>5. CASE PushCountStore
  <2>1. count' \in 0 .. CountMod - 1
    BY <1>5, CountWraps, CountModAssumption, LengthAssumption DEF PushCountStore
  <2>2. QED
    BY <1>5, <2>1 DEF PushCountStore
<1>6. CASE Pop
  <2>1. count' \in 0 .. CountMod - 1
    BY <1>6, CountWraps, CountModAssumption, LengthAssumption DEF Pop
  <2>2. tail' \in Slots
    BY <1>6, SuccValue DEF Pop
  <2>3. out' \in Item \cup {NoItem}
    BY <1>6, CastKeepsSlot DEF Pop
  <2>4. QED
    BY <1>6, <2>1, <2>2, <2>3 DEF Pop, pushVars
<1>7. CASE UNCHANGED vars
  BY <1>7 DEF vars
<1>8. QED
  BY <1>1, <1>2, <1>3, <1>4, <1>5, <1>6, <1>7 DEF Next

\* What a pop and the store of head do to the window between tail and head.
LEMMA PopWindow ==
    ASSUME TypeOK, Pop
    PROVE  /\ Size >= 1
           /\ Size' = Size - 1
           /\ \A i \in 1 .. Size' : SlotOf(i)' = SlotOf(i + 1)
<1>1. tail' = IF tail = Length THEN 0 ELSE tail + 1
  BY SuccValue DEF Pop, TypeOK
<1>2. head' = head /\ head # tail
  BY DEF Pop
<1>3. QED
  BY <1>1, <1>2, LengthAssumption DEF TypeOK, Size, SlotOf, Slots

\* The store of head lengthens the window by the slot just copied.
LEMMA PublishWindow ==
    ASSUME RingInv, PushHead
    PROVE  /\ Size < Length
           /\ Size' = Size + 1
           /\ \A i \in 1 .. Size : SlotOf(i)' = SlotOf(i)
           /\ SlotOf(Size)' = head
<1>1. next = IF head = Length THEN 0 ELSE head + 1
  BY SuccValue DEF PushHead, RingInv, PushOwnsSlot, TypeOK
<1>2. head' = next /\ next # tail /\ tail' = tail
  BY DEF PushHead, RingInv, PushOwnsSlot
<1>3. QED
  BY <1>1, <1>2, LengthAssumption DEF RingInv, TypeOK, Size, SlotOf, Slots

\* Every step of a push and every pop keeps the ring invariant.
LEMMA RingStep == RingInv /\ [Next]_vars => RingInv'
<1> SUFFICES ASSUME RingInv, [Next]_vars
             PROVE  PushOwnsSlot' /\ ReadsWritten'
  BY TypeStep DEF RingInv
<1>t. TypeOK
  BY DEF RingInv
<1>1. ASSUME NEW x \in Item, PushTest(x)
      PROVE  PushOwnsSlot' /\ ReadsWritten'
  <2>1. PushOwnsSlot'
    BY <1>1 DEF PushTest, PushOwnsSlot, Succ
  <2>2. ReadsWritten'
    BY <1>1 DEF PushTest, RingInv, ReadsWritten, Size, SlotOf
  <2>3. QED
    BY <2>1, <2>2
<1>2. CASE PushCopy
  <2>1. PushOwnsSlot'
    BY <1>2, <1>t, CastKeepsSlot DEF PushCopy, RingInv, PushOwnsSlot, Succ, TypeOK
  <2>2. /\ Size' = Size
        /\ \A i \in 1 .. Size : SlotOf(i)' = SlotOf(i)
    BY <1>2 DEF PushCopy, Size, SlotOf
  <2>3. \A i \in 1 .. Size : buff'[SlotOf(i)] = buff[SlotOf(i)]
    BY <1>2, <1>t, SizeBounds, CastKeepsSlot DEF PushCopy, TypeOK
  <2>4. QED
    BY <2>1, <2>2, <2>3 DEF RingInv, ReadsWritten
<1>3. CASE PushHead
  <2>1. PushOwnsSlot'
    BY <1>3 DEF PushHead, PushOwnsSlot
  <2>2. \A i \in 1 .. Size + 1 : i \in 1 .. Size \/ i = Size + 1
    BY <1>t, SizeBounds
  <2>3. buff' = buff /\ buff[head] \in Item
    BY <1>3 DEF PushHead, RingInv, PushOwnsSlot
  <2>4. QED
    BY <1>3, <2>1, <2>2, <2>3, PublishWindow DEF RingInv, ReadsWritten
<1>4. CASE PushCountLoad
  BY <1>4 DEF PushCountLoad, RingInv, PushOwnsSlot, ReadsWritten, Size, SlotOf
<1>5. CASE PushCountStore
  BY <1>5 DEF PushCountStore, RingInv, PushOwnsSlot, ReadsWritten, Size, SlotOf
<1>6. CASE Pop
  <2>1. PushOwnsSlot'
    <3>1. ASSUME pc \in {"copy", "publish"}
          PROVE  next # tail'
      \* head is not tail, so the successor of tail is not the successor of head
      <4>1. next = IF head = Length THEN 0 ELSE head + 1
        BY <3>1, <1>t, SuccValue DEF RingInv, PushOwnsSlot, TypeOK
      <4>2. tail' = IF tail = Length THEN 0 ELSE tail + 1
        BY <1>6, <1>t, SuccValue DEF Pop, TypeOK
      <4>3. head # tail
        BY <1>6 DEF Pop
      <4>4. QED
        BY <4>1, <4>2, <4>3, <1>t, LengthAssumption DEF TypeOK, Slots
    <3>2. QED
      BY <1>6, <3>1 DEF Pop, pushVars, RingInv, PushOwnsSlot, Succ
  <2>2. ReadsWritten'
    <3>1. \A i \in 1 .. Size' : i + 1 \in 1 .. Size
      BY <1>6, <1>t, PopWindow, SizeBounds
    <3>2. buff' = buff
      BY <1>6 DEF Pop
    <3>3. QED
      BY <1>6, <1>t, <3>1, <3>2, PopWindow DEF RingInv, ReadsWritten
  <2>3. QED
    BY <2>1, <2>2
<1>7. CASE UNCHANGED vars
  BY <1>7 DEF vars, RingInv, PushOwnsSlot, ReadsWritten, Size, SlotOf, Succ
<1>8. QED
  BY <1>1, <1>2, <1>3, <1>4, <1>5, <1>6, <1>7 DEF Next

\* For every length whose slots a uint8_t can number, and wherever a pop cuts into a push:
\* indices and counter keep their types, a push owns its slot, a pop reads what was
\* written (sm_fifo.c 71-99).
THEOREM RingSafe == Spec => []RingInv
<1>1. QED
  BY InitRing, RingStep, PTL DEF Spec

------------------------------------------------------------------------------
(* Refinement: the store of head is the abstract push, the pop the abstract pop *)

\* A sequence is the function that lists its elements.
LEMMA SeqAsFunction ==
    ASSUME NEW S, NEW s \in Seq(S)
    PROVE  s = [i \in 1 .. Len(s) |-> s[i]]
  BY LenProperties

\* What waits is a sequence of items, none of them the zeroes of calloc.
LEMMA ContentsSeq ==
    ASSUME RingInv
    PROVE  /\ Contents \in Seq(Item)
           /\ Len(Contents) = Size
           /\ \A i \in 1 .. Size : Contents[i] = buff[SlotOf(i)]
<1>1. Size \in Nat
  BY SizeBounds, LengthAssumption DEF RingInv
<1>2. \A i \in 1 .. Size : buff[SlotOf(i)] \in Item
  BY DEF RingInv, ReadsWritten
<1>3. QED
  BY <1>1, <1>2 DEF Contents

\* The store of head is the push of the queue.
LEMMA PublishIsPush ==
    ASSUME RingInv, PushHead
    PROVE  Queue!Push
<1>1. Len(Contents) < Length
  BY PublishWindow, ContentsSeq
<1>2. item \in Item /\ buff[head] = item /\ buff' = buff /\ out' = out
  BY DEF PushHead, RingInv, PushOwnsSlot
<1>3. Size \in Nat /\ Size' = Size + 1
  BY PublishWindow, SizeBounds, LengthAssumption DEF RingInv
<1>4. Append(Contents, item) \in Seq(Item) /\ Len(Append(Contents, item)) = Size + 1
  BY <1>2, ContentsSeq, AppendProperties
<1>5. Contents' = [i \in 1 .. Size + 1 |-> buff[SlotOf(i)']]
  BY <1>2, <1>3 DEF Contents
<1>6. \A i \in 1 .. Size + 1 : buff[SlotOf(i)'] = Append(Contents, item)[i]
  <2>1. ASSUME NEW i \in 1 .. Size
        PROVE  buff[SlotOf(i)'] = Append(Contents, item)[i]
    BY <1>3, <2>1, PublishWindow, ContentsSeq
  <2>2. QED
    BY <1>2, <1>3, <2>1, PublishWindow, ContentsSeq
<1>7. Contents' = Append(Contents, item)
  <2>1. Append(Contents, item) = [i \in 1 .. Size + 1 |-> Append(Contents, item)[i]]
    BY <1>4, SeqAsFunction
  <2>2. QED
    BY <1>5, <1>6, <2>1
<1>8. QED
  BY <1>1, <1>2, <1>7 DEF Queue!Push

\* sm_fifo_pop is the pop of the queue.
LEMMA PopIsPop ==
    ASSUME RingInv, Pop
    PROVE  Queue!Pop
<1>1. Size \in Nat /\ Size >= 1 /\ Size' = Size - 1
  BY PopWindow, SizeBounds, LengthAssumption DEF RingInv
<1>2. Contents # <<>>
  BY <1>1, ContentsSeq
<1>3. out' = Head(Contents)
  <2>1. out' = buff[tail] /\ SlotOf(1) = tail
    BY SizeBounds, CastKeepsSlot DEF Pop, RingInv, TypeOK
  <2>2. QED
    BY <1>1, <1>2, <2>1, ContentsSeq
<1>4. Contents' = [i \in 1 .. Size - 1 |-> buff[SlotOf(i)']]
  BY <1>1 DEF Contents, Pop
<1>5. Tail(Contents) \in Seq(Item) /\ Len(Tail(Contents)) = Size - 1
  BY <1>1, <1>2, ContentsSeq, HeadTailProperties
<1>6. ASSUME NEW i \in 1 .. Size - 1
      PROVE  buff[SlotOf(i)'] = Tail(Contents)[i]
  BY <1>1, <1>2, <1>5, <1>6, PopWindow, ContentsSeq, HeadTailProperties DEF RingInv
<1>7. Contents' = Tail(Contents)
  <2>1. Tail(Contents) = [i \in 1 .. Size - 1 |-> Tail(Contents)[i]]
    BY <1>5, SeqAsFunction
  <2>2. QED
    BY <1>4, <1>6, <2>1
<1>8. QED
  BY <1>2, <1>3, <1>7 DEF Queue!Pop

\* Every step of the ring is a step of the queue or leaves it alone.
LEMMA StepRefines ==
    RingInv /\ RingInv' /\ [Next]_vars => [Queue!Next]_<<Contents, out>>
<1> SUFFICES ASSUME RingInv, [Next]_vars
             PROVE  [Queue!Next]_<<Contents, out>>
  OBVIOUS
<1>t. TypeOK
  BY DEF RingInv
<1>1. ASSUME NEW x \in Item, PushTest(x)
      PROVE  UNCHANGED <<Contents, out>>
  BY <1>1 DEF PushTest, Contents, Size, SlotOf
<1>2. CASE PushCopy
  <2>1. \A i \in 1 .. Size : buff'[SlotOf(i)] = buff[SlotOf(i)]
    BY <1>2, <1>t, SizeBounds, CastKeepsSlot DEF PushCopy, TypeOK
  <2>2. Size' = Size /\ \A i \in 1 .. Size : SlotOf(i)' = SlotOf(i)
    BY <1>2 DEF PushCopy, Size, SlotOf
  <2>3. QED
    BY <1>2, <2>1, <2>2 DEF PushCopy, Contents
<1>3. CASE PushHead
  BY <1>3, PublishIsPush DEF Queue!Next
<1>4. CASE PushCountLoad
  BY <1>4 DEF PushCountLoad, Contents, Size, SlotOf
<1>5. CASE PushCountStore
  BY <1>5 DEF PushCountStore, Contents, Size, SlotOf
<1>6. CASE Pop
  BY <1>6, PopIsPop DEF Queue!Next
<1>7. CASE UNCHANGED vars
  BY <1>7 DEF vars, Contents, Size, SlotOf
<1>8. QED
  BY <1>1, <1>2, <1>3, <1>4, <1>5, <1>6, <1>7 DEF Next, Queue!Next

\* For every length whose slots a uint8_t can number, sm_fifo.c between one pushing context
\* and one popping interrupt behaves as a first-in first-out queue that loses and repeats
\* nothing.
THEOREM RingIsQueue == Spec => QueueSpec
<1>1. Init => Queue!Init
  BY LengthAssumption DEF Init, Queue!Init, Contents, Size
<1>2. QED
  BY <1>1, RingSafe, StepRefines, PTL DEF Spec, QueueSpec, Queue!Spec

------------------------------------------------------------------------------
(* sm_co_ra4m2_if.c: the ring that is never asked whether it is full        *)

\* The step of both indices (sm_co_ra4m2_if.c 37-41 and 162-165) stays in the ring.
LEMMA RxSuccSlot ==
    ASSUME NEW i \in RxSlots
    PROVE  RxSucc(i) \in RxSlots
  BY QueueSizeAssumption DEF RxSucc, RxSlots

\* Fewer than QueueSize frames wait, in different slots.
LEMMA UnreadBounds ==
    ASSUME RxTypeOK
    PROVE  /\ Unread \in 0 .. QueueSize - 1
           /\ \A i \in 1 .. Unread : UnreadSlot(i) \in RxSlots /\ UnreadSlot(i) # m_head
           /\ (Unread = 0) <=> (m_head = m_tail)
           /\ m_head # m_tail => UnreadSlot(1) = m_tail
  BY QueueSizeAssumption DEF RxTypeOK, Unread, UnreadSlot, RxSlots

\* sm_co_if_create_default leaves an empty ring.
LEMMA InitRxRing == RxInit => RxTypeOK /\ NewestPending /\ ToldOlder
  BY QueueSizeAssumption, CallbackNumAssumption, MaxFramesAssumption
  DEF RxInit, RxTypeOK, NewestPending, ToldOlder, Unread, UnreadSlot, RxSlots, Callback

\* Every step keeps the types: both indices stay in the ring.
LEMMA RxTypeStep == RxTypeOK /\ [RxNext]_rxVars => RxTypeOK'
<1> SUFFICES ASSUME RxTypeOK, [RxNext]_rxVars
             PROVE  RxTypeOK'
  OBVIOUS
<1> USE DEF RxTypeOK
<1>1. CASE Register
  BY <1>1, CallbackNumAssumption DEF Register
<1>2. CASE Receive
  <2>1. received' \in 0 .. MaxFrames
    BY <1>2, MaxFramesAssumption DEF Receive
  <2>2. QED
    BY <1>2, <2>1, RxSuccSlot DEF Receive
<1>3. CASE Process
  BY <1>3, RxSuccSlot DEF Process
<1>4. CASE UNCHANGED rxVars
  BY <1>4 DEF rxVars
<1>5. QED
  BY <1>1, <1>2, <1>3, <1>4 DEF RxNext

------------------------------------------------------------------------------
(* What an arrival and a reading do to the window between tail and head.    *)

\* An arrival lengthens the window by its slot, or empties it when it overruns
\* (sm_can_rx_cb).
LEMMA ReceiveWindow ==
    ASSUME RxTypeOK, Receive
    PROVE  /\ Unread' = IF Unread + 1 < QueueSize THEN Unread + 1 ELSE 0
           /\ \A i \in 1 .. Unread : UnreadSlot(i)' = UnreadSlot(i)
           /\ Unread' # 0 => UnreadSlot(Unread)' = m_head
<1>1. m_head' = IF m_head + 1 >= QueueSize THEN 0 ELSE m_head + 1
  BY DEF Receive, RxSucc
<1>2. m_tail' = m_tail
  BY DEF Receive
<1>3. QED
  BY <1>1, <1>2, QueueSizeAssumption DEF RxTypeOK, Unread, UnreadSlot, RxSlots

\* A reading takes the first slot off the window (sm_co_if_process).
LEMMA ProcessWindow ==
    ASSUME RxTypeOK, Process
    PROVE  /\ Unread >= 1
           /\ Unread' = Unread - 1
           /\ \A i \in 1 .. Unread' : UnreadSlot(i)' = UnreadSlot(i + 1)
<1>1. m_tail' = IF m_tail + 1 >= QueueSize THEN 0 ELSE m_tail + 1
  BY DEF Process, RxSucc
<1>2. m_head' = m_head /\ m_head # m_tail
  BY DEF Process
<1>3. QED
  BY <1>1, <1>2, QueueSizeAssumption DEF RxTypeOK, Unread, UnreadSlot, RxSlots

------------------------------------------------------------------------------
(* The newest frames are in the window: an overrun empties it, so it need   *)
(* not be told apart from an ordinary arrival.                              *)

\* The ring invariant is inductive.
LEMMA RxRingStep == RxRingInv /\ [RxNext]_rxVars => RxRingInv'
<1> SUFFICES ASSUME RxRingInv, [RxNext]_rxVars
             PROVE  NewestPending' /\ ToldOlder'
  BY RxTypeStep DEF RxRingInv
<1>t. RxTypeOK /\ RxTypeOK'
  BY RxTypeStep DEF RxRingInv
<1>s. Unread \in Nat
  BY <1>t, UnreadBounds, QueueSizeAssumption
<1>r. received \in Nat /\ \A c \in Callback : told[c] \in Nat
  BY <1>t, MaxFramesAssumption DEF RxTypeOK
<1>1. CASE Register
  BY <1>1 DEF Register, RxRingInv, NewestPending, ToldOlder, Unread, UnreadSlot
<1>2. CASE Receive
  <2>1. received' = received + 1 /\ told' = told
    BY <1>2 DEF Receive
  <2>2. NewestPending'
    <3>1. ASSUME NEW i \in 1 .. Unread', i <= Unread
          PROVE  m_queue'[UnreadSlot(i)'] + Unread' = received' + i
      <4>1. i \in 1 .. Unread /\ Unread' = Unread + 1
        BY <1>2, <1>t, <1>s, <3>1, ReceiveWindow
      <4>2. m_queue'[UnreadSlot(i)'] = m_queue[UnreadSlot(i)]
        BY <1>2, <1>t, <4>1, ReceiveWindow, UnreadBounds DEF Receive, RxTypeOK
      <4>3. m_queue[UnreadSlot(i)] \in Nat
        BY <1>t, <4>1, UnreadBounds, MaxFramesAssumption DEF RxTypeOK
      <4>4. m_queue[UnreadSlot(i)] + Unread = received + i
        BY <4>1 DEF RxRingInv, NewestPending
      <4>5. QED
        BY <1>s, <1>r, <2>1, <4>1, <4>2, <4>3, <4>4
    <3>2. ASSUME NEW i \in 1 .. Unread', ~(i <= Unread)
          PROVE  m_queue'[UnreadSlot(i)'] + Unread' = received' + i
      <4>1. i = Unread + 1 /\ Unread' = Unread + 1
        BY <1>2, <1>t, <1>s, <3>2, ReceiveWindow
      <4>2. UnreadSlot(i)' = m_head
        BY <1>2, <1>t, <1>s, <4>1, ReceiveWindow
      <4>3. m_queue'[m_head] = received'
        BY <1>2, <1>t DEF Receive, RxTypeOK
      <4>4. QED
        BY <4>1, <4>2, <4>3
    <3>3. QED
      BY <3>1, <3>2 DEF NewestPending
  <2>3. ToldOlder'
    <3>1. Unread' \in {0, Unread + 1}
      BY <1>2, <1>t, ReceiveWindow
    <3>2. ASSUME NEW c \in Callback
          PROVE  told'[c] + Unread' <= received'
      <4>1. told[c] + Unread <= received
        BY DEF RxRingInv, ToldOlder
      <4>2. QED
        BY <1>s, <1>r, <2>1, <3>1, <4>1
    <3>3. QED
      BY <3>2 DEF ToldOlder
  <2>4. QED
    BY <2>2, <2>3
<1>3. CASE Process
  <2>1. received' = received /\ m_queue' = m_queue
    BY <1>3 DEF Process
  <2>2. Unread >= 1 /\ Unread' = Unread - 1
    BY <1>3, <1>t, ProcessWindow
  <2>3. NewestPending'
    <3>1. ASSUME NEW i \in 1 .. Unread'
          PROVE  m_queue'[UnreadSlot(i)'] + Unread' = received' + i
      <4>1. i + 1 \in 1 .. Unread /\ UnreadSlot(i)' = UnreadSlot(i + 1)
        BY <1>3, <1>t, <1>s, <2>2, ProcessWindow
      <4>2. m_queue[UnreadSlot(i + 1)] + Unread = received + (i + 1)
        BY <4>1 DEF RxRingInv, NewestPending
      <4>3. m_queue[UnreadSlot(i + 1)] \in Nat
        BY <1>t, <4>1, UnreadBounds, MaxFramesAssumption DEF RxTypeOK
      <4>4. QED
        BY <1>s, <1>r, <2>1, <2>2, <4>1, <4>2, <4>3
    <3>2. QED
      BY <3>1 DEF NewestPending
  <2>4. ToldOlder'
    <3>1. m_queue[m_tail] + Unread = received + 1
      BY <1>3, <1>t, <1>s, <2>2, UnreadBounds DEF Process, RxRingInv, NewestPending
    <3>2. m_queue[m_tail] \in Nat
      BY <1>t, MaxFramesAssumption DEF RxTypeOK
    <3>3. \A c \in Callback : told'[c] = m_queue[m_tail] \/ told'[c] = told[c]
      BY <1>3 DEF Process
    <3>4. QED
      BY <1>s, <1>r, <2>1, <2>2, <3>1, <3>2, <3>3 DEF RxRingInv, ToldOlder
  <2>5. QED
    BY <2>3, <2>4
<1>4. CASE UNCHANGED rxVars
  BY <1>4 DEF rxVars, RxRingInv, NewestPending, ToldOlder, Unread, UnreadSlot
<1>5. QED
  BY <1>1, <1>2, <1>3, <1>4 DEF RxNext

\* For every size of the ring and however often it is overrun: what waits are the frames
\* that arrived last, and all that was handed on is older (sm_co_ra4m2_if.c 33-41, 151-166).
THEOREM RxRingSafe == RxSpec => []RxRingInv
<1>1. RxInit => RxRingInv
  BY InitRxRing DEF RxRingInv
<1>2. QED
  BY <1>1, RxRingStep, PTL DEF RxSpec

\* For every size of the ring: a callback is never called with a frame it has seen or
\* one older than that (sm_co_ra4m2_if.c 151-166 after any number of overruns).
THEOREM FramesComeOnce == RxSpec => OnlyNewer
<1>1. ASSUME RxRingInv, [RxNext]_rxVars, NEW c \in Callback
      PROVE  /\ told'[c] >= told[c]
             /\ c <= registered /\ m_tail' # m_tail => told'[c] > told[c]
  <2>t. RxTypeOK /\ told[c] \in Nat /\ received \in Nat
    BY <1>1, MaxFramesAssumption DEF RxRingInv, RxTypeOK
  <2>1. CASE Process
    <3>1. m_queue[m_tail] + Unread = received + 1
      BY <2>1, <2>t, <1>1, ProcessWindow, UnreadBounds, QueueSizeAssumption
      DEF Process, RxRingInv, NewestPending
    <3>2. told[c] + Unread <= received
      BY <1>1 DEF RxRingInv, ToldOlder
    <3>3. m_queue[m_tail] \in Nat /\ Unread \in Nat
      BY <2>t, UnreadBounds, MaxFramesAssumption, QueueSizeAssumption DEF RxTypeOK
    <3>4. m_queue[m_tail] > told[c]
      BY <2>t, <3>1, <3>2, <3>3
    <3>5. told'[c] = IF c <= registered THEN m_queue[m_tail] ELSE told[c]
      BY <2>1 DEF Process
    <3>6. QED
      BY <2>t, <3>3, <3>4, <3>5
  <2>2. CASE Register \/ Receive \/ UNCHANGED rxVars
    BY <2>2, <2>t DEF Register, Receive, rxVars
  <2>3. QED
    BY <1>1, <2>1, <2>2 DEF RxNext
<1>2. RxRingInv /\ [RxNext]_rxVars =>
        [\A c \in Callback : told'[c] >= told[c]
          /\ (c <= registered /\ m_tail' # m_tail => told'[c] > told[c])]_rxVars
  BY <1>1
<1>3. QED
  BY <1>2, RxRingSafe, PTL DEF RxSpec, OnlyNewer

------------------------------------------------------------------------------
(* Refinement: an arrival is an arrival, a reading tells the registered.    *)

\* What waits is a sequence of frames that have arrived.
LEMMA PendingSeq ==
    ASSUME RxTypeOK
    PROVE  /\ Pending \in Seq(0 .. MaxFrames)
           /\ Len(Pending) = Unread
           /\ \A i \in 1 .. Unread : Pending[i] = m_queue[UnreadSlot(i)]
<1>1. Unread \in Nat
  BY UnreadBounds, QueueSizeAssumption
<1>2. \A i \in 1 .. Unread : m_queue[UnreadSlot(i)] \in 0 .. MaxFrames
  BY UnreadBounds DEF RxTypeOK
<1>3. QED
  BY <1>1, <1>2 DEF Pending

\* sm_can_rx_cb is an arrival of the feed, overrun or not.
LEMMA ReceiveArrives ==
    ASSUME RxTypeOK, Receive
    PROVE  Feed!Arrive(received')
<1>1. Unread \in Nat /\ received' \in 0 .. MaxFrames
  BY UnreadBounds, QueueSizeAssumption, MaxFramesAssumption DEF Receive, RxTypeOK
<1>2. CASE Unread + 1 < QueueSize
  <2>1. Unread' = Unread + 1
    BY <1>2, ReceiveWindow
  <2>2. Pending' = [i \in 1 .. Unread + 1 |-> m_queue'[UnreadSlot(i)']]
    BY <2>1 DEF Pending
  <2>3. /\ Append(Pending, received') \in Seq(0 .. MaxFrames)
        /\ Len(Append(Pending, received')) = Unread + 1
    BY <1>1, PendingSeq, AppendProperties
  <2>4. ASSUME NEW i \in 1 .. Unread
        PROVE  m_queue'[UnreadSlot(i)'] = Append(Pending, received')[i]
    <3>1. m_queue'[UnreadSlot(i)'] = m_queue[UnreadSlot(i)]
      BY <2>4, ReceiveWindow, UnreadBounds DEF Receive, RxTypeOK
    <3>2. QED
      BY <1>1, <3>1, PendingSeq
  <2>5. m_queue'[UnreadSlot(Unread)'] = received'
    BY <1>1, <2>1, ReceiveWindow DEF Receive, RxTypeOK
  <2>6. Append(Pending, received')[Unread + 1] = received'
    BY <1>1, PendingSeq
  <2>7. ASSUME NEW i \in 1 .. Unread + 1
        PROVE  m_queue'[UnreadSlot(i)'] = Append(Pending, received')[i]
    <3>1. CASE i \in 1 .. Unread
      BY <3>1, <2>4
    <3>2. CASE i = Unread + 1
      BY <3>2, <2>1, <2>5, <2>6
    <3>3. i \in 1 .. Unread \/ i = Unread + 1
      BY <1>1
    <3>4. QED
      BY <3>1, <3>2, <3>3
  <2>8. Append(Pending, received') = [i \in 1 .. Unread + 1 |-> Append(Pending, received')[i]]
    BY <2>3, SeqAsFunction
  <2>9. Pending' = Append(Pending, received')
    BY <2>2, <2>7, <2>8
  <2>10. QED
    BY <1>2, <2>9, PendingSeq DEF Feed!Arrive, Receive
<1>3. CASE ~(Unread + 1 < QueueSize)
  <2>1. Unread' = 0
    BY <1>3, ReceiveWindow
  <2>2. Pending' = <<>>
    BY <2>1 DEF Pending
  <2>3. QED
    BY <1>3, <2>2, PendingSeq DEF Feed!Arrive, Receive
<1>4. QED
  BY <1>2, <1>3

\* sm_co_if_process tells the oldest frame to the registered callbacks.
LEMMA ProcessTells ==
    ASSUME RxTypeOK, Process
    PROVE  Feed!Tell({c \in Callback : c <= registered})
<1>1. Unread \in Nat /\ Unread >= 1 /\ Unread' = Unread - 1
  BY ProcessWindow, UnreadBounds, QueueSizeAssumption
<1>2. Pending # <<>>
  BY <1>1, PendingSeq
<1>3. Head(Pending) = m_queue[m_tail]
  BY <1>1, <1>2, PendingSeq, UnreadBounds DEF Process
<1>4. Pending' = [i \in 1 .. Unread - 1 |-> m_queue[UnreadSlot(i)']]
  BY <1>1 DEF Pending, Process
<1>5. Tail(Pending) \in Seq(0 .. MaxFrames) /\ Len(Tail(Pending)) = Unread - 1
  BY <1>1, <1>2, PendingSeq, HeadTailProperties
<1>6. ASSUME NEW i \in 1 .. Unread - 1
      PROVE  m_queue[UnreadSlot(i)'] = Tail(Pending)[i]
  BY <1>1, <1>2, <1>5, <1>6, ProcessWindow, PendingSeq, HeadTailProperties
<1>7. Tail(Pending) = [i \in 1 .. Unread - 1 |-> Tail(Pending)[i]]
  BY <1>5, SeqAsFunction
<1>8. Pending' = Tail(Pending)
  BY <1>4, <1>6, <1>7
<1>9. QED
  BY <1>2, <1>3, <1>8 DEF Feed!Tell, Process

\* Every step of the ring is a step of the feed or leaves it alone.
LEMMA StepFeeds == RxRingInv /\ [RxNext]_rxVars => [Feed!Next]_<<Pending, told>>
<1> SUFFICES ASSUME RxRingInv, [RxNext]_rxVars
             PROVE  [Feed!Next]_<<Pending, told>>
  OBVIOUS
<1>t. RxTypeOK
  BY DEF RxRingInv
<1>1. CASE Register
  BY <1>1 DEF Register, Pending, Unread, UnreadSlot
<1>2. CASE Receive
  <2>1. received' \in 1 .. MaxFrames
    BY <1>2, <1>t, MaxFramesAssumption DEF Receive, RxTypeOK
  <2>2. QED
    BY <1>2, <1>t, <2>1, ReceiveArrives DEF Feed!Next
<1>3. CASE Process
  <2>1. {c \in Callback : c <= registered} \in SUBSET Callback
    OBVIOUS
  <2>2. QED
    BY <1>3, <1>t, <2>1, ProcessTells DEF Feed!Next
<1>4. CASE UNCHANGED rxVars
  BY <1>4 DEF rxVars, Pending, Unread, UnreadSlot
<1>5. QED
  BY <1>1, <1>2, <1>3, <1>4 DEF RxNext

\* For every size of the ring and any number of callbacks: the ring is a feed that
\* loses frames only when it fills, and then all it holds.
THEOREM RingFeeds == RxSpec => FeedSpec
<1>1. RxInit => Feed!Init
  BY QueueSizeAssumption DEF RxInit, Feed!Init, Pending, Unread
<1>2. QED
  BY <1>1, RxRingSafe, StepFeeds, PTL DEF RxSpec, FeedSpec, Feed!Spec
==============================================================================
