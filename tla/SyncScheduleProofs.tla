------------------------- MODULE SyncScheduleProofs --------------------------
(***************************************************************************)
(* SyncSchedule for any nodes, objects, slots and masks, any delay and any *)
(* period that leaves room for it: the invariant that every SYNC is done   *)
(* with before the next one, and from it that the bus keeps the timetable. *)
(***************************************************************************)
EXTENDS SyncSchedule, TLAPS

\* What the proofs use of the constants.
LEMMA Sizes ==
    /\ Producer \in Node /\ Owner \in [Tpdo -> Node]
    /\ MaxCounter \in Nat /\ MaxCounter >= 1 /\ MaxAux \in Nat
    /\ Delay \in Nat /\ Period \in Nat /\ MaxIndex \in Nat /\ Switches \in Nat
    /\ Period >= Delay + 3 /\ MaxIndex >= Period
  BY ScheduleAssumption

\* CO_SYNC.c 58-67 without the modulus: one further, or at the end of the word.
LEMMA AdvancedValue ==
    ASSUME NEW i \in 0 .. MaxIndex
    PROVE  /\ Advanced(i) = IF i < MaxIndex THEN i + 1 ELSE i
           /\ Advanced(i) \in 0 .. MaxIndex
  <1>1. CASE i < MaxIndex
    <2>1. (i + 1) % (MaxIndex + 1) = i + 1
      BY <1>1, Sizes
    <2>2. QED
      BY <1>1, <2>1, Sizes DEF Advanced
  <1>2. CASE i = MaxIndex
    <2>1. (i + 1) % (MaxIndex + 1) = 0
      BY <1>2, Sizes
    <2>2. QED
      BY <1>2, <2>1, Sizes DEF Advanced
  <1>3. QED
    BY <1>1, <1>2, Sizes

\* The steps of Next, with the call that makes each.
LEMMA Steps ==
    ASSUME Next
    PROVE  \/ \E n \in Node : Generate(n) \/ Take(n) \/ Count(n) \/ Unscheduled(n)
           \/ \E n \in Node : Receive(n) \/ Lose(n) \/ SwitchMode(n)
           \/ Tick
           \/ \E t \in Tpdo : SendRequest(t)
  BY DEF Next, Process

------------------------------------------------------------------------------
(* Types *)

\* What CO_TPDO_process does keeps the types.
LEMMA ServeType ==
    ASSUME TypeOK, NEW n \in Node, ServeTpdos(n) \/ NoTpdos
    PROVE  send_request' \subseteq Tpdo /\ sends' \in [Tpdo -> 0 .. 2]
  <1>1. CASE ServeTpdos(n)
    BY <1>1 DEF TypeOK, ServeTpdos, Twice
  <1>2. CASE NoTpdos
    BY <1>2 DEF TypeOK, NoTpdos
  <1>3. QED
    BY <1>1, <1>2

\* CO_SYNC_init and CO_TPDO_init.
LEMMA InitType == Init => TypeOK
  BY Sizes DEF Init, TypeOK, Consumer

\* Every step keeps the types.
LEMMA TypeStep == TypeOK /\ [Next]_vars => TypeOK'
<1> SUFFICES ASSUME TypeOK, [Next]_vars
             PROVE  TypeOK'
  OBVIOUS
<1>1. ASSUME NEW n \in Node, Generate(n)
      PROVE  TypeOK'
  <2>1. /\ sync_counter' \in [Node -> 0 .. MaxCounter]
        /\ aux_sync_counter' \in [Node -> 0 .. MaxAux]
    BY <1>1, Sizes DEF Generate, TypeOK
  <2>2. aux_sync_reg' \in [Node -> SUBSET (0 .. MaxAux)]
    BY <1>1, Sizes DEF Generate, TypeOK
  <2>3. index_in_cycle' \in [Node -> 0 .. MaxIndex]
    BY <1>1, Sizes DEF Generate, TypeOK
  <2>4. QED
    BY <1>1, <2>1, <2>2, <2>3 DEF Generate, Turns, msgVars, TypeOK
<1>2. ASSUME NEW n \in Node, Take(n)
      PROVE  TypeOK'
  <2>1. index_in_cycle' \in [Node -> 0 .. MaxIndex]
    BY <1>2, Sizes DEF Take, TypeOK
  <2>2. QED
    BY <1>2, <2>1, ServeType DEF Take, Turns, TypeOK
<1>3. ASSUME NEW n \in Node, Count(n)
      PROVE  TypeOK'
  <2>1. index_in_cycle' \in [Node -> 0 .. MaxIndex]
    BY <1>3, AdvancedValue DEF Count, TypeOK
  <2>2. send_request' \subseteq Tpdo /\ sends' \in [Tpdo -> 0 .. 2]
    BY <1>3, ServeType DEF Count
  <2>3. QED
    BY <1>3, <2>1, <2>2 DEF Count, Turns, msgVars, TypeOK
<1>4. ASSUME NEW n \in Node, Unscheduled(n)
      PROVE  TypeOK'
  <2>1. send_request' \subseteq Tpdo /\ sends' \in [Tpdo -> 0 .. 2]
    BY <1>4, ServeType DEF Unscheduled
  <2>2. QED
    BY <1>4, <2>1 DEF Unscheduled, Turns, cycleVars, msgVars, TypeOK
<1>5. ASSUME NEW n \in Node, Receive(n) \/ Lose(n)
      PROVE  TypeOK'
  BY <1>5, Sizes DEF Receive, Lose, cycleVars, msgVars, TypeOK
<1>6. ASSUME NEW n \in Node, SwitchMode(n)
      PROVE  TypeOK'
  BY <1>6, Sizes DEF SwitchMode, cycleVars, msgVars, TypeOK
<1>7. CASE Tick
  BY <1>7 DEF Tick, cycleVars, msgVars, TypeOK
<1>8. ASSUME NEW t \in Tpdo, SendRequest(t)
      PROVE  TypeOK'
  BY <1>8 DEF SendRequest, cycleVars, msgVars, TypeOK
<1>9. CASE UNCHANGED vars
  BY <1>9 DEF vars, cycleVars, msgVars, TypeOK
<1>10. QED
  BY <1>1, <1>2, <1>3, <1>4, <1>5, <1>6, <1>7, <1>8, <1>9, Steps

------------------------------------------------------------------------------
(* One SYNC at a time.  The cycle is long enough for a late SYNC to be      *)
(* received, taken and acted upon at three ticks of its node.               *)

Good(n) == InTime(n) /\ OneAtATime(n) /\ Current(n) /\ Unsent(n)

\* Elapsed counts milliseconds from zero.
LEMMA ElapsedValue ==
    ASSUME TypeOK
    PROVE  /\ index_in_cycle[Producer] \in Nat /\ Elapsed \in Nat
           /\ Producer \in due => Elapsed = index_in_cycle[Producer] + 1
           /\ Producer \notin due => Elapsed = index_in_cycle[Producer]
  BY Sizes DEF TypeOK, Elapsed

\* The producer begins a cycle (CO_SYNC.c 69-85) when all of the last is over.
LEMMA CycleOver ==
    ASSUME TypeOK, OneSyncAtATime, InSync, NEW m \in Node, Generate(m)
    PROVE  /\ m = Producer
           /\ \A n \in Node : n \notin wire /\ ~is_new[n] /\ ~Ready(n)
<1>1. m = Producer /\ m \in due /\ Advanced(index_in_cycle[m]) >= Period
  BY DEF Generate, Turns
<1>2. index_in_cycle[Producer] \in 0 .. MaxIndex /\ index_in_cycle[Producer] < Period
  BY Sizes DEF OneSyncAtATime, TypeOK
<1>3. Elapsed >= Period
  BY <1>1, <1>2, AdvancedValue, ElapsedValue, Sizes
<1>4. Elapsed > Delay + 2
  BY <1>3, ElapsedValue, Sizes
<1>5. ASSUME NEW n \in Node
      PROVE  n \notin wire /\ ~is_new[n] /\ ~Ready(n)
  <2>1. InTime(n)
    BY DEF OneSyncAtATime
  <2>2. QED
    BY <1>4, <2>1, ElapsedValue, Sizes DEF InTime
<1>6. QED
  BY <1>1, <1>5

\* The producer's new counters are those of a slot (CO_SYNC.c 73-81).
LEMMA NewSlot ==
    ASSUME TypeOK, NEW m \in Node, Generate(m)
    PROVE  /\ sync_counter' = [sync_counter EXCEPT ![m] = sync_counter'[m]]
           /\ aux_sync_counter' = [aux_sync_counter EXCEPT ![m] = aux_sync_counter'[m]]
           /\ sync_counter'[m] \in 1 .. MaxCounter
           /\ \/ aux_sync_reg' = aux_sync_reg /\ aux_sync_counter'[m] = aux_sync_counter[m]
              \/ aux_sync_reg' = [aux_sync_reg EXCEPT ![m] = {aux_sync_counter'[m]}]
<1> DEFINE wraps == sync_counter[m] + 1 > MaxCounter
           aux == IF ~wraps THEN aux_sync_counter[m]
                  ELSE IF aux_sync_counter[m] + 1 > MaxAux THEN 0
                  ELSE aux_sync_counter[m] + 1
<1>1. /\ sync_counter' = [sync_counter EXCEPT ![m] = IF wraps THEN 1 ELSE @ + 1]
      /\ aux_sync_counter' = [aux_sync_counter EXCEPT ![m] = aux]
      /\ aux_sync_reg' = IF wraps THEN [aux_sync_reg EXCEPT ![m] = {aux}] ELSE aux_sync_reg
  BY DEF Generate
<1>2. sync_counter'[m] = IF wraps THEN 1 ELSE sync_counter[m] + 1
  BY <1>1 DEF TypeOK
<1>3. aux_sync_counter'[m] = aux
  BY <1>1 DEF TypeOK
<1>4. sync_counter'[m] \in 1 .. MaxCounter
  BY <1>2, Sizes DEF TypeOK
<1>5. sync_counter' = [sync_counter EXCEPT ![m] = sync_counter'[m]]
  BY <1>1, <1>2
<1>6. aux_sync_counter' = [aux_sync_counter EXCEPT ![m] = aux_sync_counter'[m]]
  BY <1>1, <1>3
<1>7. CASE wraps
  <2>1. aux_sync_reg' = [aux_sync_reg EXCEPT ![m] = {aux_sync_counter'[m]}]
    BY <1>1, <1>3, <1>7
  <2>2. QED
    BY <1>4, <1>5, <1>6, <2>1
<1>8. CASE ~wraps
  <2>1. aux_sync_reg' = aux_sync_reg /\ aux_sync_counter'[m] = aux_sync_counter[m]
    BY <1>1, <1>3, <1>8
  <2>2. QED
    BY <1>4, <1>5, <1>6, <2>1
<1>9. QED
  BY <1>7, <1>8

\* A cycle begins at the producer and all is still to be done.
LEMMA GenerateGood ==
    ASSUME TypeOK, TypeOK', OneSyncAtATime, InSync, NEW m \in Node, Generate(m), NEW n \in Node
    PROVE  Good(n)' /\ index_in_cycle'[Producer] = 0
<1>1. /\ m = Producer /\ n \notin wire /\ ~is_new[n] /\ ~Ready(n)
      /\ OneAtATime(n) /\ Current(n)
  BY CycleOver DEF OneSyncAtATime
<1>2. index_in_cycle' = [index_in_cycle EXCEPT ![Producer] = 0] /\ due' = due \ {Producer}
  BY <1>1 DEF Generate, Turns
<1>3. index_in_cycle'[Producer] = 0 /\ Elapsed' = 0
  BY <1>2, Sizes DEF TypeOK, Elapsed
<1>4. wire' = Consumer /\ is_new' = is_new /\ sends' = [t \in Tpdo |-> 0]
  BY DEF Generate, msgVars
<1>5. InTime(n)'
  BY <1>3, Sizes DEF InTime
<1>6. Unsent(n)'
  BY <1>4 DEF Unsent
<1>7. sync_counter'[Producer] # 0
  BY <1>1, NewSlot
<1>8. CASE n = Producer
  <2>1. n \notin wire' /\ ~is_new'[n]
    BY <1>1, <1>4, <1>8 DEF Consumer
  <2>2. OneAtATime(n)'
    BY <2>1 DEF OneAtATime
  <2>3. aux_sync_reg'[n] \subseteq {aux_sync_counter'[n]}
    BY <1>1, <1>8, NewSlot DEF TypeOK, Current
  <2>4. Current(n)'
    BY <1>7, <1>8, <2>1, <2>3 DEF Current
  <2>5. QED
    BY <1>3, <1>5, <1>6, <2>2, <2>4 DEF Good
<1>9. CASE n # Producer
  <2>1. /\ index_in_cycle'[n] = index_in_cycle[n] /\ sync_counter'[n] = sync_counter[n]
        /\ aux_sync_counter'[n] = aux_sync_counter[n] /\ aux_sync_reg'[n] = aux_sync_reg[n]
    BY <1>1, <1>2, <1>9, NewSlot DEF TypeOK
  <2>2. ~Ready(n)' /\ ~is_new'[n]
    BY <1>1, <1>4, <2>1 DEF Ready
  <2>3. OneAtATime(n)'
    BY <2>2 DEF OneAtATime
  <2>4. Current(n)'
    BY <1>1, <1>7, <2>1, <2>2 DEF Current
  <2>5. QED
    BY <1>3, <1>5, <1>6, <2>3, <2>4 DEF Good
<1>10. QED
  BY <1>8, <1>9

\* What a step leaves of a node whose own state it does not touch.
LEMMA GoodKept ==
    ASSUME NEW n \in Node, Good(n), Elapsed' = Elapsed,
           n \in due' <=> n \in due, n \in wire' => n \in wire, is_new'[n] = is_new[n],
           msg_counter'[n] = msg_counter[n], msg_aux'[n] = msg_aux[n],
           index_in_cycle'[n] = index_in_cycle[n], sync_counter'[n] = sync_counter[n],
           aux_sync_counter'[n] = aux_sync_counter[n], aux_sync_reg'[n] = aux_sync_reg[n],
           sync_counter'[Producer] = sync_counter[Producer],
           aux_sync_counter'[Producer] = aux_sync_counter[Producer],
           \A t \in Tpdo : Owner[t] = n => sends'[t] = sends[t]
    PROVE  Good(n)'
<1>1. Ready(n)' <=> Ready(n)
  BY DEF Ready
<1>2. InTime(n)'
  BY <1>1 DEF Good, InTime
<1>3. OneAtATime(n)'
  BY <1>1 DEF Good, OneAtATime
<1>4. Current(n)'
  BY <1>1 DEF Good, Current
<1>5. Unsent(n)'
  BY <1>1 DEF Good, Unsent
<1>6. QED
  BY <1>2, <1>3, <1>4, <1>5 DEF Good

\* A consumer takes a SYNC (CO_SYNC.c 88-95): it is the last produced.
LEMMA TakeGood ==
    ASSUME TypeOK, NEW m \in Node, Take(m), NEW n \in Node, Good(n)
    PROVE  Good(n)' /\ index_in_cycle'[Producer] = index_in_cycle[Producer]
<1>1. /\ m # Producer /\ m \in due /\ is_new[m] /\ due' = due \ {m} /\ wire' = wire
      /\ sends' = sends
  BY DEF Take, Turns, Consumer, NoTpdos
<1>2. /\ index_in_cycle' = [index_in_cycle EXCEPT ![m] = 0]
      /\ sync_counter' = [sync_counter EXCEPT ![m] = msg_counter[m]]
      /\ aux_sync_counter' = [aux_sync_counter EXCEPT ![m] = msg_aux[m]]
      /\ aux_sync_reg' = [aux_sync_reg EXCEPT ![m] = {msg_aux[m]}]
      /\ is_new' = [is_new EXCEPT ![m] = FALSE]
      /\ msg_counter' = msg_counter /\ msg_aux' = msg_aux
  BY DEF Take
<1>3. /\ index_in_cycle'[Producer] = index_in_cycle[Producer]
      /\ sync_counter'[Producer] = sync_counter[Producer]
      /\ aux_sync_counter'[Producer] = aux_sync_counter[Producer]
  BY <1>1, <1>2, Sizes DEF TypeOK
<1>4. Elapsed' = Elapsed
  BY <1>1, <1>3 DEF Elapsed
<1>5. CASE n # m
  <2>1. /\ index_in_cycle'[n] = index_in_cycle[n] /\ sync_counter'[n] = sync_counter[n]
        /\ aux_sync_counter'[n] = aux_sync_counter[n] /\ aux_sync_reg'[n] = aux_sync_reg[n]
        /\ is_new'[n] = is_new[n]
    BY <1>2, <1>5 DEF TypeOK
  <2>2. n \in due' <=> n \in due
    BY <1>1, <1>5
  <2>3. QED
    BY <1>1, <1>2, <1>3, <1>4, <2>1, <2>2, GoodKept
<1>6. CASE n = m
  <2>1. /\ n \notin due' /\ n \notin wire' /\ ~is_new'[n]
    BY <1>1, <1>2, <1>6 DEF TypeOK, Good, OneAtATime
  <2>2. /\ sync_counter'[n] = sync_counter'[Producer] /\ sync_counter'[n] # 0
        /\ aux_sync_counter'[n] = aux_sync_counter'[Producer]
        /\ aux_sync_reg'[n] = {aux_sync_counter'[n]}
    BY <1>1, <1>2, <1>3, <1>6 DEF TypeOK, Good, Current
  <2>3. InTime(n)'
    BY <1>1, <1>4, <1>6, <2>1, Sizes, ElapsedValue DEF Good, InTime
  <2>4. Current(n)' /\ OneAtATime(n)'
    BY <2>1, <2>2 DEF Current, OneAtATime
  <2>5. Unsent(n)'
    BY <1>1, <1>6 DEF Good, Unsent
  <2>6. QED
    BY <1>3, <2>3, <2>4, <2>5 DEF Good
<1>7. QED
  BY <1>5, <1>6

\* Nothing is sent cyclically at a tick that is not for a SYNC (CO.c 32, CO_TPDO.c 112).
LEMMA CountSends ==
    ASSUME TypeOK, NEW m \in Node, Count(m), Good(m)
    PROVE  /\ \A t \in Tpdo : Owner[t] # m => sends'[t] = sends[t]
           /\ ~Ready(m) => \A t \in Tpdo : sends'[t] = sends[t]
<1>1. CASE NoTpdos
  BY <1>1 DEF NoTpdos
<1>2. CASE ServeTpdos(m) /\ Advanced(index_in_cycle[m]) = 1
  <2>1. \A t \in Tpdo : t \notin Cyclic(m) => sends'[t] = sends[t]
    BY <1>2 DEF ServeTpdos
  <2>2. index_in_cycle[m] \in 0 .. MaxIndex
    BY DEF TypeOK
  <2>3. index_in_cycle[m] = 0
    BY <1>2, <2>2, AdvancedValue, Sizes
  <2>4. ~Ready(m) => Cyclic(m) = {}
    BY <2>3 DEF Ready, Good, Current, Cyclic, TurnAt
  <2>5. QED
    BY <2>1, <2>4 DEF Cyclic
<1>3. QED
  BY <1>1, <1>2 DEF Count

\* In the middle of a cycle (CO_SYNC.c 58-67): the tick for the TPDOs is over.
LEMMA CountGood ==
    ASSUME TypeOK, OneSyncAtATime, InSync, NEW m \in Node, Count(m), NEW n \in Node
    PROVE  Good(n)' /\ index_in_cycle'[Producer] < Period
<1>g. Good(n) /\ Good(m) /\ index_in_cycle[Producer] < Period
  BY DEF OneSyncAtATime, Good
<1>1. /\ m \in due /\ due' = due \ {m} /\ wire' = wire /\ is_new' = is_new
      /\ sync_counter' = sync_counter /\ aux_sync_counter' = aux_sync_counter
      /\ aux_sync_reg' = aux_sync_reg /\ msg_counter' = msg_counter /\ msg_aux' = msg_aux
      /\ index_in_cycle' = [index_in_cycle EXCEPT ![m] = Advanced(index_in_cycle[m])]
  BY DEF Count, Turns, msgVars
<1>2. index_in_cycle[m] \in 0 .. MaxIndex /\ index_in_cycle'[m] = Advanced(index_in_cycle[m])
  BY <1>1 DEF TypeOK
<1>3. index_in_cycle'[m] # 0
  BY <1>2, AdvancedValue, Sizes
<1>4. Elapsed' = Elapsed /\ index_in_cycle'[Producer] < Period
  <2>1. CASE m = Producer
    <3>1. Advanced(index_in_cycle[m]) < Period
      BY <2>1 DEF Count
    <3>2. index_in_cycle'[Producer] = index_in_cycle[Producer] + 1
      BY <1>g, <1>2, <2>1, AdvancedValue, Sizes
    <3>3. QED
      BY <1>1, <1>2, <2>1, <3>1, <3>2 DEF Elapsed
  <2>2. CASE m # Producer
    BY <1>g, <1>1, <2>2, Sizes DEF TypeOK, Elapsed
  <2>3. QED
    BY <2>1, <2>2
<1>5. CASE n # m
  <2>1. index_in_cycle'[n] = index_in_cycle[n] /\ (n \in due' <=> n \in due)
    BY <1>1, <1>5 DEF TypeOK
  <2>2. \A t \in Tpdo : Owner[t] = n => sends'[t] = sends[t]
    BY <1>g, <1>5, CountSends
  <2>3. QED
    BY <1>g, <1>1, <1>4, <2>1, <2>2, GoodKept
<1>6. CASE n = m
  <2>1. ~Ready(n)'
    BY <1>3, <1>6 DEF Ready
  <2>2. ~is_new[n]
    BY <1>g, <1>6 DEF Count, Good, OneAtATime, Consumer
  <2>3. InTime(n)' /\ OneAtATime(n)'
    BY <1>g, <1>1, <1>4, <2>1, <2>2 DEF Good, InTime, OneAtATime
  <2>4. Current(n)'
    BY <1>g, <1>1, <2>1, <2>2 DEF Good, Current
  <2>5. Unsent(n)'
    <3>1. n \in wire' => ~Ready(n) /\ \A t \in Tpdo : Owner[t] = n => sends[t] = 0
      BY <1>g, <1>1 DEF Good, OneAtATime, Unsent
    <3>2. QED
      BY <1>g, <1>1, <1>6, <2>1, <2>2, <3>1, CountSends DEF Unsent
  <2>6. QED
    BY <1>4, <2>3, <2>4, <2>5 DEF Good
<1>7. QED
  BY <1>5, <1>6

\* A SYNC arrives, or not; it is still the last one.
LEMMA BusGood ==
    ASSUME TypeOK, NEW m \in Node, Receive(m) \/ Lose(m), NEW n \in Node, Good(n)
    PROVE  Good(n)' /\ index_in_cycle'[Producer] = index_in_cycle[Producer]
<1>1. /\ m \in wire /\ wire' = wire \ {m} /\ due' = due /\ sends' = sends
      /\ index_in_cycle' = index_in_cycle /\ sync_counter' = sync_counter
      /\ aux_sync_counter' = aux_sync_counter /\ aux_sync_reg' = aux_sync_reg
  BY DEF Receive, Lose, cycleVars
<1>2. Elapsed' = Elapsed /\ (Ready(n)' <=> Ready(n))
  BY <1>1 DEF Elapsed, Ready
<1>3. CASE n = m /\ Receive(m)
  <2>1. /\ is_new'[n] /\ msg_counter'[n] = sync_counter[Producer]
        /\ msg_aux'[n] = aux_sync_counter[Producer] /\ n \notin wire' /\ n \in Consumer
    BY <1>1, <1>3 DEF Receive, TypeOK
  <2>2. ~Ready(n) /\ Elapsed <= Delay
    BY <1>1, <1>3 DEF Good, OneAtATime, InTime
  <2>3. InTime(n)'
    BY <1>2, <2>1, <2>2, Sizes, ElapsedValue DEF InTime
  <2>4. OneAtATime(n)'
    BY <1>2, <2>1, <2>2 DEF OneAtATime
  <2>5. Current(n)'
    BY <1>1, <1>2, <1>3, <2>1, <2>2 DEF Good, Current
  <2>6. Unsent(n)'
    BY <1>1, <1>3 DEF Good, Unsent
  <2>7. QED
    BY <1>1, <2>3, <2>4, <2>5, <2>6 DEF Good
<1>4. CASE ~(n = m /\ Receive(m))
  <2>1. /\ is_new'[n] = is_new[n] /\ msg_counter'[n] = msg_counter[n]
        /\ msg_aux'[n] = msg_aux[n]
    BY <1>4 DEF Receive, Lose, msgVars, TypeOK
  <2>2. QED
    BY <1>1, <1>2, <2>1, GoodKept
<1>5. QED
  BY <1>3, <1>4

\* A millisecond more, which no SYNC that has waited Delay allows.
LEMMA TickGood ==
    ASSUME TypeOK, Tick, NEW n \in Node, Good(n)
    PROVE  Good(n)' /\ index_in_cycle'[Producer] = index_in_cycle[Producer]
<1>1. /\ due = {} /\ due' = Node /\ wire' = wire /\ is_new' = is_new /\ sends' = sends
      /\ msg_counter' = msg_counter /\ msg_aux' = msg_aux
      /\ index_in_cycle' = index_in_cycle /\ sync_counter' = sync_counter
      /\ aux_sync_counter' = aux_sync_counter /\ aux_sync_reg' = aux_sync_reg
      /\ (wire = {} \/ index_in_cycle[Producer] < Delay)
  BY DEF Tick, cycleVars, msgVars
<1>2. Elapsed = index_in_cycle[Producer] /\ Elapsed' = index_in_cycle[Producer] + 1
  BY <1>1, Sizes DEF Elapsed, TypeOK
<1>3. Ready(n)' <=> Ready(n)
  BY <1>1 DEF Ready
<1>4. InTime(n)'
  <2>1. n \in wire' => Elapsed' <= Delay
    BY <1>1, <1>2, Sizes, ElapsedValue
  <2>2. is_new'[n] => Elapsed' <= Delay + 1
    BY <1>1, <1>2, Sizes, ElapsedValue DEF Good, InTime
  <2>3. Ready(n)' => Elapsed' <= Delay + 2
    BY <1>1, <1>2, <1>3, Sizes, ElapsedValue DEF Good, InTime
  <2>4. QED
    BY <1>1, <2>1, <2>2, <2>3 DEF InTime
<1>5. OneAtATime(n)' /\ Current(n)' /\ Unsent(n)'
  BY <1>1, <1>3 DEF Good, OneAtATime, Current, Unsent
<1>6. QED
  BY <1>1, <1>4, <1>5 DEF Good

\* While no node has left sync mode the invariant is kept by every step.
LEMMA SyncStep == TypeOK /\ TypeOK' /\ OneSyncAtATime /\ [Next]_vars => OneSyncAtATime'
<1> SUFFICES ASSUME TypeOK, TypeOK', OneSyncAtATime, [Next]_vars, InSync',
                    NEW n \in Node
             PROVE  index_in_cycle'[Producer] < Period /\ valid'[n] /\ Good(n)'
  BY Sizes DEF OneSyncAtATime, Good
<1>s. UNCHANGED switches \/ switches' = switches + 1
  BY Steps DEF Generate, Take, Count, Unscheduled, Turns, Receive, Lose, SwitchMode, Tick,
               SendRequest, vars
<1>i. InSync /\ switches' = switches
  BY <1>s, Sizes DEF InSync, TypeOK
<1>g. /\ index_in_cycle[Producer] < Period /\ valid[n] /\ Good(n)
      /\ \A m \in Node : valid[m]
  BY <1>i DEF OneSyncAtATime, Good
<1>1. ASSUME NEW m \in Node, Generate(m)
      PROVE  index_in_cycle'[Producer] < Period /\ valid'[n] /\ Good(n)'
  <2>1. Good(n)' /\ index_in_cycle'[Producer] = 0
    BY <1>1, <1>i, GenerateGood
  <2>2. valid' = valid
    BY <1>1 DEF Generate
  <2>3. QED
    BY <1>g, <2>1, <2>2, Sizes
<1>2. ASSUME NEW m \in Node, Take(m)
      PROVE  index_in_cycle'[Producer] < Period /\ valid'[n] /\ Good(n)'
  <2>1. valid' = valid
    BY <1>2 DEF Take
  <2>2. QED
    BY <1>2, <1>g, <2>1, TakeGood
<1>3. ASSUME NEW m \in Node, Count(m)
      PROVE  index_in_cycle'[Producer] < Period /\ valid'[n] /\ Good(n)'
  <2>1. valid' = valid
    BY <1>3 DEF Count
  <2>2. QED
    BY <1>3, <1>g, <1>i, <2>1, CountGood
<1>4. ASSUME NEW m \in Node, Receive(m) \/ Lose(m)
      PROVE  index_in_cycle'[Producer] < Period /\ valid'[n] /\ Good(n)'
  <2>1. valid' = valid
    BY <1>4 DEF Receive, Lose
  <2>2. QED
    BY <1>4, <1>g, <2>1, BusGood
<1>5. CASE Tick
  <2>1. valid' = valid
    BY <1>5 DEF Tick
  <2>2. QED
    BY <1>5, <1>g, <2>1, TickGood
<1>6. ASSUME UNCHANGED vars \/ \E t \in Tpdo : SendRequest(t)
      PROVE  index_in_cycle'[Producer] < Period /\ valid'[n] /\ Good(n)'
  <2>1. UNCHANGED <<due, wire, valid, cycleVars, msgVars, sends>>
    BY <1>6 DEF vars, SendRequest
  <2>2. Elapsed' = Elapsed
    BY <2>1 DEF Elapsed, cycleVars
  <2>3. Good(n)'
    BY <1>g, <2>1, <2>2, GoodKept DEF cycleVars, msgVars
  <2>4. QED
    BY <1>g, <2>1, <2>3 DEF cycleVars
<1>7. \A m \in Node : ~Unscheduled(m) /\ ~SwitchMode(m)
  BY <1>g, <1>i, Sizes DEF Unscheduled, SwitchMode, TypeOK
<1>8. QED
  BY <1>1, <1>2, <1>3, <1>4, <1>5, <1>6, <1>7, Steps

\* At power-up no SYNC is about.
LEMMA InitSync == Init => OneSyncAtATime
<1> SUFFICES ASSUME Init
             PROVE  OneSyncAtATime
  OBVIOUS
<1>1. index_in_cycle[Producer] < Period
  BY Sizes DEF Init
<1>2. ASSUME NEW n \in Node
      PROVE  valid[n] /\ InTime(n) /\ OneAtATime(n) /\ Current(n) /\ Unsent(n)
  <2>1. n \notin wire /\ ~is_new[n] /\ ~Ready(n) /\ valid[n] /\ aux_sync_reg[n] = {}
    BY DEF Init, Ready
  <2>2. QED
    BY <2>1 DEF InTime, OneAtATime, Current, Unsent
<1>3. QED
  BY <1>1, <1>2 DEF OneSyncAtATime

\* For any nodes, slots and masks, and every period that is three ticks longer than the
\* longest delay: while no node has left sync mode, each SYNC is done with at every node
\* before the next one, in whatever order the nodes' timers fire.
THEOREM ScheduleSafe == Spec => []ScheduleInv
<1>1. Init => ScheduleInv
  BY InitType, InitSync DEF ScheduleInv
<1>2. ScheduleInv /\ [Next]_vars => ScheduleInv'
  BY TypeStep, SyncStep DEF ScheduleInv
<1>3. QED
  BY <1>1, <1>2, PTL DEF Spec

------------------------------------------------------------------------------
(* The timetable: a SYNC is its next slot, the tick after one its speakers. *)

\* A cyclic TPDO is sent in its turn, and had not been sent in this slot.
LEMMA CyclicTurn ==
    ASSUME TypeOK, NEW n \in Node, Good(n), Ready(n), NEW t \in Cyclic(n)
    PROVE  t \in Tpdo /\ Table!MyTurn(t) /\ sends[t] = 0
<1>1. t \in Tpdo /\ Owner[t] = n /\ sync_counter[n] = Slot[t] /\ aux_sync_reg[n] \cap Mask[t] # {}
  BY DEF Cyclic, TurnAt
<1>2. sync_counter[Producer] = Slot[t] /\ aux_sync_counter[Producer] \in Mask[t]
  BY <1>1 DEF Good, Current
<1>3. sends[t] = 0
  BY <1>1 DEF Good, Unsent
<1>4. QED
  BY <1>1, <1>2, <1>3 DEF Table!MyTurn

\* The producer's counters are the next slot of the table (CO_SYNC.c 73-81).
LEMMA GenerateTable ==
    ASSUME TypeOK, NEW m \in Node, Generate(m)
    PROVE  Table!NextSlot
<1>1. m = Producer /\ sends' = [t \in Tpdo |-> 0]
  BY DEF Generate
<1>2. sync_counter'[m] = IF sync_counter[m] < MaxCounter THEN sync_counter[m] + 1 ELSE 1
  BY Sizes DEF Generate, TypeOK
<1>3. aux_sync_counter'[m] = IF sync_counter[m] < MaxCounter THEN aux_sync_counter[m]
                             ELSE IF aux_sync_counter[m] < MaxAux
                                  THEN aux_sync_counter[m] + 1 ELSE 0
  BY Sizes DEF Generate, TypeOK
<1>4. QED
  BY <1>1, <1>2, <1>3 DEF Table!NextSlot

\* The TPDOs sent at a tick speak in their turn.
LEMMA CountTable ==
    ASSUME TypeOK, NEW m \in Node, Good(m), Count(m)
    PROVE  Table!Next \/ UNCHANGED Table!vars
<1>1. sync_counter' = sync_counter /\ aux_sync_counter' = aux_sync_counter
  BY DEF Count
<1>2. CASE Ready(m) /\ ServeTpdos(m)
  <2>1. Cyclic(m) \in SUBSET {t \in Tpdo : Table!MyTurn(t) /\ sends[t] = 0}
    BY <1>2, CyclicTurn
  <2>2. sends' = [t \in Tpdo |-> IF t \in Cyclic(m) THEN 1 ELSE sends[t]]
    BY <1>2, <2>1 DEF ServeTpdos, Twice
  <2>3. Table!Speak
    BY <1>1, <2>1, <2>2 DEF Table!Speak
  <2>4. QED
    BY <2>3 DEF Table!Next
<1>3. CASE ~(Ready(m) /\ ServeTpdos(m))
  <2>1. \A t \in Tpdo : sends'[t] = sends[t]
    BY <1>3, CountSends DEF Count, NoTpdos
  <2>2. sends' = sends
    <3>1. sends' = [t \in Tpdo |-> sends'[t]] /\ sends = [t \in Tpdo |-> sends[t]]
      BY DEF TypeOK, Count, ServeTpdos, NoTpdos
    <3>2. QED
      BY <2>1, <3>1
  <2>3. QED
    BY <1>1, <2>2 DEF Table!vars
<1>4. QED
  BY <1>2, <1>3

\* Every step, while no node has left sync mode, is one of the timetable's or none.
LEMMA StepTable ==
    ScheduleInv /\ [Next]_vars => [InSync' => Table!Next \/ UNCHANGED Table!vars]_vars
<1> SUFFICES ASSUME ScheduleInv, [Next]_vars, InSync'
             PROVE  Table!Next \/ UNCHANGED Table!vars
  OBVIOUS
<1>t. TypeOK /\ OneSyncAtATime
  BY DEF ScheduleInv
<1>s. UNCHANGED switches \/ switches' = switches + 1
  BY Steps DEF Generate, Take, Count, Unscheduled, Turns, Receive, Lose, SwitchMode, Tick,
               SendRequest, vars
<1>i. InSync /\ switches' = switches
  BY <1>s, <1>t, Sizes DEF InSync, TypeOK
<1>g. \A m \in Node : valid[m] /\ Good(m)
  BY <1>i, <1>t DEF OneSyncAtATime, Good
<1>1. ASSUME NEW m \in Node, Generate(m)
      PROVE  Table!Next
  BY <1>1, <1>t, GenerateTable DEF Table!Next
<1>2. ASSUME NEW m \in Node, Count(m)
      PROVE  Table!Next \/ UNCHANGED Table!vars
  BY <1>2, <1>t, <1>g, CountTable
<1>3. ASSUME NEW m \in Node, Take(m)
      PROVE  UNCHANGED Table!vars
  <2>1. sends' = sends /\ m # Producer
    BY <1>3 DEF Take, NoTpdos, Consumer
  <2>2. /\ sync_counter' = [sync_counter EXCEPT ![m] = msg_counter[m]]
        /\ aux_sync_counter' = [aux_sync_counter EXCEPT ![m] = msg_aux[m]]
    BY <1>3 DEF Take
  <2>3. /\ sync_counter'[Producer] = sync_counter[Producer]
        /\ aux_sync_counter'[Producer] = aux_sync_counter[Producer]
    BY <1>t, <2>1, <2>2, Sizes DEF TypeOK
  <2>4. QED
    BY <2>1, <2>3 DEF Table!vars
<1>4. ASSUME UNCHANGED vars \/ Tick \/ (\E m \in Node : Receive(m) \/ Lose(m))
                 \/ (\E t \in Tpdo : SendRequest(t))
      PROVE  UNCHANGED Table!vars
  BY <1>4 DEF vars, Tick, Receive, Lose, SendRequest, cycleVars, Table!vars
<1>5. \A m \in Node : ~Unscheduled(m) /\ ~SwitchMode(m)
  BY <1>g, <1>i, <1>t, Sizes DEF Unscheduled, SwitchMode, TypeOK
<1>6. QED
  BY <1>1, <1>2, <1>3, <1>4, <1>5, Steps

\* For any nodes, slots and masks: while no node has left sync mode, each cyclic TPDO is
\* sent only in a slot of its own and only once in it, whatever SYNCs are late or lost.
THEOREM BusKeepsTimetable == Spec => TimetableSpec
<1>1. Init => Table!Init
  BY Sizes DEF Init, Table!Init
<1>2. QED
  BY <1>1, StepTable, ScheduleSafe, PTL DEF Spec, TimetableSpec
==============================================================================
