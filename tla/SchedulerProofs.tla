--------------------------- MODULE SchedulerProofs ---------------------------
(***************************************************************************)
(* Scheduler for every set of tasks, every size of the table, and whatever *)
(* the callbacks start and cancel.                                         *)
(***************************************************************************)
EXTENDS Scheduler, TLAPS

\* A task is started in the slot it has, or in a free one if it has none, or refused
\* (the two loops of sm_sch_start_task).
LEMMA StartSlot ==
    ASSUME NEW t, NEW n, NEW d, Start(t, n, d)
    PROVE  \/ \E i \in Slot : /\ StartIn(i, t, n, d)
                              /\ task[i] = t \/ (task[i] = None /\ ~Active(t))
           \/ Refuse(t) /\ ~Active(t)
<1>1. CASE Find(t) # {}
  <2>1. PICK i \in First(Find(t)) : StartIn(i, t, n, d)
    BY <1>1 DEF Start
  <2>2. i \in Slot /\ task[i] = t
    BY DEF First, Find
  <2>3. QED
    BY <2>1, <2>2
<1>2. CASE Find(t) = {} /\ FreeSlots # {}
  <2>1. PICK i \in First(FreeSlots) : StartIn(i, t, n, d)
    BY <1>2 DEF Start
  <2>2. QED
    BY <1>2, <2>1 DEF First, Find, FreeSlots, Active
<1>3. CASE Find(t) = {} /\ FreeSlots = {}
  BY <1>3 DEF Start, Find, Active
<1>4. QED
  BY <1>1, <1>2, <1>3

\* sm_core_sch.c 37-65 leave an empty table.
LEMMA InitTable == Init => TypeOK /\ OneSlotEach /\ IndexIsMine
<1> SUFFICES ASSUME Init
             PROVE  TypeOK /\ OneSlotEach /\ IndexIsMine
  OBVIOUS
<1>1. TypeOK
  <2>1. at \in 0 .. Slots /\ index \in [Task -> 0 .. Slots]
    BY SchedulerAssumption DEF Init
  <2>2. since \in [Task -> Nat] /\ calls \in [Task -> Nat] /\ exact \in [Task -> BOOLEAN]
    BY DEF Init
  <2>3. QED
    BY <2>1, <2>2 DEF Init, TypeOK
<1>2. OneSlotEach
  BY DEF Init, OneSlotEach
<1>3. IndexIsMine
  BY SchedulerAssumption DEF Init, IndexIsMine
<1>4. QED
  BY <1>1, <1>2, <1>3

\* Clearing slots keeps the types.
LEMMA ClearType ==
    ASSUME TypeOK, NEW S \in SUBSET Slot, NEW T, Clear(S, T)
    PROVE  /\ task' \in [Slot -> Task \union {None}]
           /\ repeat' \in [Slot -> Repeat \union {Forever, 0}]
           /\ count' \in [Slot -> Nat] /\ interval' \in [Slot -> Interval \union {0}]
           /\ age' \in [Slot -> Nat] /\ since' \in [Task -> Nat]
           /\ calls' \in [Task -> Nat] /\ exact' \in [Task -> BOOLEAN]
<1>1. task' \in [Slot -> Task \union {None}] /\ repeat' \in [Slot -> Repeat \union {Forever, 0}]
  BY DEF TypeOK, Clear, Put
<1>2. /\ count' \in [Slot -> Nat] /\ interval' \in [Slot -> Interval \union {0}]
      /\ age' \in [Slot -> Nat]
  BY DEF TypeOK, Clear, Put
<1>3. since' \in [Task -> Nat] /\ calls' \in [Task -> Nat]
  BY DEF TypeOK, Clear, Put
<1>4. exact' \in [Task -> BOOLEAN]
  BY DEF TypeOK, Clear, Put
<1>5. QED
  BY <1>1, <1>2, <1>3, <1>4

\* Every step keeps the types, whatever the callbacks do.
LEMMA TypeStep == TypeOK /\ [Next]_vars => TypeOK'
<1> SUFFICES ASSUME TypeOK, [Next]_vars
             PROVE  TypeOK'
  OBVIOUS
<1> USE SchedulerAssumption
<1>1. ASSUME NEW t \in Task, NEW n \in Repeat \union {Forever}, NEW d \in Interval,
             Start(t, n, d)
      PROVE  TypeOK'
  <2>1. at' = at /\ calling' = calling /\ calls' \in [Task -> Nat] /\ exact' \in [Task -> BOOLEAN]
    BY <1>1 DEF TypeOK, Start
  <2>2. ASSUME NEW i \in Slot, StartIn(i, t, n, d)
        PROVE  TypeOK'
    <3>1. age' \in [Slot -> Nat] /\ since' \in [Task -> Nat]
      BY <2>2 DEF StartIn, SetTimer, TypeOK
    <3>2. index' \in [Task -> 0 .. Slots]
      BY <2>2 DEF StartIn, TypeOK, Slot
    <3>3. task' \in [Slot -> Task \union {None}] /\ repeat' \in [Slot -> Repeat \union {Forever, 0}]
          /\ count' \in [Slot -> Nat] /\ interval' \in [Slot -> Interval \union {0}]
      BY <2>2 DEF StartIn, TypeOK
    <3>4. QED
      BY <2>1, <3>1, <3>2, <3>3 DEF TypeOK
  <2>3. CASE Refuse(t)
    BY <2>1, <2>3 DEF Refuse, table, TypeOK
  <2>4. QED
    BY <1>1, <2>2, <2>3, StartSlot
<1>2. ASSUME NEW t \in Indexed, CancelIndex(t)
      PROVE  TypeOK'
  <2>1. {index[t]} \in SUBSET Slot /\ Clear({index[t]}, {task[index[t]]})
    BY <1>2 DEF TypeOK, CancelIndex, Slot
  <2>2. at' = at /\ calling' = calling /\ index' \in [Task -> 0 .. Slots]
    BY <1>2 DEF TypeOK, CancelIndex
  <2>3. QED
    BY <2>1, <2>2, ClearType DEF TypeOK
<1>3. ASSUME NEW f, CancelFn(f)
      PROVE  TypeOK'
  <2> DEFINE gone == {t \in Task : Fn[t] = f}
             S == {i \in Slot : task[i] \in gone}
  <2>1. S \in SUBSET Slot /\ Clear(S, gone)
    BY <1>3 DEF CancelFn
  <2>2. at' = at /\ calling' = calling /\ index' = index
    BY <1>3 DEF CancelFn
  <2> HIDE DEF gone, S
  <2>3. QED
    BY <2>1, <2>2, ClearType DEF TypeOK
<1>4. CASE Begin
  BY <1>4 DEF Begin, table, past, TypeOK
<1>5. CASE Pass
  BY <1>5 DEF Pass, table, past, TypeOK, Following
<1>6. CASE Call
  <2>1. at \in Slot /\ task[at] \in Task
    BY <1>6 DEF Call, Due, TypeOK, Slot
  <2>2. calls' \in [Task -> Nat]
    BY <1>6, <2>1 DEF Call, TypeOK, Cap
  <2>3. QED
    BY <1>6, <2>2 DEF Call, table, TypeOK
<1>7. CASE Return
  <2>1. at' \in 0 .. Slots /\ calling' = FALSE /\ index' = index /\ at \in Slot
    BY <1>7 DEF Return, TypeOK, Following, Slot
  <2>2. CASE Again(at)
    <3>1. count' \in [Slot -> Nat] /\ age' \in [Slot -> Nat] /\ since' \in [Task -> Nat]
      BY <1>7, <2>1, <2>2 DEF Return, TypeOK, Put
    <3>2. QED
      BY <1>7, <2>1, <2>2, <3>1 DEF Return, TypeOK
  <2>3. CASE ~Again(at)
    <3>1. {at} \in SUBSET Slot /\ Clear({at}, {task[at]})
      BY <1>7, <2>1, <2>3 DEF Return
    <3>2. QED
      BY <2>1, <3>1, ClearType DEF TypeOK
  <2>4. QED
    BY <2>2, <2>3
<1>8. CASE Tick
  <2>1. age' \in [Slot -> Nat] /\ since' \in [Task -> Nat]
    BY <1>8 DEF Tick, TypeOK, Cap
  <2>2. QED
    BY <1>8, <2>1 DEF Tick, TypeOK
<1>9. CASE UNCHANGED vars
  BY <1>9 DEF vars, table, past, TypeOK
<1>10. QED
  BY <1>1, <1>2, <1>3, <1>4, <1>5, <1>6, <1>7, <1>8, <1>9 DEF Next, Process
------------------------------------------------------------------------------
(* Which task is in which slot.                                             *)

\* A task whose client keeps its index is repeated forever.
ForeverKept == \A i \in Slot : task[i] \in Indexed => repeat[i] = Forever

Places == OneSlotEach /\ IndexIsMine /\ ForeverKept

\* Clearing keeps Places if no client goes on with the index of a cleared slot.
LEMMA ClearPlaces ==
    ASSUME TypeOK, Places, NEW S \in SUBSET Slot, NEW T, Clear(S, T),
           \A t \in Indexed : index'[t] \in {index[t], 0},
           \A t \in Indexed : index[t] \in S => index'[t] = 0
    PROVE  Places'
<1> USE SchedulerAssumption
<1>1. /\ task' = [i \in Slot |-> IF i \in S THEN None ELSE task[i]]
      /\ repeat' = [i \in Slot |-> IF i \in S THEN 0 ELSE repeat[i]]
  BY DEF TypeOK, Clear, Put
<1>2. OneSlotEach'
  BY <1>1 DEF Places, OneSlotEach
<1>3. IndexIsMine'
  <2> SUFFICES ASSUME NEW t \in Indexed, index'[t] # 0
               PROVE  task'[index'[t]] = t
    BY DEF IndexIsMine
  <2>1. index'[t] = index[t] /\ index[t] \notin S /\ index[t] \in Slot
    BY DEF TypeOK, Slot
  <2>2. task[index[t]] = t
    BY <2>1 DEF Places, IndexIsMine
  <2>3. QED
    BY <1>1, <2>1, <2>2
<1>4. ForeverKept'
  BY <1>1 DEF Places, ForeverKept
<1>5. QED
  BY <1>2, <1>3, <1>4 DEF Places

\* Starting keeps Places: the slot taken held no other task.
LEMMA StartPlaces ==
    ASSUME TypeOK, Places, NEW t \in Task, NEW n, NEW d, NEW i \in Slot, StartIn(i, t, n, d),
           task[i] = t \/ (task[i] = None /\ ~Active(t)), t \in Indexed => n = Forever
    PROVE  Places'
<1> USE SchedulerAssumption
<1>1. task' = [task EXCEPT ![i] = t] /\ repeat' = [repeat EXCEPT ![i] = n]
      /\ index' = IF t \in Indexed THEN [index EXCEPT ![t] = i] ELSE index
  BY DEF StartIn
<1>2. \A j \in Slot : task[j] = t => j = i
  BY DEF Places, OneSlotEach, Active
<1>3. OneSlotEach'
  BY <1>1, <1>2 DEF TypeOK, Places, OneSlotEach
<1>4. IndexIsMine'
  <2> SUFFICES ASSUME NEW u \in Indexed, index'[u] # 0
               PROVE  task'[index'[u]] = u
    BY DEF IndexIsMine
  <2>1. CASE u = t
    BY <1>1, <2>1 DEF TypeOK
  <2>2. CASE u # t
    <3>1. index'[u] = index[u] /\ index[u] \in Slot /\ task[index[u]] = u
      BY <1>1, <2>2 DEF TypeOK, Slot, Places, IndexIsMine
    <3>2. index[u] # i
      BY <2>2, <3>1
    <3>3. QED
      BY <1>1, <3>1, <3>2 DEF TypeOK
  <2>3. QED
    BY <2>1, <2>2
<1>5. ForeverKept'
  BY <1>1 DEF TypeOK, Places, ForeverKept
<1>6. QED
  BY <1>3, <1>4, <1>5 DEF Places

\* Every step keeps each task in one slot, and each index that of its task.
LEMMA PlacesStep == TypeOK /\ Places /\ [Next]_vars => Places'
<1> SUFFICES ASSUME TypeOK, Places, [Next]_vars
             PROVE  Places'
  OBVIOUS
<1> USE SchedulerAssumption
<1>1. ASSUME NEW t \in Task, NEW n, NEW d, Start(t, n, d)
      PROVE  Places'
  <2>1. ASSUME NEW i \in Slot, StartIn(i, t, n, d), task[i] = t \/ (task[i] = None /\ ~Active(t))
        PROVE  Places'
    <3>1. t \in Indexed => n = Forever
      BY <1>1 DEF Start
    <3>2. QED
      BY <2>1, <3>1, StartPlaces
  <2>2. CASE Refuse(t)
    <3>1. task' = task /\ repeat' = repeat /\ \A u \in Task : index'[u] \in {index[u], 0}
      BY <2>2 DEF Refuse, table, TypeOK
    <3>2. QED
      BY <3>1 DEF Places, OneSlotEach, IndexIsMine, ForeverKept
  <2>3. QED
    BY <1>1, <2>1, <2>2, StartSlot
<1>2. ASSUME NEW t \in Indexed, CancelIndex(t)
      PROVE  Places'
  <2>1. {index[t]} \in SUBSET Slot /\ Clear({index[t]}, {task[index[t]]})
        /\ task[index[t]] = t /\ index' = [index EXCEPT ![t] = 0]
    BY <1>2 DEF TypeOK, CancelIndex, Slot, Places, IndexIsMine
  <2>2. \A u \in Indexed : index'[u] \in {index[u], 0}
    BY <2>1 DEF TypeOK
  <2>3. \A u \in Indexed : index[u] \in {index[t]} => index'[u] = 0
    <3>1. \A u \in Indexed : index[u] = index[t] => u = t
      BY <1>2, <2>1 DEF Places, IndexIsMine, CancelIndex
    <3>2. QED
      BY <2>1, <3>1 DEF TypeOK
  <2>4. QED
    BY <2>1, <2>2, <2>3, ClearPlaces
<1>3. ASSUME NEW f, CancelFn(f)
      PROVE  Places'
  <2> DEFINE gone == {t \in Task : Fn[t] = f}
             S == {i \in Slot : task[i] \in gone}
  <2>1. S \in SUBSET Slot /\ Clear(S, gone) /\ index' = index
    BY <1>3 DEF CancelFn
  <2>2. \A u \in Indexed : index[u] \notin S
    <3> SUFFICES ASSUME NEW u \in Indexed, index[u] \in S
                 PROVE  FALSE
      OBVIOUS
    <3>1. index[u] # 0 /\ Fn[task[index[u]]] = f
      BY DEF Slot
    <3>2. QED
      BY <1>3, <3>1 DEF Places, IndexIsMine, CancelFn
  <2> HIDE DEF gone, S
  <2>3. QED
    BY <2>1, <2>2, ClearPlaces
<1>4. CASE Return
  <2>1. at \in Slot /\ index' = index
    BY <1>4 DEF Return, TypeOK, Slot
  <2>2. CASE Again(at)
    BY <1>4, <2>1, <2>2 DEF Return, Places, OneSlotEach, IndexIsMine, ForeverKept
  <2>3. CASE ~Again(at)
    <3>1. {at} \in SUBSET Slot /\ Clear({at}, {task[at]})
      BY <1>4, <2>1, <2>3 DEF Return
    <3>2. task[at] \notin Indexed
      BY <2>1, <2>3 DEF Again, Places, ForeverKept
    <3>3. \A u \in Indexed : index[u] # at
      BY <2>1, <3>2 DEF Places, IndexIsMine, Slot
    <3>4. QED
      BY <2>1, <3>1, <3>3, ClearPlaces
  <2>4. QED
    BY <2>2, <2>3
<1>5. CASE Begin \/ Pass \/ Call \/ Tick \/ UNCHANGED vars
  BY <1>5 DEF Begin, Pass, Call, Tick, vars, table, Places, OneSlotEach, IndexIsMine, ForeverKept
<1>6. QED
  BY <1>1, <1>2, <1>3, <1>4, <1>5 DEF Next, Process
------------------------------------------------------------------------------
(* Timers and counts.                                                       *)

\* The timer of a slot has run as long as its task has waited.
TimerKept == \A i \in Slot : task[i] # None => since[task[i]] = age[i]

\* Calls that count are as many as the slot says, one more while the callback runs.
Counting ==
    \A i \in Slot : task[i] # None /\ exact[task[i]] =>
        \/ repeat[i] = Forever
        \/ /\ count[i] < repeat[i]
           /\ calls[task[i]] = count[i] + IF calling /\ at = i THEN 1 ELSE 0

Figures == TimerKept /\ Counting

\* Repetitions are bounded numbers.
LEMMA RepeatBounds ==
    ASSUME TypeOK, NEW i \in Slot
    PROVE  repeat[i] \in Int /\ repeat[i] <= MaxCalls /\ count[i] \in Nat
<1>1. repeat[i] \in Repeat \union {-1, 0} /\ count[i] \in Nat
  BY DEF TypeOK, Forever
<1>2. MaxCalls \in Nat /\ \A n \in Repeat : n \in Int /\ n <= MaxCalls
  BY SchedulerAssumption
<1>3. CASE repeat[i] \in Repeat
  BY <1>1, <1>2, <1>3
<1>4. CASE repeat[i] \in {-1, 0}
  BY <1>1, <1>2, <1>4
<1>5. QED
  BY <1>1, <1>3, <1>4

\* Clearing slots and forgetting the tasks in them leaves the figures of the others.
LEMMA ClearFigures ==
    ASSUME TypeOK, Figures, NEW S \in SUBSET Slot, NEW T, Clear(S, T),
           \A i \in Slot \ S : task[i] \in T => task[i] = None,
           \A i \in Slot \ S : (calling' /\ at' = i) = (calling /\ at = i)
    PROVE  Figures'
<1> USE SchedulerAssumption
<1>1. \A i \in Slot : task'[i] = IF i \in S THEN None ELSE task[i]
  BY DEF TypeOK, Clear, Put
<1>2. \A i \in Slot \ S : repeat'[i] = repeat[i] /\ count'[i] = count[i] /\ age'[i] = age[i]
  BY DEF TypeOK, Clear, Put
<1>3. \A i \in Slot \ S : task[i] # None =>
           /\ since'[task[i]] = since[task[i]] /\ calls'[task[i]] = calls[task[i]]
           /\ exact'[task[i]] = exact[task[i]]
  BY DEF TypeOK, Clear, Put
<1>4. TimerKept'
  BY <1>1, <1>2, <1>3 DEF Figures, TimerKept
<1>5. Counting'
  BY <1>1, <1>2, <1>3 DEF Figures, Counting
<1>6. QED
  BY <1>4, <1>5 DEF Figures

\* Starting gives the task new figures and leaves those of the others.
LEMMA StartFigures ==
    ASSUME TypeOK, OneSlotEach, Figures,
           NEW t \in Task, NEW n \in Repeat \union {Forever}, NEW d, Start(t, n, d)
    PROVE  Figures'
<1> USE SchedulerAssumption
<1>1. /\ \A u \in Task : u # t => calls'[u] = calls[u] /\ exact'[u] = exact[u]
      /\ calls'[t] = 0 /\ exact'[t] = ~(calling /\ task'[at] = t)
      /\ at' = at /\ calling' = calling
  BY DEF TypeOK, Start
<1>2. ASSUME NEW i \in Slot, StartIn(i, t, n, d), task[i] = t \/ (task[i] = None /\ ~Active(t))
      PROVE  Figures'
  <2>1. \A j \in Slot \ {i} : task'[j] = task[j] /\ repeat'[j] = repeat[j] /\ count'[j] = count[j]
                              /\ age'[j] = age[j] /\ task[j] # t
    BY <1>2 DEF TypeOK, StartIn, SetTimer, OneSlotEach, Active
  <2>2. \A u \in Task : u # t => since'[u] = since[u]
    BY <1>2 DEF TypeOK, StartIn
  <2>3. task'[i] = t /\ repeat'[i] = n /\ count'[i] = 0 /\ since'[t] = age'[i]
    BY <1>2 DEF TypeOK, StartIn, SetTimer, Figures, TimerKept
  <2>4. TimerKept'
    BY <2>1, <2>2, <2>3 DEF TypeOK, Figures, TimerKept
  <2>5. Counting'
    <3> SUFFICES ASSUME NEW j \in Slot, task'[j] # None, exact'[task'[j]], repeat'[j] # Forever
                 PROVE  /\ count'[j] < repeat'[j]
                        /\ calls'[task'[j]] = count'[j] + IF calling' /\ at' = j THEN 1 ELSE 0
      BY DEF Counting
    <3>1. CASE j = i
      <4>1. n \in Repeat
        BY <2>3, <3>1
      <4>2. ~(calling /\ at = i)
        BY <1>1, <2>3, <3>1
      <4>3. QED
        BY <1>1, <2>3, <3>1, <4>1, <4>2
    <3>2. CASE j # i
      <4>1. task[j] \in Task /\ task[j] # t
        BY <2>1, <3>2 DEF TypeOK
      <4>2. QED
        BY <1>1, <2>1, <3>2, <4>1 DEF Figures, Counting
    <3>3. QED
      BY <3>1, <3>2
  <2>6. QED
    BY <2>4, <2>5 DEF Figures
<1>3. CASE Refuse(t) /\ ~Active(t)
  <2>1. task' = task /\ repeat' = repeat /\ count' = count /\ age' = age /\ since' = since
        /\ \A j \in Slot : task[j] # t
    BY <1>3 DEF Refuse, table, Active
  <2>2. TimerKept'
    BY <2>1 DEF Figures, TimerKept
  <2>3. Counting'
    BY <1>1, <2>1 DEF TypeOK, Figures, Counting
  <2>4. QED
    BY <2>2, <2>3 DEF Figures
<1>4. QED
  BY <1>2, <1>3, StartSlot

\* Every step keeps timers and counts.
LEMMA FiguresStep == TypeOK /\ Places /\ Figures /\ [Next]_vars => Figures'
<1> SUFFICES ASSUME TypeOK, Places, Figures, [Next]_vars
             PROVE  Figures'
  OBVIOUS
<1> USE SchedulerAssumption
<1>1. ASSUME NEW t \in Task, NEW n \in Repeat \union {Forever}, NEW d, Start(t, n, d)
      PROVE  Figures'
  BY <1>1, StartFigures DEF Places
<1>2. ASSUME NEW t \in Indexed, CancelIndex(t)
      PROVE  Figures'
  <2>1. {index[t]} \in SUBSET Slot /\ Clear({index[t]}, {task[index[t]]})
        /\ at' = at /\ calling' = calling
    BY <1>2 DEF TypeOK, CancelIndex, Slot
  <2>2. \A i \in Slot \ {index[t]} : task[i] \in {task[index[t]]} => task[i] = None
    BY <2>1 DEF Places, OneSlotEach
  <2>3. QED
    BY <2>1, <2>2, ClearFigures
<1>3. ASSUME NEW f, CancelFn(f)
      PROVE  Figures'
  <2> DEFINE gone == {t \in Task : Fn[t] = f}
             S == {i \in Slot : task[i] \in gone}
  <2>1. S \in SUBSET Slot /\ Clear(S, gone) /\ at' = at /\ calling' = calling
        /\ \A i \in Slot \ S : task[i] \notin gone
    BY <1>3 DEF CancelFn
  <2> HIDE DEF gone, S
  <2>2. QED
    BY <2>1, ClearFigures
<1>4. CASE Call
  <2>1. at \in Slot /\ task[at] \in Task
    BY <1>4 DEF Call, Due, TypeOK, Slot
  <2>2. \A i \in Slot : i # at => task[i] # task[at]
    BY <2>1 DEF Places, OneSlotEach
  <2>3. TimerKept'
    BY <1>4 DEF Call, table, Figures, TimerKept
  <2>4. \A i \in Slot : task[i] # None /\ exact[task[i]] /\ repeat[i] # Forever =>
           calls'[task[i]] = count[i] + IF i = at THEN 1 ELSE 0
    <3> SUFFICES ASSUME NEW i \in Slot, task[i] # None, exact[task[i]], repeat[i] # Forever
                 PROVE  calls'[task[i]] = count[i] + IF i = at THEN 1 ELSE 0
      OBVIOUS
    <3>1. count[i] < repeat[i] /\ calls[task[i]] = count[i] /\ count[i] \in Nat
      BY <1>4 DEF Call, Figures, Counting, TypeOK
    <3>2. repeat[i] \in Int /\ repeat[i] <= MaxCalls
      BY RepeatBounds
    <3>3. CASE i = at
      <4>1. calls'[task[i]] = Cap(calls[task[i]] + 1, MaxCalls + 1)
        BY <1>4, <2>1, <3>3 DEF Call, TypeOK
      <4>2. QED
        BY <3>1, <3>2, <3>3, <4>1 DEF Cap
    <3>4. CASE i # at
      BY <1>4, <2>1, <2>2, <3>1, <3>4 DEF Call, TypeOK
    <3>5. QED
      BY <3>3, <3>4
  <2>5. Counting'
    BY <1>4, <2>4 DEF Call, table, Figures, Counting
  <2>6. QED
    BY <2>3, <2>5 DEF Figures
<1>5. CASE Return
  <2>1. at \in Slot /\ calling /\ ~calling'
    BY <1>5 DEF Return, TypeOK, Slot
  <2>2. \A i \in Slot : i # at /\ task[i] # None => task[i] # task[at]
    BY <2>1 DEF Places, OneSlotEach
  <2>3. CASE Again(at)
    <3>1. /\ task' = task /\ repeat' = repeat /\ calls' = calls /\ exact' = exact
          /\ count' = IF repeat[at] = Forever THEN count ELSE [count EXCEPT ![at] = @ + 1]
          /\ age' = [age EXCEPT ![at] = 0] /\ since' = Put(since, {task[at]}, 0)
      BY <1>5, <2>3 DEF Return
    <3>2. TimerKept'
      BY <2>1, <2>2, <3>1 DEF TypeOK, Put, Figures, TimerKept
    <3>3. Counting'
      <4>1. CASE repeat[at] = Forever
        BY <2>1, <3>1, <4>1 DEF Figures, Counting
      <4>2. CASE repeat[at] # Forever
        <5>1. count[at] < repeat[at] - 1 /\ count' = [count EXCEPT ![at] = @ + 1]
          BY <2>3, <3>1, <4>2 DEF Again
        <5>2. /\ count'[at] = count[at] + 1 /\ count'[at] < repeat[at]
              /\ \A i \in Slot : i # at => count'[i] = count[i]
          BY <2>1, <5>1, RepeatBounds DEF TypeOK
        <5>3. \A i \in Slot : calls[task[i]] = count[i] + 1 /\ i = at =>
                  calls'[task'[i]] = count'[i] + 0
          BY <3>1, <5>2, RepeatBounds
        <5>4. QED
          BY <2>1, <3>1, <5>2, <5>3, RepeatBounds DEF Figures, Counting
      <4>3. QED
        BY <4>1, <4>2
    <3>4. QED
      BY <3>2, <3>3 DEF Figures
  <2>4. CASE ~Again(at)
    <3>1. {at} \in SUBSET Slot /\ Clear({at}, {task[at]})
      BY <1>5, <2>1, <2>4 DEF Return
    <3>2. QED
      BY <2>1, <2>2, <3>1, ClearFigures
  <2>5. QED
    BY <2>3, <2>4
<1>6. CASE Tick
  <2>1. TimerKept'
    BY <1>6 DEF Tick, Figures, TimerKept, TypeOK, Active
  <2>2. QED
    BY <1>6, <2>1 DEF Tick, Figures, Counting
<1>7. CASE Begin \/ Pass \/ UNCHANGED vars
  <2>1. /\ UNCHANGED <<table, past>> /\ calling' = calling
        /\ calling => at' = at
    BY <1>7 DEF Begin, Pass, vars, TypeOK
  <2>2. TimerKept'
    BY <2>1 DEF table, past, Figures, TimerKept
  <2>3. Counting'
    BY <2>1 DEF table, past, Figures, Counting
  <2>4. QED
    BY <2>2, <2>3 DEF Figures
<1>8. QED
  BY <1>1, <1>2, <1>3, <1>4, <1>5, <1>6, <1>7 DEF Next, Process

------------------------------------------------------------------------------
Inv == TypeOK /\ Places /\ Figures

\* Inv holds at the start and every step keeps it.
LEMMA Invariance == Spec => []Inv
<1>1. Init => Inv
  <2> SUFFICES ASSUME Init
               PROVE  Inv
    OBVIOUS
  <2>1. ForeverKept /\ Figures
    BY SchedulerAssumption DEF Init, ForeverKept, Figures, TimerKept, Counting
  <2>2. QED
    BY <2>1, InitTable DEF Inv, Places
<1>2. Inv /\ [Next]_vars => Inv'
  BY TypeStep, PlacesStep, FiguresStep DEF Inv
<1>3. QED
  BY <1>1, <1>2, PTL DEF Spec

\* For any tasks and any number of slots: the table is well formed, no task is in two
\* slots however it is started and cancelled by other callbacks, and the index a client
\* of sm_sv_hmi.c keeps never becomes that of another task (sm_core_sch.c 67-160).
THEOREM TableStaysWhole == Spec => []TableInv
<1>1. Inv => TableInv
  BY DEF Inv, Places, TableInv
<1>2. QED
  BY <1>1, Invariance, PTL

\* No callback is called before its interval has passed.
THEOREM NoEarlyCall == Spec => NeverEarly
<1>1. Inv /\ [Next]_vars => [~calling /\ calling' => since[task[at]] >= interval[at]]_vars
  <2> SUFFICES ASSUME Inv, Next, ~calling, calling'
               PROVE  since[task[at]] >= interval[at]
    OBVIOUS
  <2>1. Call
    BY DEF Next, Process, Start, CancelIndex, CancelFn, Begin, Pass, Return, Tick
  <2>2. at \in Slot /\ task[at] # None /\ age[at] >= interval[at]
    BY <2>1 DEF Call, Due, Inv, TypeOK, Slot
  <2>3. QED
    BY <2>2 DEF Inv, Figures, TimerKept
<1>2. QED
  BY <1>1, Invariance, PTL DEF Spec, NeverEarly

\* A task that ends has had its calls, none more and none fewer.
THEOREM AllCallsMade == Spec => CalledAsAsked
<1> DEFINE Ends == calling /\ ~calling' =>
                       \A t \in Task : task[at] = t /\ exact[t] /\ task'[at] # t =>
                           repeat[at] # Forever /\ calls[t] = repeat[at]
<1>1. Inv /\ [Next]_vars => [Ends]_vars
  <2> SUFFICES ASSUME Inv, Next, calling, ~calling',
                      NEW t \in Task, task[at] = t, exact[t], task'[at] # t
               PROVE  repeat[at] # Forever /\ calls[t] = repeat[at]
    BY DEF Ends
  <2>1. Return
    BY DEF Next, Process, Start, CancelIndex, CancelFn, Begin, Pass, Call, Tick
  <2>2. at \in Slot
    BY SchedulerAssumption DEF Inv, TypeOK, Slot
  <2>3. ~Again(at)
    BY <2>1 DEF Return
  <2>4. repeat[at] # Forever /\ count[at] >= repeat[at] - 1
    BY <2>2, <2>3, RepeatBounds DEF Again, Inv
  <2>5. count[at] < repeat[at] /\ calls[t] = count[at] + 1
    BY <2>2, <2>4, SchedulerAssumption DEF Inv, Figures, Counting
  <2>6. QED
    BY <2>2, <2>4, <2>5, RepeatBounds DEF Inv
<1>2. QED
  BY <1>1, Invariance, PTL DEF Spec, CalledAsAsked
==============================================================================
