------------------------------ MODULE Scheduler ------------------------------
(***************************************************************************)
(* The table of periodic tasks of sm_core_sch.c and the loop that calls    *)
(* them.  A task is a function with an argument.  Its callback may start   *)
(* and cancel tasks, itself included, and so may the rest of the loop.     *)
(*                                                                         *)
(* Two kinds of clients are modelled, as the applications have them: those *)
(* that cancel by function, and those that keep the index they were given, *)
(* for a task repeated forever, and forget it when they have cancelled     *)
(* (sm_sv_hmi.c).                                                          *)
(***************************************************************************)
EXTENDS Integers

CONSTANTS Task, None,  \* pairs of a function and an argument; no task
          Fn,          \* the function of each task
          Indexed,     \* the tasks cancelled by index
          Slots,       \* SM_SCH_TASK_MAX_SUPPORT
          Repeat,      \* the repetitions asked for, other than forever
          Interval,    \* the intervals asked for
          MaxAge,      \* bounds on what is counted: time since a timer was set,
          MaxCalls     \* and calls of a task

ASSUME SchedulerAssumption ==
    /\ None \notin Task /\ Indexed \subseteq Task /\ Slots \in Nat \ {0}
    /\ MaxAge \in Nat /\ Interval \subseteq 0 .. MaxAge
    /\ MaxCalls \in Nat /\ Repeat \subseteq 1 .. MaxCalls

Forever == -1
Slot    == 1 .. Slots

VARIABLES task,      \* the table: the task of each slot, None for a free one,
          repeat,    \* its repetitions,
          count,     \* how many of them are done,
          interval,  \* the interval, which is the duration of its timer,
          age,       \* and the time since the timer was set
          at,        \* the slot sm_sch_process is at, 0 outside it
          calling,   \* is the callback of that slot running?
          index,     \* the index each client of Indexed keeps, 0 for none
          since,     \* history: time since the task was entered in the table or called
          calls,     \* history: its calls since it was last started
          exact      \* history: do they count? (Not when it was started, in its own
                     \* slot, by the callback called from the slot.)

table == <<task, repeat, count, interval, age>>
past  == <<since, calls, exact>>
vars  == <<table, at, calling, index, past>>

Cap(n, m) == IF n < m THEN n ELSE m

Active(t) == \E i \in Slot : task[i] = t
FreeSlots == {i \in Slot : task[i] = None}

\* f with value v for the members of S
Put(f, S, v) == [x \in DOMAIN f |-> IF x \in S THEN v ELSE f[x]]

Init ==
    /\ task = [i \in Slot |-> None]
    /\ repeat = [i \in Slot |-> 0] /\ count = [i \in Slot |-> 0]
    /\ interval = [i \in Slot |-> 0] /\ age = [i \in Slot |-> 0]
    /\ at = 0 /\ calling = FALSE /\ index = [t \in Task |-> 0]
    /\ since = [t \in Task |-> 0] /\ calls = [t \in Task |-> 0]
    /\ exact = [t \in Task |-> FALSE]

------------------------------------------------------------------------------
(* Starting and cancelling, outside sm_sch_process or in a callback.        *)

MayWork == at = 0 \/ calling

\* mutant: a task is recognised by its function alone
FindFn(t) == {i \in Slot : task[i] # None /\ Fn[task[i]] = Fn[t]}

\* mutant: the search ends at the first free slot
FindUntilFree(t) ==
    {i \in Slot : task[i] = t /\ \A j \in Slot : j < i => task[j] # None}

\* The first loop of sm_sch_start_task: the slot the task is already in
Find(t) == {i \in Slot : task[i] = t}

\* A loop takes the first slot that fits.
First(S) == {i \in S : \A j \in S : i <= j}

\* mutant: the timer of a slot used before runs on
SetTimerStale(i) == age' = age

\* elapsed_timer_resetz, when a free slot is taken
SetTimer(i) == age' = [age EXCEPT ![i] = 0]

\* A task already in the table keeps its timer; a free slot is taken otherwise.
StartIn(i, t, n, d) ==
    /\ task' = [task EXCEPT ![i] = t] /\ repeat' = [repeat EXCEPT ![i] = n]
    /\ count' = [count EXCEPT ![i] = 0] /\ interval' = [interval EXCEPT ![i] = d]
    /\ index' = IF t \in Indexed THEN [index EXCEPT ![t] = i] ELSE index
    /\ IF task[i] = None THEN SetTimer(i) /\ since' = [since EXCEPT ![t] = 0]
                         ELSE UNCHANGED <<age, since>>

\* A task that finds no slot is refused with -1.
Refuse(t) ==
    /\ index' = IF t \in Indexed THEN [index EXCEPT ![t] = 0] ELSE index
    /\ UNCHANGED <<table, since>>

Start(t, n, d) ==
    /\ MayWork
    /\ t \in Indexed => n = Forever
    /\ LET room == IF Find(t) # {} THEN Find(t) ELSE FreeSlots IN
          IF room = {} THEN Refuse(t) ELSE \E i \in First(room) : StartIn(i, t, n, d)
    /\ calls' = [calls EXCEPT ![t] = 0]
    /\ exact' = [exact EXCEPT ![t] = ~(calling /\ task'[at] = t)]
    /\ UNCHANGED <<at, calling>>

\* The slots of S are free, and the tasks of T gone; the timers run on.
Clear(S, T) ==
    /\ task' = Put(task, S, None) /\ repeat' = Put(repeat, S, 0)
    /\ count' = Put(count, S, 0) /\ interval' = Put(interval, S, 0)
    /\ since' = Put(since, T, 0) /\ calls' = Put(calls, T, 0) /\ exact' = Put(exact, T, FALSE)
    /\ UNCHANGED age

\* sm_sch_cancel_task, with an index kept from sm_sch_start_task
CancelIndex(t) ==
    /\ MayWork /\ index[t] # 0
    /\ Clear({index[t]}, {task[index[t]]})
    /\ index' = [index EXCEPT ![t] = 0]
    /\ UNCHANGED <<at, calling>>

\* sm_sch_cancel_taskz: every task of the function
CancelFn(f) ==
    /\ MayWork /\ \A t \in Indexed : Fn[t] # f
    /\ LET gone == {t \in Task : Fn[t] = f} IN Clear({i \in Slot : task[i] \in gone}, gone)
    /\ UNCHANGED <<at, calling, index>>

------------------------------------------------------------------------------
(* sm_sch_process                                                           *)

Begin ==
    /\ at = 0 /\ at' = 1
    /\ UNCHANGED <<table, calling, index, past>>

Due(i) == task[i] # None /\ age[i] >= interval[i]

\* mutant: the loop ends with the first task it has called
FollowingNone == IF ~calling /\ at < Slots THEN at + 1 ELSE 0

\* The loop's increment
Following == IF at < Slots THEN at + 1 ELSE 0

Pass ==
    /\ at # 0 /\ ~calling /\ ~Due(at)
    /\ at' = Following
    /\ UNCHANGED <<table, calling, index, past>>

Call ==
    /\ at # 0 /\ ~calling /\ Due(at)
    /\ calling' = TRUE
    /\ calls' = IF exact[task[at]]
                THEN [calls EXCEPT ![task[at]] = Cap(@ + 1, MaxCalls + 1)] ELSE calls
    /\ UNCHANGED <<table, at, index, since, exact>>

\* mutant: a call too many
AgainOnce(i) == repeat[i] = Forever \/ count[i] <= repeat[i] - 1

\* What is in the slot now is to be called again.
Again(i) == repeat[i] = Forever \/ count[i] < repeat[i] - 1

\* The bookkeeping after the callback reads the slot again: it may be free, or hold
\* another task.  The calls of a task repeated forever need no count.
Return ==
    /\ calling /\ calling' = FALSE
    /\ at' = Following
    /\ IF Again(at)
       THEN /\ count' = IF repeat[at] = Forever THEN count ELSE [count EXCEPT ![at] = @ + 1]
            /\ age' = [age EXCEPT ![at] = 0] /\ since' = Put(since, {task[at]}, 0)
            /\ UNCHANGED <<task, repeat, interval, calls, exact>>
       ELSE Clear({at}, {task[at]})
    /\ UNCHANGED index

Tick ==
    /\ age' = [i \in Slot |-> Cap(age[i] + 1, MaxAge)]
    /\ since' = [t \in Task |-> IF Active(t) THEN Cap(since[t] + 1, MaxAge) ELSE 0]
    /\ UNCHANGED <<task, repeat, count, interval, at, calling, index, calls, exact>>

------------------------------------------------------------------------------
Process == Begin \/ Pass \/ Call \/ Return

Next ==
    \/ \E t \in Task, n \in Repeat \union {Forever}, d \in Interval : Start(t, n, d)
    \/ \E t \in Indexed : CancelIndex(t)
    \/ \E f \in {Fn[t] : t \in Task} : CancelFn(f)
    \/ Process \/ Tick

\* The loop goes on, callbacks return, and time passes.
Spec == Init /\ [][Next]_vars /\ WF_vars(Process) /\ WF_vars(Tick)

------------------------------------------------------------------------------
\* Every variable holds a value of its type.
TypeOK ==
    /\ task \in [Slot -> Task \union {None}] /\ repeat \in [Slot -> Repeat \union {Forever, 0}]
    /\ count \in [Slot -> Nat] /\ interval \in [Slot -> Interval \union {0}]
    /\ age \in [Slot -> Nat]
    /\ at \in 0 .. Slots /\ calling \in BOOLEAN /\ (calling => at # 0)
    /\ index \in [Task -> 0 .. Slots]
    /\ since \in [Task -> Nat] /\ calls \in [Task -> Nat] /\ exact \in [Task -> BOOLEAN]

\* However tasks and callbacks start and cancel one another, a task is in one slot at
\* most: its callback is not called twice in a round (the two loops of
\* sm_sch_start_task).
OneSlotEach == \A i, j \in Slot : task[i] = task[j] /\ task[i] # None => i = j

\* An index that a client keeps is that of its own task, so that cancelling by it takes
\* no other task from the table, though slots are used again (sm_sv_hmi.c).
IndexIsMine == \A t \in Indexed : index[t] # 0 => task[index[t]] = t

\* The table stays one of whole entries, one for each task, each where its owner
\* believes it to be, whatever callbacks do to it in the middle of a round.
TableInv == TypeOK /\ OneSlotEach /\ IndexIsMine

\* A task is never called within an interval of its start or of its last call, though
\* it may have taken the slot of another whose timer had run out (sm_sch_process).
NeverEarly == [][~calling /\ calling' => since[task[at]] >= interval[at]]_vars

\* A task leaves the table at the end of a call only when it has been called as often
\* as was asked, unless a callback has put it in the slot it was called from.
CalledAsAsked ==
    [][calling /\ ~calling' =>
          \A t \in Task : task[at] = t /\ exact[t] /\ task'[at] # t =>
              repeat[at] # Forever /\ calls[t] = repeat[at]]_vars

\* Every task in the table is called, or taken from it, in the end: those called in
\* every round do not starve the others.
TaskCalled == \A t \in Task : Active(t) ~> (~Active(t) \/ (calling /\ task[at] = t))
==============================================================================
