---------------------------- MODULE SyncSchedule -----------------------------
(***************************************************************************)
(* The synchronous schedule of a CAN bus: one node produces SYNC frames,   *)
(* the others follow them, and each process data object (TPDO) is sent in  *)
(* the slot it is set to (CO_SYNC.c, CO_TPDO.c, CO_process of CO.c).       *)
(* Every node runs CO_process once in a millisecond, in any order; SYNC    *)
(* frames are late or lost.                                                *)
(*                                                                         *)
(* sm_co_process passes 1 as time difference, so that time_in_cycle_ms and *)
(* index_in_cycle are one number.  What the SDO handlers do in the ticks   *)
(* left to them is SdoTransfer.  Inhibit and event timers are not compiled *)
(* (CO_config.h 28-29).                                                    *)
(***************************************************************************)
EXTENDS Integers

CONSTANTS Node, Producer,   \* the one node with sync.msg.id.bit_30 = CO_SYNC_GEN
          Tpdo, Owner,      \* the TPDOs, and the node each belongs to
          Kind,             \* "cyclic", "acyclic" or "event": transmission_type, where
          Slot,             \* a cyclic one is 1 .. MaxCounter, and acyclic 0
          Mask,             \* the auxiliary counters that sync_mask_reg lets through
          Period,           \* cycle_period_ms
          MaxCounter,       \* max_sync_counter
          MaxAux,           \* max_aux_sync_counter
          MaxIndex,         \* the largest value of a uint16_t
          Delay,            \* milliseconds a SYNC may wait in the bus and in receive rings
          Switches          \* bound: calls that switch the sync mode off or on

\* The cycle leaves time for a late SYNC to be taken and its slot to be used before the
\* next one; the counters fit in their words.
ASSUME ScheduleAssumption ==
    /\ Producer \in Node
    /\ Owner \in [Tpdo -> Node]
    /\ Kind \in [Tpdo -> {"cyclic", "acyclic", "event"}]
    /\ MaxCounter \in Nat \ {0} /\ MaxAux \in 0 .. 31
    /\ Slot \in [Tpdo -> 0 .. MaxCounter]
    /\ Mask \in [Tpdo -> SUBSET (0 .. MaxAux)]
    /\ Delay \in Nat /\ Period \in Nat /\ MaxIndex \in Nat /\ Switches \in Nat
    /\ Period >= Delay + 3 /\ MaxIndex >= Period

VARIABLES
    due,              \* nodes that have not run CO_process in this millisecond
    wire,             \* consumers the last SYNC is still under way to
    valid,            \* sync.msg.id.valid, node by node
    index_in_cycle,
    sync_counter, aux_sync_counter,
    aux_sync_reg,     \* the bit set in it, as the set of bits set
    is_new,           \* a SYNC is in sync.msg, with the counters
    msg_counter, msg_aux,
    send_request,     \* the TPDOs the application wants sent
    sends,            \* since the last SYNC was produced: how often each was sent cyclically
    switches          \* how often the mode was switched

cycleVars == <<index_in_cycle, sync_counter, aux_sync_counter, aux_sync_reg>>
msgVars   == <<is_new, msg_counter, msg_aux>>
vars == <<due, wire, valid, cycleVars, msgVars, send_request, sends, switches>>

Consumer == Node \ {Producer}

\* CO_SYNC_init, and CO_TPDO_init with send_request = false
Init ==
    /\ due = Node /\ wire = {}
    /\ valid = [n \in Node |-> TRUE]
    /\ index_in_cycle = [n \in Node |-> 0]
    /\ sync_counter = [n \in Node |-> 0] /\ aux_sync_counter = [n \in Node |-> 0]
    /\ aux_sync_reg = [n \in Node |-> {}]
    /\ is_new = [n \in Node |-> FALSE]
    /\ msg_counter = [n \in Node |-> 0] /\ msg_aux = [n \in Node |-> 0]
    /\ send_request = {} /\ sends = [t \in Tpdo |-> 0]
    /\ switches = 0

------------------------------------------------------------------------------
(* CO_TPDO_process of all TPDOs of a node *)

\* Its turn by the node's own counters, in which aux_sync_reg is zero at first
TurnAt(t) ==
    /\ Kind[t] # "event" /\ sync_counter[Owner[t]] = Slot[t]
    /\ aux_sync_reg[Owner[t]] \cap Mask[t] # {}

Cyclic(n) == {t \in Tpdo : Owner[t] = n /\ TurnAt(t)}

\* Not in its turn, an object is sent if asked for, unless its type is a slot.
Asked(n) == {t \in Tpdo : Owner[t] = n /\ ~TurnAt(t) /\ Kind[t] # "cyclic"} \cap send_request

Twice(k) == IF k = 0 THEN 1 ELSE 2      \* the second and any later one

ServeTpdos(n) ==
    /\ send_request' = send_request \ (Cyclic(n) \cup Asked(n))
    /\ sends' = [t \in Tpdo |-> IF t \in Cyclic(n) THEN Twice(sends[t]) ELSE sends[t]]

NoTpdos == UNCHANGED <<send_request, sends>>

------------------------------------------------------------------------------
(* CO_process *)

AdvancedWrapping(i) == (i + 1) % (MaxIndex + 1) \* mutant: the 16-bit index goes round
\* The index goes on by one, and no further than its word.
Advanced(i) == LET i1 == (i + 1) % (MaxIndex + 1) IN IF i1 > i THEN i1 ELSE i

Turns(n) == n \in due /\ due' = due \ {n} /\ UNCHANGED switches

\* The producer's cycle is over: the next slot, and a SYNC to everybody else.  A frame of
\* the last cycle that is still under way is outrun.
Generate(n) ==
    /\ Turns(n) /\ valid[n] /\ n = Producer /\ Advanced(index_in_cycle[n]) >= Period
    /\ LET wraps == sync_counter[n] + 1 > MaxCounter
           aux   == IF ~wraps THEN aux_sync_counter[n]
                    ELSE IF aux_sync_counter[n] + 1 > MaxAux THEN 0
                    ELSE aux_sync_counter[n] + 1
       IN  /\ sync_counter' = [sync_counter EXCEPT ![n] = IF wraps THEN 1 ELSE @ + 1]
           /\ aux_sync_counter' = [aux_sync_counter EXCEPT ![n] = aux]
           /\ aux_sync_reg' = IF wraps THEN [aux_sync_reg EXCEPT ![n] = {aux}]
                              ELSE aux_sync_reg
    /\ index_in_cycle' = [index_in_cycle EXCEPT ![n] = 0]
    /\ wire' = Consumer
    /\ sends' = [t \in Tpdo |-> 0]
    /\ UNCHANGED <<valid, msgVars, send_request>>

TakeLate(n) == \* mutant: the cycle begins at 1, and the TPDOs' tick is passed over
    /\ Turns(n) /\ valid[n] /\ n \in Consumer /\ is_new[n]
    /\ sync_counter' = [sync_counter EXCEPT ![n] = msg_counter[n]]
    /\ aux_sync_counter' = [aux_sync_counter EXCEPT ![n] = msg_aux[n]]
    /\ aux_sync_reg' = [aux_sync_reg EXCEPT ![n] = {msg_aux[n]}]
    /\ index_in_cycle' = [index_in_cycle EXCEPT ![n] = 1]
    /\ is_new' = [is_new EXCEPT ![n] = FALSE]
    /\ UNCHANGED <<wire, valid, msg_counter, msg_aux>> /\ NoTpdos
TakeKeeps(n) == \* mutant: is_new is not cleared
    /\ Turns(n) /\ valid[n] /\ n \in Consumer /\ is_new[n]
    /\ sync_counter' = [sync_counter EXCEPT ![n] = msg_counter[n]]
    /\ aux_sync_counter' = [aux_sync_counter EXCEPT ![n] = msg_aux[n]]
    /\ aux_sync_reg' = [aux_sync_reg EXCEPT ![n] = {msg_aux[n]}]
    /\ index_in_cycle' = [index_in_cycle EXCEPT ![n] = 0]
    /\ UNCHANGED <<wire, valid, msgVars>> /\ NoTpdos
\* A consumer takes the SYNC it has received: a cycle begins.
Take(n) ==
    /\ Turns(n) /\ valid[n] /\ n \in Consumer /\ is_new[n]
    /\ sync_counter' = [sync_counter EXCEPT ![n] = msg_counter[n]]
    /\ aux_sync_counter' = [aux_sync_counter EXCEPT ![n] = msg_aux[n]]
    /\ aux_sync_reg' = [aux_sync_reg EXCEPT ![n] = {msg_aux[n]}]
    /\ index_in_cycle' = [index_in_cycle EXCEPT ![n] = 0]
    /\ is_new' = [is_new EXCEPT ![n] = FALSE]
    /\ UNCHANGED <<wire, valid, msg_counter, msg_aux>> /\ NoTpdos

\* In the middle of a cycle the TPDOs have the first tick; the SDO handlers have the rest.
Count(n) ==
    /\ Turns(n) /\ valid[n]
    /\ IF n = Producer THEN Advanced(index_in_cycle[n]) < Period ELSE ~is_new[n]
    /\ index_in_cycle' = [index_in_cycle EXCEPT ![n] = Advanced(@)]
    /\ IF Advanced(index_in_cycle[n]) = 1 THEN ServeTpdos(n) ELSE NoTpdos
    /\ UNCHANGED <<wire, valid, sync_counter, aux_sync_counter, aux_sync_reg, msgVars>>

\* Without sync mode TPDOs and SDO handlers have every tick.
Unscheduled(n) ==
    /\ Turns(n) /\ ~valid[n]
    /\ ServeTpdos(n)
    /\ UNCHANGED <<wire, valid, cycleVars, msgVars>>

Process(n) == Generate(n) \/ Take(n) \/ Count(n) \/ Unscheduled(n)

------------------------------------------------------------------------------
(* The bus, time and the application *)

\* CO_can_receive_basic_handle: a newer SYNC overwrites one not yet taken.
Receive(n) ==
    /\ n \in wire /\ wire' = wire \ {n}
    /\ is_new' = [is_new EXCEPT ![n] = TRUE]
    /\ msg_counter' = [msg_counter EXCEPT ![n] = sync_counter[Producer]]
    /\ msg_aux' = [msg_aux EXCEPT ![n] = aux_sync_counter[Producer]]
    /\ UNCHANGED <<due, valid, cycleVars, send_request, sends, switches>>

Lose(n) ==
    /\ n \in wire /\ wire' = wire \ {n}
    /\ UNCHANGED <<due, valid, cycleVars, msgVars, send_request, sends, switches>>

\* The next millisecond: every node's timer fires once, and no SYNC is later than Delay.
Tick ==
    /\ due = {} /\ due' = Node
    /\ wire = {} \/ index_in_cycle[Producer] < Delay
    /\ UNCHANGED <<wire, valid, cycleVars, msgVars, send_request, sends, switches>>

\* CO_TPDO_send_request; that of a cyclic TPDO is never read.
SendRequest(t) ==
    /\ Kind[t] # "cyclic"
    /\ send_request' = send_request \cup {t}
    /\ UNCHANGED <<due, wire, valid, cycleVars, msgVars, sends, switches>>

\* sm_co_disable_sync_mode and sm_co_enable_sync_mode: transmission types and TPDOs are
\* left, or put back, as they were set.  A second call changes nothing.
SwitchMode(n) ==
    /\ switches < Switches /\ switches' = switches + 1
    /\ valid' = [valid EXCEPT ![n] = ~@]
    /\ UNCHANGED <<due, wire, cycleVars, msgVars, send_request, sends>>

Next ==
    \/ \E n \in Node : Process(n) \/ Receive(n) \/ Lose(n) \/ SwitchMode(n)
    \/ Tick
    \/ \E t \in Tpdo : SendRequest(t)

\* Timers keep firing, and of the SYNC frames some always get through.
Fairness ==
    /\ WF_vars(Tick \/ \E n \in Node : Process(n))
    /\ \A n \in Consumer : SF_vars(Receive(n))

Spec == Init /\ [][Next]_vars /\ Fairness

------------------------------------------------------------------------------
\* Every variable holds a value of its type.
TypeOK ==
    /\ due \subseteq Node /\ wire \subseteq Consumer
    /\ valid \in [Node -> BOOLEAN] /\ is_new \in [Node -> BOOLEAN]
    /\ index_in_cycle \in [Node -> 0 .. MaxIndex]
    /\ sync_counter \in [Node -> 0 .. MaxCounter] /\ msg_counter \in [Node -> 0 .. MaxCounter]
    /\ aux_sync_counter \in [Node -> 0 .. MaxAux] /\ msg_aux \in [Node -> 0 .. MaxAux]
    /\ aux_sync_reg \in [Node -> SUBSET (0 .. MaxAux)]
    /\ send_request \subseteq Tpdo /\ sends \in [Tpdo -> 0 .. 2]
    /\ switches \in 0 .. Switches

InSync == switches = 0

\* Milliseconds begun since the last SYNC was produced
Elapsed == index_in_cycle[Producer] + (IF Producer \in due THEN 1 ELSE 0)

\* The node's TPDOs have the next tick, for a SYNC and not at power-up.
Ready(n) == index_in_cycle[n] = 0 /\ sync_counter[n] # 0

\* A SYNC is received within Delay, taken at the node's next tick and acted upon at the
\* one after.
InTime(n) ==
    /\ n \in wire => Elapsed <= Delay
    /\ is_new[n] => Elapsed <= Delay + (IF n \in due THEN 1 ELSE 0)
    /\ Ready(n) => Elapsed <= Delay + (IF n \in due THEN 2 ELSE 1)

\* At each node there is one SYNC at a time.
OneAtATime(n) == /\ n \in wire => ~is_new[n] /\ ~Ready(n)
                 /\ is_new[n] => n \in Consumer /\ ~Ready(n)

\* It is the last one produced; before the first, no bit of aux_sync_reg is set.
Current(n) ==
    /\ n \in wire \/ is_new[n] \/ Ready(n) => sync_counter[Producer] # 0
    /\ is_new[n] => /\ msg_counter[n] = sync_counter[Producer]
                    /\ msg_aux[n] = aux_sync_counter[Producer]
    /\ Ready(n) => /\ sync_counter[n] = sync_counter[Producer]
                   /\ aux_sync_counter[n] = aux_sync_counter[Producer]
    /\ aux_sync_reg[n] \subseteq {aux_sync_counter[n]}
    /\ sync_counter[n] = 0 => aux_sync_reg[n] = {}

\* Nothing has been sent for it.
Unsent(n) == n \in wire \/ is_new[n] \/ Ready(n) =>
                \A t \in Tpdo : Owner[t] = n => sends[t] = 0

\* While no node has left sync mode, every SYNC is lost or acted upon before the next is
\* produced, though nodes' ticks come in any order (CO_SYNC.c 52-100 at each node against
\* CO_SYNC.c 69-85 at the producer).
OneSyncAtATime ==
    InSync => /\ index_in_cycle[Producer] < Period
              /\ \A n \in Node :
                     valid[n] /\ InTime(n) /\ OneAtATime(n) /\ Current(n) /\ Unsent(n)

ScheduleInv == TypeOK /\ OneSyncAtATime

\* While no node has left sync mode, the bus keeps the timetable: each cyclic TPDO is sent
\* at most once in a slot of its own, at all nodes' ticks and whatever SYNCs are late or
\* lost (CO_TPDO.c 112).
Table == INSTANCE Timetable WITH
    Talker <- Tpdo, Columns <- MaxCounter, Rows <- MaxAux,
    Column <- Slot, Row <- Mask,
    column <- sync_counter[Producer], row <- aux_sync_counter[Producer], said <- sends
TimetableSpec == Table!Init /\ [][InSync' => Table!Next \/ UNCHANGED Table!vars]_vars

\* The SDO handlers of every node run again and again, whether SYNCs arrive or not, and
\* a TPDO asked for is sent in the end, if its type allows and SYNCs are produced (CO.c
\* 27-35).
AllServed ==
    /\ \A n \in Node : []<>(index_in_cycle[n] >= 2 \/ ~valid[n])
    /\ \A t \in Tpdo :
           t \in send_request ~> t \notin send_request \/ ~valid[Producer]
==============================================================================
