--------------------------- MODULE MCSyncSchedule ----------------------------
(* A producer and a consumer with a cyclic TPDO each, in different slots and   *)
(* rows, an acyclic one at the consumer and an event-driven one at the         *)
(* producer.                                                                   *)
EXTENDS SyncSchedule

CONSTANTS pmu, mc, p, c, a, e

Nodes  == {pmu, mc}
Tpdos  == {p, c, a, e}
OwnerOf == [t \in Tpdos |-> IF t \in {p, e} THEN pmu ELSE mc]
KindOf  == [t \in Tpdos |-> IF t = a THEN "acyclic" ELSE IF t = e THEN "event" ELSE "cyclic"]
SlotOf  == [t \in Tpdos |-> IF t = p THEN 1 ELSE IF t = c THEN 2 ELSE 0]
MaskOf  == [t \in Tpdos |-> IF t = c THEN {1} ELSE {0, 1}]
==============================================================================
