----------------------------- MODULE MCScheduler ------------------------------
\* Small instances of Scheduler: two blinking tasks that share a function, and a third.
EXTENDS Scheduler

CONSTANTS left, right, sync, blink, other
Tasks == {left, right, sync}
Blinking == {left, right}
FnOf == [t \in Tasks |-> IF t \in Blinking THEN blink ELSE other]
==============================================================================
