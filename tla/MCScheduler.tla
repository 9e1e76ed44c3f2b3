---------------------------- MODULE MCScheduler ----------------------------
EXTENDS Scheduler

CONSTANTS a, b, c

Three == {a, b, c}
Join == [t \in Three |-> IF t = b THEN {a, c} ELSE {}]
Unequal == [t \in Three |-> IF t = c THEN 1 ELSE 2]
Equal == [t \in Three |-> 2]
=============================================================================
