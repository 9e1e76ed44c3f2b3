----------------------------- MODULE MCGateway ------------------------------
(* Instances of Gateway: two calls of one thread and one of another. *)
EXTENDS Gateway

CONSTANTS planner, worker, judge, main, side

MCCalls == {planner, worker, judge}
MCThreads == {main, side}
MCThreadOf == [c \in Calls |-> IF c = judge THEN side ELSE main]
MCRetryAfter == {0, 2}
=============================================================================
