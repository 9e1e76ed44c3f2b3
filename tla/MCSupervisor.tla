---------------------------- MODULE MCSupervisor ----------------------------
(* Instances of Supervisor: two calls of one thread and one of each other. *)
EXTENDS Supervisor

CONSTANTS a, b, c, d, ta, tc, td, east

MCCalls == {a, b, c, d}
MCThreads == {ta, tc, td}
MCThreadOf == [x \in Calls |-> CASE x \in {a, b} -> ta [] x = c -> tc [] OTHER -> td]
MCShards == {east}
MCShardOf == [t \in Threads |-> east]
=============================================================================
