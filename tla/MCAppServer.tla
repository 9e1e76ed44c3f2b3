----------------------------- MODULE MCAppServer -----------------------------
(* Instances of AppServer: two calls of one thread and one of another. *)
EXTENDS AppServer

CONSTANTS a, b, c, ta, tc

MCCalls == {a, b, c}
MCThreads == {ta, tc}
MCThreadOf == [x \in Calls |-> IF x = c THEN tc ELSE ta]
MCImages == {a}
=============================================================================
