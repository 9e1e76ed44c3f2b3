----------------------------- MODULE MCRunStore -----------------------------
(* RunStore on a runner and a second process that opens the same run. *)
EXTENDS RunStore, TLC

CONSTANTS runner, observer

MCProcesses == {runner, observer}
MCTorn == {"torn"}
=============================================================================
