----------------------------- MODULE MCFileLock -----------------------------
(* Instances of FileLock: three processes, so that one can die and two race. *)
EXTENDS FileLock

CONSTANTS cli, ui, runner

MCProcesses == {cli, ui, runner}
MCBoth == {"lock", "lease"}
=============================================================================
