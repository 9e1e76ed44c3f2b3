------------------------------ MODULE TaskGraph ------------------------------
(***************************************************************************)
(* What a run promises about its tasks (executeDag, orchestrator.ts:1881-   *)
(* 1952; refreshTaskStates, dag.ts:500-531): they are a graph, executed      *)
(* within a budget and only when all they depend on was accepted.  A task    *)
(* ends once: accepted or failed after it was executed, blocked because      *)
(* something it depends on ended otherwise, or cancelled.  Here are no       *)
(* leases, work orders, validations, retries, signals, crashes or resumes.   *)
(***************************************************************************)
EXTENDS Naturals

CONSTANTS Tasks, Deps, Budget

VARIABLES
  verdict,      \* verdict[t]: how t has ended, "open" before
  executions    \* executions[t]: how often it was executed

vars == <<verdict, executions>>

Lost == {"failed", "blocked", "cancelled"}
Verdicts == Lost \cup {"open", "accepted"}

Init == verdict = [t \in Tasks |-> "open"] /\ executions = [t \in Tasks |-> 0]

MayRun(t) == verdict[t] = "open" /\ \A d \in Deps[t] : verdict[d] = "accepted"

Execute(t) ==
  /\ MayRun(t) /\ executions[t] < Budget[t]
  /\ executions' = [executions EXCEPT ![t] = @ + 1] /\ UNCHANGED verdict

Accept(t) ==
  /\ MayRun(t) /\ executions[t] > 0
  /\ verdict' = [verdict EXCEPT ![t] = "accepted"] /\ UNCHANGED executions

\* One or several tasks are lost; what is lost or accepted stays so.
GiveUp ==
  /\ verdict' \in [Tasks -> Verdicts] /\ UNCHANGED executions
  /\ \A t \in Tasks : verdict'[t] # verdict[t] =>
       /\ verdict[t] = "open" /\ verdict'[t] \in Lost
       /\ verdict'[t] = "failed" => executions[t] > 0
       /\ verdict'[t] = "blocked" => \E d \in Deps[t] : verdict'[d] \in Lost

Next == GiveUp \/ \E t \in Tasks : Execute(t) \/ Accept(t)

Spec == Init /\ [][Next]_vars
=============================================================================
