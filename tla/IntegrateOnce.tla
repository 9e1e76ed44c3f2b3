---------------------------- MODULE IntegrateOnce ----------------------------
(***************************************************************************)
(* What the host of the coding pipeline relies on (integrateAcceptedCodingTask,*)
(* orchestrator.ts:2929-3413): an order's commit enters the target at most   *)
(* once, behind a durable intent; one verdict is then given for ever, every  *)
(* answer is that verdict, and only an answer "integrated" is recorded in the *)
(* run.  Here are no processes, attempts, locks, faults or crashes.          *)
(* A verdict "conflict" does not say that the commit is not in the target:   *)
(* a swap killed by its timeout counts as lost.                              *)
(***************************************************************************)
EXTENDS Naturals

CONSTANT Orders

VARIABLES
  intended,   \* orders whose commit may be in the target
  landings,   \* landings[o]: how often the commit of o was put into the target
  verdict,    \* verdict[o]: "none", or how the integration of o has ended
  answers,    \* answers[o]: what the host was told
  recorded    \* orders that are INTEGRATED in the run

vars == <<intended, landings, verdict, answers, recorded>>

Init ==
  /\ intended = {} /\ recorded = {}
  /\ landings = [o \in Orders |-> 0] /\ verdict = [o \in Orders |-> "none"]
  /\ answers = [o \in Orders |-> {}]

Intend(o) ==
  /\ o \notin intended /\ intended' = intended \cup {o}
  /\ UNCHANGED <<landings, verdict, answers, recorded>>

\* Once, and never after the verdict.
Land(o) ==
  /\ o \in intended /\ landings[o] = 0 /\ verdict[o] = "none"
  /\ landings' = [landings EXCEPT ![o] = 1]
  /\ UNCHANGED <<intended, verdict, answers, recorded>>

Decide(o) ==
  /\ o \in intended /\ verdict[o] = "none"
  /\ \E v \in {"integrated", "conflict"} :
       /\ v = "integrated" => landings[o] > 0
       /\ verdict' = [verdict EXCEPT ![o] = v]
  /\ UNCHANGED <<intended, landings, answers, recorded>>

Answer(o) ==
  /\ verdict[o] # "none"
  /\ answers' = [answers EXCEPT ![o] = @ \cup {verdict[o]}]
  /\ UNCHANGED <<intended, landings, verdict, recorded>>

Record(o) ==
  /\ "integrated" \in answers[o] /\ recorded' = recorded \cup {o}
  /\ UNCHANGED <<intended, landings, verdict, answers>>

Next == \E o \in Orders : Intend(o) \/ Land(o) \/ Decide(o) \/ Answer(o) \/ Record(o)

Spec == Init /\ [][Next]_vars
=============================================================================
