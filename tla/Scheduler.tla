------------------------------ MODULE Scheduler ------------------------------
(***************************************************************************)
(* The tasks of one run: SwarmOrchestrator.executeDag, executeTask,        *)
(* validateTask, handleTaskFailure, runPipeline and resume                 *)
(* (src/src/orchestrator.ts), refreshTaskStates (src/src/dag.ts) and the   *)
(* work order kept for every task (src/src/harness-v2/work-orders.ts).     *)
(*                                                                         *)
(* Several executions and the scheduler are interleaved at their awaits in *)
(* one process.  A step is one commit of the run state, which RunStore     *)
(* makes atomic and durable, or what happens between two of them.  Tasks   *)
(* that change the workspace (the coding pipeline) are not modelled.       *)
(***************************************************************************)
EXTENDS Integers, FiniteSets

CONSTANTS Tasks, Deps,   \* Deps[t]: the tasks t depends on
          MaxAttempts,   \* MaxAttempts[t]: maxAttempts of t and of its order
          MaxTroubles    \* bound: signals, crashes, tasks cancelled and I/O errors together

ASSUME SchedulerAssumption ==
  /\ IsFiniteSet(Tasks) /\ Deps \in [Tasks -> SUBSET Tasks]
  /\ \E rank \in [Tasks -> 1..Cardinality(Tasks)] :
       \A t \in Tasks : \A d \in Deps[t] : rank[d] < rank[t]
  /\ MaxAttempts \in [Tasks -> Nat \ {0}]
  /\ MaxTroubles \in Nat

\* maxValidationAttempts of its order.
MaxReviews(t) == IF MaxAttempts[t] < 3 THEN MaxAttempts[t] ELSE 3

VARIABLES
  run,        \* status of the run
  status,     \* status[t], attempts[t], leased[t]: TaskRecord; its leaseId is
  attempts,   \* that of the execution under way or has been deleted
  leased,
  order,      \* order[t], executed[t], reviewed[t]: WorkOrderRecordV2, its state,
  executed,   \* executionAttempts and validationAttempts
  reviewed,
  published,  \* published[t]: accepted output and handoffs are in the artifact heads
  dag,        \* where the scheduler stands, see Places
  picked,     \* tasks it is about to launch
  error,      \* what ends the pipeline: "none", "projection" or "other"
  at,         \* at[t]: where the execution of t stands, see Stages
  signal,     \* the abort signal of this process
  troubles    \* counted against the bound

record == <<status, attempts, leased, order, executed, reviewed, published>>
vars == <<run, record, dag, picked, error, at, signal, troubles>>

Waiting == {"planned", "ready", "retry_wait"}
Halted == {"failed", "blocked", "cancelled"}
Open == Waiting \cup {"running", "validating"}
Closed == {"INTEGRATED", "CANCELLED", "FAILED"}
Orders == Closed \cup {"BLOCKED", "READY", "EXECUTING", "VALIDATING", "REWORK_REQUIRED",
                       "VALIDATION_RETRY", "ACCEPTED", "INTERRUPTED"}
Finished == {"completed", "partial", "failed", "cancelled"}
Places == {"replay", "refresh", "announce", "launch", "race", "settle", "drained", "integrate",
           "exit", "reconcile", "over", "down"}
Reviewing == {"review", "rereview"}
Publishing == {"publish", "republish"}
Stages == {"idle", "start", "work", "reject", "tail"} \cup Reviewing \cup Publishing

TypeOK ==
  /\ run \in Finished \cup {"running", "interrupted"}
  /\ status \in [Tasks -> Open \cup Halted \cup {"accepted"}]
  /\ leased \in [Tasks -> BOOLEAN] /\ published \in [Tasks -> BOOLEAN]
  /\ order \in [Tasks -> Orders]
  /\ attempts \in [Tasks -> Nat] /\ executed \in [Tasks -> Nat] /\ reviewed \in [Tasks -> Nat]
  /\ \A t \in Tasks : attempts[t] <= executed[t] /\ executed[t] <= MaxAttempts[t]
                      /\ reviewed[t] <= MaxReviews(t)
  /\ dag \in Places /\ picked \subseteq Tasks /\ error \in {"none", "projection", "other"}
  /\ at \in [Tasks -> Stages] /\ signal \in {"none", "interrupt", "cancel"}
  /\ troubles \in 0..MaxTroubles

\* The plan has been made: recordsFromPlan, createWorkOrderRecord.
Init ==
  /\ run = "running" /\ dag = "refresh" /\ picked = {} /\ error = "none" /\ signal = "none"
  /\ status = [t \in Tasks |-> "planned"]
  /\ attempts = [t \in Tasks |-> 0] /\ leased = [t \in Tasks |-> FALSE]
  /\ order = [t \in Tasks |-> IF Deps[t] = {} THEN "READY" ELSE "BLOCKED"]
  /\ executed = [t \in Tasks |-> 0] /\ reviewed = [t \in Tasks |-> 0]
  /\ published = [t \in Tasks |-> FALSE] /\ at = [t \in Tasks |-> "idle"]
  /\ troubles = 0

Running == {t \in Tasks : at[t] # "idle"}
Trouble == troubles < MaxTroubles /\ troubles' = troubles + 1

-----------------------------------------------------------------------------
(* The scheduler: executeDag. *)

\* (mutated form: one of them suffices)
SomeDepAccepted(t) == Deps[t] = {} \/ \E d \in Deps[t] : status[d] = "accepted"
DepsAccepted(t) == \A d \in Deps[t] : status[d] = "accepted"

\* Waiting tasks with a dependency that never will be accepted, directly or through others.
Stuck(tasks) == tasks = {t \in Tasks : /\ status[t] \in Waiting
                                       /\ \E d \in Deps[t] : status[d] \in Halted \/ d \in tasks}

\* refreshTaskStates, repeated until nothing changes.
Refreshed(stuck) == [t \in Tasks |->
  CASE status[t] \notin Waiting -> status[t]
    [] t \in stuck -> "blocked"
    [] OTHER -> IF DepsAccepted(t) THEN "ready" ELSE status[t]]

\* The ready tasks are chosen (readyTasks).  With none of them and nothing running
\* the loop ends, and everything must have settled.
Choose(next) ==
  LET ready == {t \in Tasks : next[t] = "ready" /\ at[t] = "idle"}
  IN  IF ready # {} THEN dag' = "launch" /\ picked' = ready /\ UNCHANGED error
      ELSE /\ picked' = {}
           /\ IF Running # {} THEN dag' = "race" /\ UNCHANGED error
              ELSE IF \E t \in Tasks : next[t] \in Open THEN dag' = "exit" /\ error' = "other"
              ELSE dag' = "drained" /\ UNCHANGED error

\* Events are written for the tasks that changed before the next step is chosen.
Refresh ==
  /\ dag = "refresh" /\ signal = "none"
  /\ \E stuck \in SUBSET Tasks : Stuck(stuck) /\ status' = Refreshed(stuck)
  /\ IF status' = status THEN Choose(status)
     ELSE dag' = "announce" /\ UNCHANGED <<picked, error>>
  /\ UNCHANGED <<run, attempts, leased, order, executed, reviewed, published, at, signal, troubles>>

Announced ==
  /\ dag = "announce" /\ Choose(status)
  /\ UNCHANGED <<run, record, at, signal, troubles>>

\* Directives have been reloaded in between.
Launch ==
  /\ dag = "launch" /\ dag' = "race" /\ picked' = {}
  /\ at' = [t \in Tasks |-> IF t \in picked THEN "start" ELSE at[t]]
  /\ UNCHANGED <<run, record, error, signal, troubles>>

\* An aborted loop waits for its executions.
Aborted ==
  /\ dag = "refresh" /\ signal # "none" /\ dag' = "settle"
  /\ UNCHANGED <<run, record, picked, error, at, signal, troubles>>

AllSettled ==
  /\ dag = "settle" /\ Running = {} /\ dag' = "exit" /\ error' = "other"
  /\ UNCHANGED <<run, record, picked, at, signal, troubles>>

-----------------------------------------------------------------------------
(* One execution: executeTask. *)

Stage(t, stage) == at' = [at EXCEPT ![t] = stage]

\* One commit that changes the record of t, and its execution.
Commit(t, next, lease, state) ==
  /\ status' = [status EXCEPT ![t] = next]
  /\ leased' = [leased EXCEPT ![t] = lease]
  /\ order' = [order EXCEPT ![t] = state]

AttemptLeft(t) == attempts[t] < MaxAttempts[t]  \* (mutated form: of the refunded counter)
ExecutionLeft(t) == executed[t] < MaxAttempts[t]

\* The order a task is executed from; leasing any other throws.
Leasable == {"READY", "BLOCKED", "REWORK_REQUIRED", "INTERRUPTED"}

Begin(t) ==
  /\ at[t] = "start" /\ status[t] = "ready" /\ order[t] \in Leasable /\ ExecutionLeft(t)
  /\ Commit(t, "running", TRUE, "EXECUTING") /\ Stage(t, "work")
  /\ attempts' = [attempts EXCEPT ![t] = @ + 1]
  /\ executed' = [executed EXCEPT ![t] = @ + 1]
  /\ UNCHANGED <<run, reviewed, published, dag, picked, error, signal, troubles>>

\* A preserved result is only validated again.
BeginReview(t) ==
  /\ at[t] = "start" /\ status[t] = "ready"
  /\ order[t] = "VALIDATION_RETRY" /\ reviewed[t] < MaxReviews(t)
  /\ Commit(t, "validating", TRUE, "VALIDATING") /\ Stage(t, "rereview")
  /\ reviewed' = [reviewed EXCEPT ![t] = @ + 1]
  /\ UNCHANGED <<run, attempts, executed, published, dag, picked, error, signal, troubles>>

Exhausted(t) ==
  /\ at[t] = "start" /\ status[t] = "ready"
  /\ IF order[t] = "VALIDATION_RETRY" THEN reviewed[t] >= MaxReviews(t) ELSE ~ExecutionLeft(t)
  /\ Commit(t, "failed", leased[t], "FAILED") /\ Stage(t, "tail")
  /\ UNCHANGED <<run, attempts, executed, reviewed, published, dag, picked, error, signal,
                 troubles>>

\* The operator has cancelled it, or its order cannot be leased.
CannotBegin(t) ==
  /\ at[t] = "start"
  /\ \/ status[t] # "ready" /\ Stage(t, "tail")
     \/ /\ status[t] = "ready" /\ order[t] \notin Leasable \cup {"VALIDATION_RETRY"}
        /\ ExecutionLeft(t) /\ Stage(t, "reject")
  /\ UNCHANGED <<run, record, dag, picked, error, signal, troubles>>

\* ensureMissionCellForTask fails, outside any handler.
CellFails(t) ==
  /\ at[t] = "work" /\ Trouble /\ Stage(t, "reject")
  /\ UNCHANGED <<run, record, dag, picked, error, signal>>

\* The result is persisted; without the lease it is dropped.
Submit(t) ==
  /\ at[t] = "work" /\ \A d \in Deps[t] : published[d]
  /\ IF leased[t]
     THEN /\ status' = [status EXCEPT ![t] = "validating"] /\ Stage(t, "review")
          /\ IF order[t] \in Closed THEN UNCHANGED <<order, reviewed>>
             ELSE /\ order' = [order EXCEPT ![t] = "VALIDATING"]
                  /\ reviewed' = [reviewed EXCEPT ![t] = @ + 1]
     ELSE Stage(t, "tail") /\ UNCHANGED <<status, order, reviewed>>
  /\ UNCHANGED <<run, attempts, leased, executed, published, dag, picked, error, signal, troubles>>


GivenUpLeased(state) == IF state = "EXECUTING" THEN "FAILED" ELSE state  \* (mutated form)
GivenUp(state) == IF state \in Closed THEN state ELSE "FAILED"

\* handleTaskFailure.  What the execution reports troubles only while it has the lease.
Failed(t, kind) ==
  IF ~leased[t] \/ status[t] = "accepted" THEN UNCHANGED <<status, attempts, leased, order>>
  ELSE IF signal # "none"
  THEN /\ attempts' = [attempts EXCEPT ![t] = IF @ > 0 THEN @ - 1 ELSE 0]
       /\ IF signal = "interrupt"
          THEN Commit(t, "ready", FALSE, CASE order[t] = "EXECUTING" -> "READY"
                                           [] order[t] = "VALIDATING" -> "VALIDATION_RETRY"
                                           [] OTHER -> order[t])
          ELSE Commit(t, "cancelled", FALSE,
                      IF order[t] \in {"EXECUTING", "VALIDATING"} THEN "CANCELLED" ELSE order[t])
  ELSE /\ UNCHANGED attempts
       /\ IF kind = "transient" /\ order[t] = "VALIDATING" /\ reviewed[t] < MaxReviews(t)
          THEN Commit(t, "retry_wait", FALSE, "VALIDATION_RETRY")
          ELSE IF kind = "transient" /\ attempts[t] < MaxAttempts[t]
          THEN Commit(t, "retry_wait", FALSE,
                      IF order[t] = "EXECUTING" THEN "INTERRUPTED" ELSE order[t])
          ELSE Commit(t, "failed", FALSE, GivenUp(order[t]))

\* The worker fails, or an input artifact is not there yet.
WorkFails(t) ==
  /\ at[t] = "work" /\ Stage(t, "tail")
  /\ \E kind \in {"transient", "permanent"} : Failed(t, kind)
  /\ UNCHANGED <<run, executed, reviewed, published, dag, picked, error, signal, troubles>>

\* The validation throws: an artifact cannot be read or written.
ReviewBreaks(t) ==
  /\ at[t] \in Reviewing /\ Trouble /\ Stage(t, "tail") /\ Failed(t, "transient")
  /\ UNCHANGED <<run, executed, reviewed, published, dag, picked, error, signal>>

\* The calls of the reviewers fail, as those of an aborted run do.
ReviewersFail(t) ==
  /\ at[t] \in Reviewing /\ Stage(t, "tail")
  /\ IF ~leased[t] THEN UNCHANGED <<status, leased, order>>
     ELSE IF order[t] = "VALIDATING" /\ reviewed[t] < MaxReviews(t)
     THEN Commit(t, "retry_wait", FALSE, "VALIDATION_RETRY")
     ELSE Commit(t, "failed", FALSE, IF order[t] = "VALIDATING" THEN "FAILED" ELSE order[t])
  /\ UNCHANGED <<run, attempts, executed, reviewed, published, dag, picked, error, signal,
                 troubles>>

Publication == [review |-> "publish", rereview |-> "republish"]

Accept(t) ==
  /\ at[t] \in Reviewing /\ leased[t] /\ Stage(t, Publication[at[t]])
  /\ Commit(t, "accepted", FALSE, IF order[t] = "VALIDATING" THEN "ACCEPTED" ELSE order[t])
  /\ UNCHANGED <<run, attempts, executed, reviewed, published, dag, picked, error, signal,
                 troubles>>

Rework(t) ==
  /\ at[t] \in Reviewing /\ leased[t] /\ Stage(t, "tail")
  /\ IF attempts[t] < MaxAttempts[t]
     THEN /\ Commit(t, "retry_wait", FALSE,
                    IF order[t] = "VALIDATING" THEN "REWORK_REQUIRED" ELSE order[t])
          /\ reviewed' = [reviewed EXCEPT ![t] = IF order[t] = "VALIDATING" THEN 0 ELSE @]
     ELSE /\ Commit(t, "failed", FALSE, IF order[t] = "VALIDATING" THEN "FAILED" ELSE order[t])
          /\ UNCHANGED reviewed
  /\ UNCHANGED <<run, attempts, executed, published, dag, picked, error, signal, troubles>>

\* A decision without the lease changes no record.  What it accepted is still published
\* if the receipts of an earlier round are there to go with it.
DecideLate(t) ==
  /\ at[t] \in Reviewing /\ ~leased[t]
  /\ \/ Stage(t, "tail")
     \/ executed[t] > 1 /\ Stage(t, Publication[at[t]])
  /\ UNCHANGED <<run, record, dag, picked, error, signal, troubles>>

Publish(t) ==
  /\ at[t] \in Publishing /\ Stage(t, "tail")
  /\ published' = [published EXCEPT ![t] = TRUE]
  /\ UNCHANGED <<run, status, attempts, leased, order, executed, reviewed, dag, picked, error,
                 signal, troubles>>

\* (mutated form: the failure is charged to the accepted task)
PublishFailsTask(t) ==
  /\ at[t] \in Publishing /\ Trouble /\ Stage(t, "tail")
  /\ status' = [status EXCEPT ![t] = "failed"]
  /\ UNCHANGED <<run, attempts, leased, order, executed, reviewed, published, dag, picked, error,
                 signal>>

\* Only executeTask's second handler asks for the projection to be replayed.
PublishFails(t) ==
  /\ at[t] \in Publishing /\ Trouble
  /\ Stage(t, IF at[t] = "publish" /\ status[t] = "accepted" THEN "reject" ELSE "tail")
  /\ UNCHANGED <<run, record, dag, picked, error, signal>>

Asleep == dag  \* (mutated form: the end of an execution is not noticed)
Woken == IF dag = "race" THEN "refresh" ELSE dag

\* Events, traces and metrics are written, and the execution ends.
Return(t) ==
  /\ at[t] = "tail" /\ Stage(t, "idle") /\ dag' = Woken
  /\ UNCHANGED <<run, record, picked, error, signal, troubles>>

\* A rejected execution ends the pipeline, if the scheduler is waiting for it.
Reject(t) ==
  /\ at[t] = "reject" /\ Stage(t, "idle")
  /\ IF dag = "race"
     THEN dag' = "exit" /\ error' = IF status[t] = "accepted" THEN "projection" ELSE "other"
     ELSE UNCHANGED <<dag, error>>
  /\ UNCHANGED <<run, record, picked, signal, troubles>>

-----------------------------------------------------------------------------
(* The end of the pipeline, and what comes after it: runPipeline, resume. *)

\* Reports are synthesised and judged, and the outcome is committed.
Finish ==
  /\ dag = "drained" /\ signal = "none" /\ dag' = "integrate"
  /\ \E t \in Tasks : status[t] = "accepted"
  /\ run' \in {"completed", "partial"}
  /\ run' = "completed" => \A t \in Tasks : status[t] = "accepted"
  /\ UNCHANGED <<record, picked, error, at, signal, troubles>>

\* Nothing was accepted, a report cannot be made, or the operator interferes.
CannotFinish ==
  /\ dag = "drained" /\ dag' = "exit" /\ error' = "other"
  /\ UNCHANGED <<run, record, picked, at, signal, troubles>>

\* The final report is published, and what was accepted is integrated.
Integrate ==
  /\ dag = "integrate" /\ dag' = "over"
  /\ order' = [t \in Tasks |-> IF order[t] = "ACCEPTED" THEN "INTEGRATED" ELSE order[t]]
  /\ UNCHANGED <<run, status, attempts, leased, executed, reviewed, published, picked, error,
                 at, signal, troubles>>

IntegrateFails ==
  /\ dag = "integrate" /\ Trouble /\ dag' = "exit" /\ error' = "other"
  /\ UNCHANGED <<run, record, picked, at, signal>>

KeepLeases(next) == leased  \* (mutated form)
DropLeases(next) == [t \in Tasks |-> leased[t] /\ next[t] = status[t]]

\* The handler of runPipeline.  First commits of executions come before its own.
Exit ==
  /\ dag = "exit" /\ dag' = "reconcile"
  /\ \A t \in Tasks : at[t] # "start"
  /\ run' = CASE error = "projection" \/ signal = "interrupt" -> "interrupted"
              [] signal = "cancel" -> "cancelled"
              [] OTHER -> "failed"
  /\ status' = [t \in Tasks |->
       CASE run' = "interrupted" /\ status[t] \in {"retry_wait", "running", "validating"} -> "ready"
         [] run' = "cancelled" /\ status[t] \in Open -> "cancelled"
         [] OTHER -> status[t]]
  /\ leased' = DropLeases(status')
  /\ UNCHANGED <<attempts, order, executed, reviewed, published, picked, error, at, signal,
                 troubles>>

ReconciledLeased(state) ==  \* (mutated form: orders being validated are forgotten)
  CASE state \in Closed \cup {"VALIDATING"} -> state
    [] state = "ACCEPTED" -> "INTEGRATED"
    [] run = "interrupted" -> IF state = "EXECUTING" THEN "INTERRUPTED" ELSE state
    [] OTHER -> IF run = "cancelled" THEN "CANCELLED" ELSE "FAILED"

Reconciled(state) ==
  CASE state \in Closed -> state
    [] state = "ACCEPTED" -> "INTEGRATED"
    [] run = "interrupted" -> (CASE state = "EXECUTING" -> "INTERRUPTED"
                                 [] state = "VALIDATING" -> "VALIDATION_RETRY"
                                 [] OTHER -> state)
    [] OTHER -> IF run = "cancelled" THEN "CANCELLED" ELSE "FAILED"

\* reconcileCompanyWorkOrdersAfterPipelineExit.
Reconcile ==
  /\ dag = "reconcile" /\ dag' = "over"
  /\ order' = [t \in Tasks |-> Reconciled(order[t])]
  /\ UNCHANGED <<run, status, attempts, leased, executed, reviewed, published, picked, error,
                 at, signal, troubles>>

\* The run is resumed by another process, or by this one with a new orchestrator; the
\* executions of an earlier one can no longer commit.
Resume ==
  /\ dag \in {"over", "down"} /\ run \notin Finished
  /\ run' = "running" /\ dag' = "replay"
  /\ error' = "none" /\ signal' = "none" /\ at' = [t \in Tasks |-> "idle"]
  /\ status' = [t \in Tasks |->
       IF status[t] \in {"running", "validating", "retry_wait"} THEN "ready" ELSE status[t]]
  /\ leased' = DropLeases(status')
  /\ order' = [t \in Tasks |->
       CASE status[t] = "validating" /\ order[t] = "VALIDATING" -> "VALIDATION_RETRY"
         [] status[t] = "running" /\ order[t] = "EXECUTING" -> "READY"
         [] status'[t] = "ready" /\ order[t] = "INTERRUPTED" -> "READY"
         [] OTHER -> order[t]]
  /\ UNCHANGED <<attempts, executed, reviewed, published, picked, troubles>>

\* reconcileAcceptedTaskPublications: what was accepted is published again.
Replay ==
  /\ dag = "replay" /\ dag' = "refresh"
  /\ \A t \in Tasks : status[t] = "accepted" => order[t] \in {"ACCEPTED", "INTEGRATED"}
  /\ published' = [t \in Tasks |-> published[t] \/ status[t] = "accepted"]
  /\ UNCHANGED <<run, status, attempts, leased, order, executed, reviewed, picked, error, at,
                 signal, troubles>>

ReplayFails ==
  /\ dag = "replay" /\ Trouble /\ dag' = "exit" /\ error' = "other"
  /\ UNCHANGED <<run, record, picked, at, signal>>

-----------------------------------------------------------------------------
(* The operator, and crashes. *)

Alive == dag \notin {"over", "down"}

CancelTask(t) ==
  /\ Alive /\ Trouble
  /\ status[t] \in {"planned", "ready"} /\ status' = [status EXCEPT ![t] = "cancelled"]
  /\ UNCHANGED <<run, attempts, leased, order, executed, reviewed, published, dag, picked, error,
                 at, signal>>

Signal(kind) ==
  /\ Alive /\ signal = "none" /\ Trouble /\ signal' = kind
  /\ UNCHANGED <<run, record, dag, picked, error, at>>

Crash ==
  /\ Alive /\ Trouble /\ dag' = "down"
  /\ picked' = {} /\ error' = "none" /\ signal' = "none" /\ at' = [t \in Tasks |-> "idle"]
  /\ UNCHANGED <<run, record>>

Schedule == Refresh \/ Announced \/ Launch \/ Aborted \/ AllSettled \/ Finish \/ CannotFinish
            \/ Integrate \/ IntegrateFails \/ Exit \/ Reconcile \/ Replay \/ ReplayFails
Execute(t) == Begin(t) \/ BeginReview(t) \/ Exhausted(t) \/ CannotBegin(t) \/ CellFails(t)
              \/ Submit(t) \/ WorkFails(t) \/ ReviewBreaks(t) \/ ReviewersFail(t) \/ Accept(t)
              \/ Rework(t) \/ DecideLate(t) \/ Publish(t) \/ PublishFails(t)
              \/ Return(t) \/ Reject(t)
Operator == Resume \/ Crash \/ (\E t \in Tasks : CancelTask(t))
            \/ (\E kind \in {"interrupt", "cancel"} : Signal(kind))

Next == Schedule \/ (\E t \in Tasks : Execute(t)) \/ Operator

Spec == Init /\ [][Next]_vars

\* The event loop runs on; every call of an agent ends.
FairSpec == Spec /\ WF_vars(Schedule) /\ \A t \in Tasks : WF_vars(Execute(t))

-----------------------------------------------------------------------------
(* Properties. *)

\* A task is made ready, executed and accepted only after all it depends on was
\* accepted, and blocked only because some of it never will be (refreshTaskStates; the
\* first invariant of the architecture document), whatever fails, is cancelled or
\* resumed meanwhile.
StartsAfterDependencies == \A t \in Tasks :
  /\ status[t] \in (Open \ {"planned"}) \cup {"accepted"} =>
       \A d \in Deps[t] : status[d] = "accepted"
  /\ status[t] = "blocked" => \E d \in Deps[t] : status[d] \in Halted

\* An accepted result is never taken back: not by an execution of the task that fails
\* later, not by the exits of the pipeline or by a resume (orchestrator.ts:5284).
AcceptedStays == [][\A t \in Tasks : status[t] = "accepted" => status'[t] = "accepted"]_vars

\* Taken together, the scheduler, its executions and their failures, the exits and the
\* resumes execute a graph of tasks: in order, within the budget, and each ends once
\* (executeDag, executeTask, handleTaskFailure, refreshTaskStates).
Graph == INSTANCE TaskGraph WITH
           verdict <- [t \in Tasks |-> IF status[t] \in Open THEN "open" ELSE status[t]],
           executions <- executed, Budget <- MaxAttempts
ExecutesGraph == Graph!Spec

\* The two records kept of a task, updated in the same commits but by different code,
\* tell the same story until the run has failed (handleTaskFailure, transitionWorkOrder).
WorkOrderAgrees == run # "failed" => \A t \in Tasks :
  /\ status[t] = "running" => order[t] = "EXECUTING" /\ leased[t]
  /\ status[t] = "validating" => order[t] = "VALIDATING" /\ leased[t]
  /\ status[t] = "accepted" => order[t] \in {"ACCEPTED", "INTEGRATED"}
  /\ status[t] = "failed" => order[t] = "FAILED"
  /\ leased[t] => status[t] \in {"running", "validating"}
  /\ order[t] = "EXECUTING" => reviewed[t] = 0

\* Executions left behind by an interrupted or cancelled pipeline change nothing any
\* more: their lease is gone (orchestrator.ts:1155, 5284; fifth invariant of the document).
LateResultsDiscarded ==
  [][dag = "over" /\ dag' = "over" /\ run \in {"interrupted", "cancelled"} =>
       UNCHANGED <<status, attempts, leased, order>>]_vars

\* A run that has failed or was cancelled leaves no work order open, and one that was
\* interrupted none that only its dead executions could continue (7462-7508).
EndClosesOrders == dag = "over" => \A t \in Tasks :
  /\ run \in {"failed", "cancelled"} => order[t] \in Closed
  /\ run = "interrupted" => order[t] \notin {"EXECUTING", "VALIDATING"}

\* A pipeline that is not killed ends, with no execution it waits for forgotten.
RunSettles == Alive ~> ~Alive

\* "Scheduler stalled" (orchestrator.ts:1951) guards against a set of tasks that cannot
\* make progress; no retry that is waiting for its turn ends the run this way.
SchedulerNeverStalls ==
  [][dag' = "exit" => dag \notin {"refresh", "announce"}]_vars
=============================================================================
