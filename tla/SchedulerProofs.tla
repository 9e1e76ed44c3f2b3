-------------------------- MODULE SchedulerProofs --------------------------
(***************************************************************************)
(* The scheduler's promises for any tasks and dependencies, any budget and *)
(* any number of signals, crashes and I/O errors.  The invariant says what *)
(* the lease of a task means: only a task that is running or being         *)
(* validated has one, its execution finds the work order where it left it, *)
(* and an exit that lets the run go on takes all leases away.              *)
(***************************************************************************)
EXTENDS Scheduler, TLAPS

\* What the lease of t stands for.
LeaseInv == \A t \in Tasks :
  /\ leased[t] => status[t] \in {"running", "validating"}
  /\ at[t] = "work" /\ leased[t] => order[t] \in Closed \cup {"EXECUTING"}
  /\ at[t] \in Reviewing /\ leased[t] /\ run # "failed" => status[t] = "validating"
  /\ at[t] = "work" /\ leased[t] /\ run # "failed" => status[t] = "running"

\* Nothing has been validated since the last execution of t was to begin.
ReviewInv == \A t \in Tasks :
  order[t] \in Leasable \cup {"EXECUTING"} => reviewed[t] = 0

\* Where the pipeline has left the run.
ExitInv ==
  /\ dag \in {"drained", "integrate", "reconcile", "over"} => \A t \in Tasks : at[t] # "start"
  /\ dag \in {"reconcile", "over"} /\ run \in {"interrupted", "cancelled"} =>
       \A t \in Tasks : ~leased[t]
  /\ dag = "integrate" => run \in {"completed", "partial"}
  /\ dag = "reconcile" => run \in {"interrupted", "cancelled", "failed"}
  /\ run = "failed" => dag \in {"reconcile", "over", "down"}

IInv == /\ TypeOK /\ LeaseInv /\ ReviewInv /\ ExitInv
        /\ StartsAfterDependencies /\ WorkOrderAgrees /\ EndClosesOrders

LEMMA InitIInv == Init => IInv
<1> SUFFICES ASSUME Init PROVE IInv
  OBVIOUS
<1>1. MaxTroubles \in Nat /\ MaxAttempts \in [Tasks -> Nat \ {0}]
  BY SchedulerAssumption
<1>2. TypeOK
  BY <1>1 DEF Init, TypeOK, MaxReviews, Finished, Waiting, Open, Halted, Orders, Closed, Places,
    Stages
<1>3. LeaseInv /\ ReviewInv /\ ExitInv
  BY DEF Init, LeaseInv, ReviewInv, ExitInv, Reviewing
<1>4. StartsAfterDependencies /\ WorkOrderAgrees /\ EndClosesOrders
  BY DEF Init, StartsAfterDependencies, WorkOrderAgrees, EndClosesOrders, Waiting, Open
<1>5. QED
  BY <1>2, <1>3, <1>4 DEF IInv

-----------------------------------------------------------------------------
(* Steps that leave the records of the tasks alone. *)

\* They cannot disturb what relates the records, wherever executions go from here,
\* except to the work and the reviews, which a record must announce.
LEMMA QuietKeeps ==
  ASSUME IInv, TypeOK', ExitInv', UNCHANGED <<run, status, leased, order, reviewed>>,
         dag' = "over" => dag = "over",
         \A t \in Tasks : at'[t] = at[t] \/ at'[t] \notin Reviewing \cup {"work"}
  PROVE  IInv'
<1>1. LeaseInv'
  BY DEF IInv, LeaseInv
<1>2. ReviewInv' /\ StartsAfterDependencies' /\ WorkOrderAgrees' /\ EndClosesOrders'
  BY DEF IInv, ReviewInv, StartsAfterDependencies, WorkOrderAgrees, EndClosesOrders
<1>3. QED
  BY <1>1, <1>2 DEF IInv

\* The scheduler and the exit of the pipeline, where they only move on.
Moves == Announced \/ Launch \/ Aborted \/ AllSettled \/ CannotFinish \/ IntegrateFails
         \/ Replay \/ ReplayFails \/ Crash \/ \E kind \in {"interrupt", "cancel"} : Signal(kind)

LEMMA MovesStep ==
  ASSUME IInv, Moves
  PROVE  IInv'
<1>1. UNCHANGED <<run, status, attempts, leased, order, executed, reviewed>>
  BY DEF Moves, Announced, Launch, Aborted, AllSettled, CannotFinish, IntegrateFails,
    Replay, ReplayFails, Crash, Signal, record
<1>2. /\ at' \in [Tasks -> Stages]
      /\ \A t \in Tasks : at'[t] = at[t] \/ at'[t] \in {"idle", "start"}
      /\ \A t \in Tasks : at'[t] = "start" => at[t] = "start" \/ dag' = "race"
  BY DEF IInv, TypeOK, Stages, Moves, Announced, Launch, Aborted, AllSettled, CannotFinish,
    IntegrateFails, Replay, ReplayFails, Crash, Signal
<1>3. /\ dag' \in Places /\ picked' \subseteq Tasks /\ error' \in {"none", "projection", "other"}
      /\ signal' \in {"none", "interrupt", "cancel"}
  BY DEF IInv, TypeOK, Places, Moves, Announced, Launch, Aborted, AllSettled, CannotFinish,
    IntegrateFails, Replay, ReplayFails, Crash, Signal, Choose
<1>4. troubles' \in 0..MaxTroubles
  BY SchedulerAssumption DEF IInv, TypeOK, Trouble, Moves, Announced, Launch, Aborted, AllSettled,
    CannotFinish,
    IntegrateFails, Replay, ReplayFails, Crash, Signal
<1>5. published' \in [Tasks -> BOOLEAN]
  BY DEF IInv, TypeOK, Moves, Announced, Launch, Aborted, AllSettled, CannotFinish,
    IntegrateFails, Replay, ReplayFails, Crash, Signal, record
<1>6. TypeOK'
  BY <1>1, <1>2, <1>3, <1>4, <1>5 DEF IInv, TypeOK
<1>7. ExitInv' /\ (dag' = "over" => dag = "over")
  <2>1. CASE dag' = dag
    BY <1>1, <1>2, <2>1 DEF IInv, ExitInv
  <2>2. CASE dag' # dag
    <3>1. /\ dag' \notin {"reconcile", "over", "integrate"} /\ (run = "failed" => dag' = "down")
          /\ dag' = "drained" => Running = {} /\ at' = at
      BY <2>2 DEF IInv, ExitInv, Moves, Announced, Launch, Aborted, AllSettled, CannotFinish,
        IntegrateFails, Replay, ReplayFails, Crash, Signal, Choose
    <3>2. QED
      BY <1>1, <3>1 DEF ExitInv, Running
  <2>3. QED
    BY <2>1, <2>2
<1>8. QED
  BY <1>1, <1>2, <1>6, <1>7, QuietKeeps DEF Reviewing

\* Executions that end, or that publish.
Passes(t) == CannotBegin(t) \/ CellFails(t) \/ DecideLate(t) \/ Publish(t) \/ PublishFails(t)
             \/ Return(t) \/ Reject(t)

LEMMA PassesStep ==
  ASSUME IInv, NEW t \in Tasks, Passes(t)
  PROVE  IInv'
<1>1. UNCHANGED <<run, status, attempts, leased, order, executed, reviewed, picked, signal>>
  BY DEF Passes, CannotBegin, CellFails, DecideLate, Publish, PublishFails, Return, Reject, record
<1>2. \E stage \in {"idle", "reject", "tail"} \cup Publishing : at' = [at EXCEPT ![t] = stage]
  BY DEF Passes, CannotBegin, CellFails, DecideLate, Publish, PublishFails, Return, Reject,
    Stage, Publication, Reviewing, Publishing
<1>3. dag' = dag \/ (dag = "race" /\ dag' \in {"refresh", "exit"})
  BY DEF Passes, CannotBegin, CellFails, DecideLate, Publish, PublishFails, Return, Reject, Woken
<1>4. published' \in [Tasks -> BOOLEAN]
  BY DEF IInv, TypeOK, Passes, CannotBegin, CellFails, DecideLate, Publish, PublishFails,
    Return, Reject, record
<1>5. error' \in {"none", "projection", "other"} /\ troubles' \in 0..MaxTroubles
  BY SchedulerAssumption DEF IInv, TypeOK, Passes, CannotBegin, CellFails, DecideLate,
    Publish, PublishFails, Return, Reject, Trouble
<1>6. TypeOK'
  BY <1>1, <1>2, <1>3, <1>4, <1>5 DEF IInv, TypeOK, Stages, Places, Publishing
<1>7. ExitInv'
  BY <1>1, <1>2, <1>3 DEF IInv, TypeOK, ExitInv, Publishing
<1>8. QED
  BY <1>1, <1>2, <1>3, <1>6, <1>7, QuietKeeps DEF IInv, TypeOK, Reviewing, Publishing

-----------------------------------------------------------------------------
(* Steps of one execution. *)

LEMMA Budgets ==
  ASSUME NEW t \in Tasks
  PROVE  MaxAttempts[t] \in Nat \ {0} /\ MaxReviews(t) \in Nat \ {0}
<1>1. MaxAttempts[t] \in Nat \ {0}
  BY SchedulerAssumption
<1>2. QED
  BY <1>1 DEF MaxReviews

\* A task that was made ready may go anywhere but back to waiting for its dependencies.
LEMMA StartedKeeps ==
  ASSUME IInv, NEW t \in Tasks, TypeOK', status[t] \in Open \ {"planned"},
         status'[t] # "blocked", \A u \in Tasks \ {t} : status'[u] = status[u]
  PROVE  StartsAfterDependencies'
<1>1. Deps \in [Tasks -> SUBSET Tasks]
  BY SchedulerAssumption
<1>2. \A d \in Deps[t] : d # t
  BY SchedulerAssumption
<1>3. QED
  BY <1>1, <1>2 DEF IInv, StartsAfterDependencies, Open, Waiting, Halted

LEMMA BeginStep ==
  ASSUME IInv, NEW t \in Tasks, Begin(t)
  PROVE  IInv'
<1>1. TypeOK'
  <2>1. executed[t] + 1 <= MaxAttempts[t] /\ MaxAttempts[t] \in Nat
    BY Budgets DEF Begin, IInv, TypeOK, ExecutionLeft
  <2>2. QED
    BY <2>1 DEF IInv, TypeOK, Begin, Commit, Stage, Open, Waiting, Orders, Stages
<1>2. LeaseInv' /\ ReviewInv' /\ WorkOrderAgrees'
  BY DEF IInv, TypeOK, LeaseInv, ReviewInv, WorkOrderAgrees, Begin, Commit, Stage, Reviewing,
    Leasable
<1>3. ExitInv' /\ EndClosesOrders'
  BY DEF IInv, TypeOK, ExitInv, EndClosesOrders, Begin, Commit, Stage
<1>4. StartsAfterDependencies'
  BY <1>1, StartedKeeps DEF IInv, TypeOK, Begin, Commit, Open, Waiting
<1>5. QED
  BY <1>1, <1>2, <1>3, <1>4 DEF IInv

LEMMA BeginReviewStep ==
  ASSUME IInv, NEW t \in Tasks, BeginReview(t)
  PROVE  IInv'
<1>1. TypeOK'
  <2>1. reviewed[t] + 1 <= MaxReviews(t) /\ MaxReviews(t) \in Nat
    BY Budgets DEF BeginReview, IInv, TypeOK
  <2>2. QED
    BY <2>1 DEF IInv, TypeOK, BeginReview, Commit, Stage, Open, Waiting, Orders, Stages, Reviewing
<1>2. LeaseInv' /\ ReviewInv' /\ WorkOrderAgrees'
  BY DEF IInv, TypeOK, LeaseInv, ReviewInv, WorkOrderAgrees, BeginReview, Commit, Stage,
    Reviewing, Leasable
<1>3. ExitInv' /\ EndClosesOrders'
  BY DEF IInv, TypeOK, ExitInv, EndClosesOrders, BeginReview, Commit, Stage
<1>4. StartsAfterDependencies'
  BY <1>1, StartedKeeps DEF IInv, TypeOK, BeginReview, Commit, Open, Waiting
<1>5. QED
  BY <1>1, <1>2, <1>3, <1>4 DEF IInv

LEMMA ExhaustedStep ==
  ASSUME IInv, NEW t \in Tasks, Exhausted(t)
  PROVE  IInv'
<1>1. TypeOK'
  BY DEF IInv, TypeOK, Exhausted, Commit, Stage, Halted, Orders, Closed, Stages
<1>2. LeaseInv' /\ ReviewInv' /\ WorkOrderAgrees'
  BY DEF IInv, TypeOK, LeaseInv, ReviewInv, WorkOrderAgrees, Exhausted, Commit, Stage, Reviewing,
    Leasable, Closed
<1>3. ExitInv' /\ EndClosesOrders'
  BY DEF IInv, TypeOK, ExitInv, EndClosesOrders, Exhausted, Commit, Stage, Closed
<1>4. StartsAfterDependencies'
  BY <1>1, StartedKeeps DEF IInv, TypeOK, Exhausted, Commit, Open, Waiting
<1>5. QED
  BY <1>1, <1>2, <1>3, <1>4 DEF IInv

\* The order of a leased execution has not been validated, so one review is left.
LEMMA SubmitStep ==
  ASSUME IInv, NEW t \in Tasks, Submit(t)
  PROVE  IInv'
<1>1. TypeOK'
  <2>1. leased[t] /\ order[t] \notin Closed => reviewed[t] + 1 <= MaxReviews(t)
    BY Budgets DEF Submit, IInv, TypeOK, LeaseInv, ReviewInv
  <2>2. QED
    BY <2>1 DEF IInv, TypeOK, Submit, Stage, Open, Waiting, Orders, Stages, Reviewing
<1>2. LeaseInv' /\ ReviewInv' /\ WorkOrderAgrees'
  BY DEF IInv, TypeOK, LeaseInv, ReviewInv, WorkOrderAgrees, Submit, Stage, Reviewing, Leasable,
    Closed
<1>3. ExitInv' /\ EndClosesOrders'
  BY DEF IInv, TypeOK, ExitInv, EndClosesOrders, Submit, Stage
<1>4. StartsAfterDependencies'
  <2>1. CASE leased[t]
    BY <1>1, <2>1, StartedKeeps DEF IInv, TypeOK, LeaseInv, Submit, Open, Waiting
  <2>2. CASE ~leased[t]
    BY <2>2 DEF IInv, StartsAfterDependencies, Submit
  <2>3. QED
    BY <2>1, <2>2
<1>5. QED
  BY <1>1, <1>2, <1>3, <1>4 DEF IInv

\* Executions that have the outcome of the work or of the review.
Decides(t) == WorkFails(t) \/ ReviewBreaks(t) \/ ReviewersFail(t) \/ Accept(t) \/ Rework(t)

LEMMA DecidesTyped ==
  ASSUME IInv, NEW t \in Tasks, Decides(t)
  PROVE  TypeOK'
<1>1. status' \in [Tasks -> Open \cup Halted \cup {"accepted"}] /\ order' \in [Tasks -> Orders]
  BY DEF IInv, TypeOK, Decides, WorkFails, ReviewBreaks, ReviewersFail, Accept,
      Rework, Failed, Commit, GivenUp, Stage, Open, Waiting, Halted, Orders, Closed
<1>2. leased' \in [Tasks -> BOOLEAN]
  BY DEF IInv, TypeOK, Decides, WorkFails, ReviewBreaks, ReviewersFail, Accept,
      Rework, Failed, Commit, GivenUp, Stage
<1>3. attempts' \in [Tasks -> Nat] /\ \A u \in Tasks : attempts'[u] <= attempts[u]
  BY DEF IInv, TypeOK, Decides, WorkFails, ReviewBreaks, ReviewersFail, Accept,
      Rework, Failed, Commit, GivenUp, Stage
<1>4. reviewed' \in [Tasks -> Nat] /\ \A u \in Tasks : reviewed'[u] \in {0, reviewed[u]}
  BY DEF IInv, TypeOK, Decides, WorkFails, ReviewBreaks, ReviewersFail, Accept,
      Rework, Failed, Commit, GivenUp, Stage
<1>5. at' \in [Tasks -> Stages] /\ troubles' \in 0..MaxTroubles
  BY SchedulerAssumption DEF IInv, TypeOK, Decides, WorkFails, ReviewBreaks, ReviewersFail, Accept,
      Rework, Failed, Commit, GivenUp, Stage, Stages,
    Publishing, Reviewing, Publication, Trouble
<1>6. \A u \in Tasks : attempts'[u] <= executed[u] /\ reviewed'[u] <= MaxReviews(u)
  BY <1>3, <1>4, Budgets DEF IInv, TypeOK
<1>7. QED
  BY <1>1, <1>2, <1>3, <1>4, <1>5, <1>6 DEF IInv, TypeOK, Decides, WorkFails, ReviewBreaks,
    ReviewersFail, Accept,
      Rework, Failed, Commit, GivenUp, Stage

LEMMA WorkFailsStep ==
  ASSUME IInv, NEW t \in Tasks, WorkFails(t)
  PROVE  IInv'
<1>1. TypeOK'
  BY DecidesTyped DEF Decides
<1>2. LeaseInv'
  BY DEF IInv, TypeOK, LeaseInv, WorkFails, Failed, Commit, GivenUp, Stage, Reviewing, Publishing,
    Publication
<1>3. ReviewInv' /\ WorkOrderAgrees'
  BY DEF IInv, TypeOK, LeaseInv, ReviewInv, WorkOrderAgrees, WorkFails, Failed, Commit, GivenUp,
    Stage, Reviewing, Leasable, Closed
<1>4. ExitInv' /\ EndClosesOrders'
  BY DEF IInv, TypeOK, ExitInv, EndClosesOrders, WorkFails, Failed, Commit, GivenUp, Stage,
    Closed, Publication, Reviewing
<1>5. StartsAfterDependencies'
  <2>1. CASE leased[t]
    BY <1>1, <2>1, StartedKeeps DEF IInv, TypeOK, LeaseInv, WorkFails, Failed, Commit, GivenUp,
      Stage, Open, Waiting
  <2>2. CASE ~leased[t]
    BY <2>2 DEF IInv, StartsAfterDependencies, WorkFails, Failed, Commit, GivenUp, Stage
  <2>3. QED
    BY <2>1, <2>2
<1>6. QED
  BY <1>1, <1>2, <1>3, <1>4, <1>5 DEF IInv

LEMMA ReviewBreaksStep ==
  ASSUME IInv, NEW t \in Tasks, ReviewBreaks(t)
  PROVE  IInv'
<1>1. TypeOK'
  BY DecidesTyped DEF Decides
<1>2. LeaseInv'
  BY DEF IInv, TypeOK, LeaseInv, ReviewBreaks, Failed, Commit, GivenUp, Stage, Reviewing,
    Publishing, Publication
<1>3. ReviewInv' /\ WorkOrderAgrees'
  BY DEF IInv, TypeOK, LeaseInv, ReviewInv, WorkOrderAgrees, ReviewBreaks, Failed, Commit,
    GivenUp, Stage, Reviewing, Leasable, Closed
<1>4. ExitInv' /\ EndClosesOrders'
  BY DEF IInv, TypeOK, ExitInv, EndClosesOrders, ReviewBreaks, Failed, Commit, GivenUp, Stage,
    Closed, Publication, Reviewing
<1>5. StartsAfterDependencies'
  <2>1. CASE leased[t]
    BY <1>1, <2>1, StartedKeeps DEF IInv, TypeOK, LeaseInv, ReviewBreaks, Failed, Commit, GivenUp,
      Stage, Open, Waiting
  <2>2. CASE ~leased[t]
    BY <2>2 DEF IInv, StartsAfterDependencies, ReviewBreaks, Failed, Commit, GivenUp, Stage
  <2>3. QED
    BY <2>1, <2>2
<1>6. QED
  BY <1>1, <1>2, <1>3, <1>4, <1>5 DEF IInv

LEMMA ReviewersFailStep ==
  ASSUME IInv, NEW t \in Tasks, ReviewersFail(t)
  PROVE  IInv'
<1>1. TypeOK'
  BY DecidesTyped DEF Decides
<1>2. LeaseInv'
  BY DEF IInv, TypeOK, LeaseInv, ReviewersFail, Commit, Stage, Reviewing, Publishing, Publication
<1>3. ReviewInv' /\ WorkOrderAgrees'
  BY DEF IInv, TypeOK, LeaseInv, ReviewInv, WorkOrderAgrees, ReviewersFail, Commit, Stage,
    Reviewing, Leasable, Closed
<1>4. ExitInv' /\ EndClosesOrders'
  BY DEF IInv, TypeOK, ExitInv, EndClosesOrders, ReviewersFail, Commit, Stage, Closed,
    Publication, Reviewing
<1>5. StartsAfterDependencies'
  <2>1. CASE leased[t]
    BY <1>1, <2>1, StartedKeeps DEF IInv, TypeOK, LeaseInv, ReviewersFail, Commit, Stage, Open,
      Waiting
  <2>2. CASE ~leased[t]
    BY <2>2 DEF IInv, StartsAfterDependencies, ReviewersFail, Commit, Stage
  <2>3. QED
    BY <2>1, <2>2
<1>6. QED
  BY <1>1, <1>2, <1>3, <1>4, <1>5 DEF IInv

LEMMA AcceptStep ==
  ASSUME IInv, NEW t \in Tasks, Accept(t)
  PROVE  IInv'
<1>1. TypeOK'
  BY DecidesTyped DEF Decides
<1>2. LeaseInv'
  BY DEF IInv, TypeOK, LeaseInv, Accept, Commit, Stage, Reviewing, Publishing, Publication
<1>3. ReviewInv' /\ WorkOrderAgrees'
  BY DEF IInv, TypeOK, LeaseInv, ReviewInv, WorkOrderAgrees, Accept, Commit, Stage, Reviewing,
    Leasable, Closed
<1>4. ExitInv' /\ EndClosesOrders'
  BY DEF IInv, TypeOK, ExitInv, EndClosesOrders, Accept, Commit, Stage, Closed, Publication,
    Reviewing
<1>5. StartsAfterDependencies'
  <2>1. CASE leased[t]
    BY <1>1, <2>1, StartedKeeps DEF IInv, TypeOK, LeaseInv, Accept, Commit, Stage, Open, Waiting
  <2>2. CASE ~leased[t]
    BY <2>2 DEF IInv, StartsAfterDependencies, Accept, Commit, Stage
  <2>3. QED
    BY <2>1, <2>2
<1>6. QED
  BY <1>1, <1>2, <1>3, <1>4, <1>5 DEF IInv

LEMMA ReworkStep ==
  ASSUME IInv, NEW t \in Tasks, Rework(t)
  PROVE  IInv'
<1>1. TypeOK'
  BY DecidesTyped DEF Decides
<1>2. LeaseInv'
  BY DEF IInv, TypeOK, LeaseInv, Rework, Commit, Stage, Reviewing, Publishing, Publication
<1>3. ReviewInv' /\ WorkOrderAgrees'
  BY DEF IInv, TypeOK, LeaseInv, ReviewInv, WorkOrderAgrees, Rework, Commit, Stage, Reviewing,
    Leasable, Closed
<1>4. ExitInv' /\ EndClosesOrders'
  BY DEF IInv, TypeOK, ExitInv, EndClosesOrders, Rework, Commit, Stage, Closed, Publication,
    Reviewing
<1>5. StartsAfterDependencies'
  <2>1. CASE leased[t]
    BY <1>1, <2>1, StartedKeeps DEF IInv, TypeOK, LeaseInv, Rework, Commit, Stage, Open, Waiting
  <2>2. CASE ~leased[t]
    BY <2>2 DEF IInv, StartsAfterDependencies, Rework, Commit, Stage
  <2>3. QED
    BY <2>1, <2>2
<1>6. QED
  BY <1>1, <1>2, <1>3, <1>4, <1>5 DEF IInv

-----------------------------------------------------------------------------
(* Steps of the scheduler and of the pipeline that change records. *)

\* Only a waiting task changes, and it has no lease.
LEMMA RefreshStep ==
  ASSUME IInv, Refresh
  PROVE  IInv'
<1>1. PICK stuck \in SUBSET Tasks : Stuck(stuck) /\ status' = Refreshed(stuck)
  BY DEF Refresh
<1>2. \A t \in Tasks : status'[t] = status[t]
        \/ (status[t] \in Waiting /\ status'[t] = "blocked" /\ t \in stuck)
        \/ (status[t] \in Waiting /\ status'[t] = "ready" /\ DepsAccepted(t))
  <2> SUFFICES ASSUME NEW t \in Tasks
               PROVE  \/ status'[t] = status[t]
                      \/ status[t] \in Waiting /\ status'[t] = "blocked" /\ t \in stuck
                      \/ status[t] \in Waiting /\ status'[t] = "ready" /\ DepsAccepted(t)
    OBVIOUS
  <2>1. CASE status[t] \notin Waiting
    <3>1. t \notin stuck
      BY <1>1, <2>1 DEF Stuck
    <3>2. QED
      BY <1>1, <2>1, <3>1 DEF Refreshed
  <2>2. CASE status[t] \in Waiting /\ t \in stuck
    BY <1>1, <2>2 DEF Refreshed
  <2>3. CASE status[t] \in Waiting /\ t \notin stuck
    <3>1. status'[t] = IF DepsAccepted(t) THEN "ready" ELSE status[t]
      BY <1>1, <2>3 DEF Refreshed
    <3>2. QED
      BY <2>3, <3>1
  <2>4. QED
    BY <2>1, <2>2, <2>3
<1>3. TypeOK'
  <2>1. status' = [t \in Tasks |-> status'[t]]
    BY <1>1 DEF Refreshed
  <2>2. \A t \in Tasks : status'[t] \in Open \cup Halted \cup {"accepted"}
    BY <1>2 DEF IInv, TypeOK, Open, Waiting, Halted
  <2>3. status' \in [Tasks -> Open \cup Halted \cup {"accepted"}]
    BY <2>1, <2>2
  <2>4. QED
    BY <2>3 DEF IInv, TypeOK, Refresh, Choose, Places
<1>4. LeaseInv' /\ ReviewInv'
  BY <1>2 DEF IInv, LeaseInv, ReviewInv, Refresh, Waiting
<1>5. WorkOrderAgrees'
  BY <1>2 DEF IInv, LeaseInv, WorkOrderAgrees, Refresh, Waiting
<1>6. ExitInv' /\ EndClosesOrders'
  BY DEF IInv, ExitInv, EndClosesOrders, Refresh, Choose, Running
<1>7. StartsAfterDependencies'
  <2> SUFFICES ASSUME NEW t \in Tasks
               PROVE  /\ status'[t] \in (Open \ {"planned"}) \cup {"accepted"} =>
                           \A d \in Deps[t] : status'[d] = "accepted"
                      /\ status'[t] = "blocked" => \E d \in Deps[t] : status'[d] \in Halted
    BY DEF StartsAfterDependencies
  <2>1. Deps[t] \subseteq Tasks
    BY SchedulerAssumption
  <2>2. \A d \in Tasks : status[d] \in Halted \cup {"accepted"} => status'[d] = status[d]
    BY <1>2 DEF Waiting, Halted
  <2>3. \A d \in Deps[t] : d \in stuck => status'[d] = "blocked"
    BY <1>1, <2>1 DEF Stuck, Refreshed
  <2>4. CASE status'[t] = status[t]
    BY <2>1, <2>2, <2>4 DEF IInv, StartsAfterDependencies
  <2>5. CASE status'[t] = "blocked" /\ t \in stuck
    <3>1. \E d \in Deps[t] : status[d] \in Halted \/ d \in stuck
      BY <1>1, <2>5 DEF Stuck
    <3>2. QED
      BY <2>1, <2>2, <2>3, <2>5, <3>1 DEF Halted, Open, Waiting
  <2>6. CASE status'[t] = "ready" /\ DepsAccepted(t)
    BY <2>1, <2>2, <2>6 DEF DepsAccepted
  <2>7. QED
    BY <1>2, <2>4, <2>5, <2>6
<1>8. QED
  BY <1>3, <1>4, <1>5, <1>6, <1>7 DEF IInv

LEMMA FinishStep ==
  ASSUME IInv, Finish
  PROVE  IInv'
<1>1. TypeOK'
  BY DEF IInv, TypeOK, Finish, record, Finished, Places
<1>2. run # "failed"
  BY DEF IInv, ExitInv, Finish
<1>3. LeaseInv' /\ ReviewInv' /\ ExitInv'
  BY <1>2 DEF IInv, LeaseInv, ReviewInv, ExitInv, Finish, record
<1>4. StartsAfterDependencies' /\ WorkOrderAgrees' /\ EndClosesOrders'
  BY <1>2 DEF IInv, StartsAfterDependencies, WorkOrderAgrees, EndClosesOrders, Finish, record
<1>5. QED
  BY <1>1, <1>3, <1>4 DEF IInv

LEMMA IntegrateStep ==
  ASSUME IInv, Integrate
  PROVE  IInv'
<1>1. TypeOK'
  BY DEF IInv, TypeOK, Integrate, Orders, Closed, Places
<1>2. LeaseInv' /\ ReviewInv' /\ ExitInv'
  BY DEF IInv, TypeOK, LeaseInv, ReviewInv, ExitInv, Integrate, Closed, Leasable
<1>3. StartsAfterDependencies' /\ WorkOrderAgrees' /\ EndClosesOrders'
  BY DEF IInv, TypeOK, ExitInv, StartsAfterDependencies, WorkOrderAgrees, EndClosesOrders,
    Integrate, Closed
<1>4. QED
  BY <1>1, <1>2, <1>3 DEF IInv

\* An exit that lets the run go on, or cancels it, takes every lease away.
LEMMA ExitStep ==
  ASSUME IInv, Exit
  PROVE  IInv'
<1>1. /\ run' \in {"interrupted", "cancelled", "failed"}
      /\ status' \in [Tasks -> Open \cup Halted \cup {"accepted"}]
      /\ leased' = [t \in Tasks |-> leased[t] /\ status'[t] = status[t]]
  BY DEF IInv, TypeOK, Exit, DropLeases, Open, Waiting, Halted
<1>2. \A t \in Tasks : \/ status'[t] = status[t]
                       \/ status[t] \in {"retry_wait", "running",
                         "validating"} /\ status'[t] = "ready"
                       \/ status[t] \in Open /\ status'[t] = "cancelled"
  BY DEF IInv, TypeOK, Exit
<1>3. leased' \in [Tasks -> BOOLEAN]
  BY <1>1
<1>4. TypeOK'
  BY <1>1, <1>3 DEF IInv, TypeOK, Exit, Places, Finished
<1>5. \A t \in Tasks : leased'[t] => leased[t] /\ status'[t] = status[t]
  BY <1>1
<1>6. run' # "failed" => \A t \in Tasks : ~leased'[t] /\ status'[t] \notin {"running",
  "validating"}
  <2> SUFFICES ASSUME NEW t \in Tasks, run' # "failed"
               PROVE  ~leased'[t] /\ status'[t] \notin {"running", "validating"}
    OBVIOUS
  <2>1. status'[t] \notin {"running", "validating"}
    BY <1>1 DEF IInv, TypeOK, Exit, Open, Waiting
  <2>2. QED
    BY <1>5, <2>1 DEF IInv, LeaseInv
<1>7. LeaseInv' /\ ReviewInv' /\ ExitInv'
  BY <1>1, <1>5, <1>6 DEF IInv, LeaseInv, ReviewInv, ExitInv, Exit
<1>8. run # "failed"
  BY DEF IInv, ExitInv, Exit
<1>9. WorkOrderAgrees' /\ EndClosesOrders'
  BY <1>2, <1>5, <1>6, <1>8 DEF IInv, WorkOrderAgrees, EndClosesOrders, Exit
<1>10. StartsAfterDependencies'
  BY <1>2, SchedulerAssumption DEF IInv, StartsAfterDependencies, Open, Waiting, Halted
<1>11. QED
  BY <1>4, <1>7, <1>9, <1>10 DEF IInv

LEMMA ReconcileStep ==
  ASSUME IInv, Reconcile
  PROVE  IInv'
<1>1. TypeOK'
  BY DEF IInv, TypeOK, Reconcile, Reconciled, Orders, Closed, Places
<1>2. run \in {"interrupted", "cancelled", "failed"}
  BY DEF IInv, ExitInv, Reconcile
<1>3. LeaseInv' /\ ExitInv'
  BY <1>2 DEF IInv, TypeOK, LeaseInv, ExitInv, Reconcile, Reconciled, Closed
<1>4. ReviewInv'
  BY <1>2 DEF IInv, TypeOK, ReviewInv, Reconcile, Reconciled, Closed, Leasable
<1>5. WorkOrderAgrees' /\ EndClosesOrders'
  BY <1>2 DEF IInv, TypeOK, ExitInv, WorkOrderAgrees, EndClosesOrders, Reconcile, Reconciled,
    Closed
<1>6. StartsAfterDependencies'
  BY DEF IInv, StartsAfterDependencies, Reconcile
<1>7. QED
  BY <1>1, <1>3, <1>4, <1>5, <1>6 DEF IInv

LEMMA ResumeStep ==
  ASSUME IInv, Resume
  PROVE  IInv'
<1>1. /\ status' \in [Tasks -> Open \cup Halted \cup {"accepted"}]
      /\ leased' = [t \in Tasks |-> leased[t] /\ status'[t] = status[t]]
  BY DEF IInv, TypeOK, Resume, DropLeases, Open, Waiting, Halted
<1>2. \A t \in Tasks : status'[t] = IF status[t] \in {"running", "validating", "retry_wait"}
                                    THEN "ready" ELSE status[t]
  BY DEF Resume
<1>3. \A t \in Tasks : ~leased'[t]
  BY <1>1, <1>2 DEF IInv, LeaseInv
<1>4. leased' \in [Tasks -> BOOLEAN] /\ order' \in [Tasks -> Orders] /\ at' \in [Tasks -> Stages]
  BY <1>1 DEF IInv, TypeOK, Resume, Orders, Closed, Stages
<1>5. TypeOK'
  BY <1>1, <1>4 DEF IInv, TypeOK, Resume, Places
<1>6. \A t \in Tasks : order'[t] = order[t]
        \/ (order[t] = "VALIDATING" /\ order'[t] = "VALIDATION_RETRY" /\ status'[t] = "ready")
        \/ (order[t] \in {"EXECUTING",
          "INTERRUPTED"} /\ order'[t] = "READY" /\ status'[t] = "ready")
  BY <1>2 DEF Resume
<1>7. LeaseInv' /\ ReviewInv' /\ ExitInv'
  BY <1>3, <1>6 DEF IInv, LeaseInv, ReviewInv, ExitInv, Resume, Leasable
<1>8. WorkOrderAgrees' /\ EndClosesOrders'
  <2>1. run # "failed"
    BY DEF Resume, Finished
  <2>2. QED
    BY <1>2, <1>3, <1>6, <2>1 DEF IInv, WorkOrderAgrees, EndClosesOrders, Resume
<1>9. StartsAfterDependencies'
  BY <1>2, SchedulerAssumption DEF IInv, StartsAfterDependencies, Open, Waiting, Halted
<1>10. QED
  BY <1>5, <1>7, <1>8, <1>9 DEF IInv

LEMMA CancelTaskStep ==
  ASSUME IInv, NEW t \in Tasks, CancelTask(t)
  PROVE  IInv'
<1>1. TypeOK'
  BY SchedulerAssumption DEF IInv, TypeOK, CancelTask, Halted, Trouble
<1>2. LeaseInv' /\ ReviewInv' /\ WorkOrderAgrees'
  BY DEF IInv, TypeOK, LeaseInv, ReviewInv, WorkOrderAgrees, CancelTask
<1>3. ExitInv' /\ EndClosesOrders'
  BY DEF IInv, ExitInv, EndClosesOrders, CancelTask
<1>4. StartsAfterDependencies'
  BY SchedulerAssumption DEF IInv, TypeOK, StartsAfterDependencies, CancelTask, Halted, Open,
    Waiting
<1>5. QED
  BY <1>1, <1>2, <1>3, <1>4 DEF IInv

-----------------------------------------------------------------------------
LEMMA NextIInv == IInv /\ [Next]_vars => IInv'
<1> SUFFICES ASSUME IInv, [Next]_vars PROVE IInv'
  OBVIOUS
<1>1. CASE Schedule
  BY <1>1, MovesStep, RefreshStep, FinishStep, IntegrateStep, ExitStep, ReconcileStep
  DEF Schedule, Moves
<1>2. ASSUME NEW t \in Tasks, Execute(t)
      PROVE  IInv'
  BY <1>2, PassesStep, BeginStep, BeginReviewStep, ExhaustedStep, SubmitStep, WorkFailsStep,
    ReviewBreaksStep, ReviewersFailStep, AcceptStep, ReworkStep DEF Execute, Passes
<1>3. CASE Operator
  BY <1>3, MovesStep, ResumeStep, CancelTaskStep DEF Operator, Moves
<1>4. CASE UNCHANGED vars
  <2>1. UNCHANGED <<run, status, attempts, leased, order, executed, reviewed, published, dag,
                    picked, error, at, signal, troubles>>
    BY <1>4 DEF vars, record
  <2>2. TypeOK' /\ ExitInv'
    BY <2>1 DEF IInv, TypeOK, ExitInv
  <2>3. QED
    BY <2>1, <2>2, QuietKeeps
<1>5. QED
  BY <1>1, <1>2, <1>3, <1>4 DEF Next

LEMMA SpecIInv == Spec => []IInv
<1>1. QED
  BY InitIInv, NextIInv, PTL DEF Spec

\* Types, and the budgets of executions and validations (work-orders.ts:394): whatever
\* interrupts, fails or is resumed, no task is executed more often than maxAttempts.
THEOREM SchedulerTypeCorrect == Spec => []TypeOK
<1>1. IInv => TypeOK
  BY DEF IInv
<1>2. QED
  BY <1>1, SpecIInv, PTL

\* No task is made ready, executed or accepted before all it depends on was accepted
\* (refreshTaskStates, executeTask, resume).
THEOREM DependenciesFirst == Spec => []StartsAfterDependencies
<1>1. IInv => StartsAfterDependencies
  BY DEF IInv
<1>2. QED
  BY <1>1, SpecIInv, PTL

\* The record of a task and its work order agree until the run fails
\* (handleTaskFailure, transitionWorkOrder, resume).
THEOREM RecordsAgree == Spec => []WorkOrderAgrees
<1>1. IInv => WorkOrderAgrees
  BY DEF IInv
<1>2. QED
  BY <1>1, SpecIInv, PTL

\* A pipeline that has ended leaves no order behind that nobody will continue
\* (reconcileCompanyWorkOrdersAfterPipelineExit).
THEOREM EndsReconciled == Spec => []EndClosesOrders
<1>1. IInv => EndClosesOrders
  BY DEF IInv
<1>2. QED
  BY <1>1, SpecIInv, PTL

\* Accepted results stay accepted (handleTaskFailure, runPipeline, resume): every step
\* that takes a task back finds it leased or waiting, and an accepted task is neither.
THEOREM AcceptedKept == Spec => AcceptedStays
<1>1. ASSUME IInv, [Next]_vars, NEW t \in Tasks, status[t] = "accepted"
      PROVE  status'[t] = "accepted"
  <2>1. ~leased[t]
    BY <1>1 DEF IInv, LeaseInv
  <2>2. status \in [Tasks -> Open \cup Halted \cup {"accepted"}]
    BY <1>1 DEF IInv, TypeOK
  <2>3. CASE Moves \/ \E u \in Tasks : Passes(u)
    BY <1>1, <2>3 DEF Moves, Announced, Launch, Aborted, AllSettled, CannotFinish, IntegrateFails,
      Replay, ReplayFails, Crash, Signal, Passes, CannotBegin, CellFails, DecideLate, Publish,
      PublishFails, Return, Reject, record
  <2>4. ASSUME NEW u \in Tasks, Begin(u) \/ BeginReview(u) \/ Exhausted(u) \/ CancelTask(u)
        PROVE  status'[t] = "accepted"
    BY <1>1, <2>2, <2>4 DEF Begin, BeginReview, Exhausted, CancelTask, Commit
  <2>5. ASSUME NEW u \in Tasks, Submit(u) \/ Decides(u)
        PROVE  status'[t] = "accepted"
    BY <1>1, <2>1, <2>2, <2>5 DEF Submit, Decides, WorkFails, ReviewBreaks, ReviewersFail, Accept,
      Rework, Failed, Commit
  <2>6. CASE Refresh
    <3>1. PICK stuck \in SUBSET Tasks : Stuck(stuck) /\ status' = Refreshed(stuck)
      BY <2>6 DEF Refresh
    <3>2. t \notin stuck
      BY <1>1, <3>1 DEF Stuck, Waiting
    <3>3. QED
      BY <1>1, <3>1, <3>2 DEF Refreshed, Waiting
  <2>7. CASE Finish \/ Integrate \/ Exit \/ Reconcile \/ Resume
    BY <1>1, <2>7 DEF Finish, Integrate, Exit, Reconcile, Resume, record, Open, Waiting
  <2>8. CASE UNCHANGED vars
    BY <1>1, <2>8 DEF vars, record
  <2>9. QED
    BY <1>1, <2>3, <2>4, <2>5, <2>6, <2>7, <2>8
    DEF Next, Schedule, Execute, Operator, Moves, Passes, Decides
<1>2. IInv /\ [Next]_vars => [\A t \in Tasks : status[t] = "accepted" => status'[t] = "accepted"]_vars
  BY <1>1
<1>3. QED
  BY <1>2, SpecIInv, PTL DEF Spec, AcceptedStays

\* After an interrupted or cancelled pipeline is over its executions change no record:
\* none has a lease and none is still to begin (handleTaskFailure, validateTask).
THEOREM LateResultsDropped == Spec => LateResultsDiscarded
<1> DEFINE Over == dag = "over" /\ dag' = "over" /\ run \in {"interrupted", "cancelled"}
           Same == UNCHANGED <<status, attempts, leased, order>>
<1>1. ASSUME IInv, [Next]_vars, Over
      PROVE  Same
  <2>1. \A t \in Tasks : ~leased[t] /\ at[t] # "start"
    BY <1>1 DEF IInv, ExitInv
  <2>2. CASE \E t \in Tasks : Execute(t)
    BY <2>1, <2>2 DEF Execute, Begin, BeginReview, Exhausted, CannotBegin, CellFails, Submit,
      WorkFails, ReviewBreaks, ReviewersFail, Accept, Rework, DecideLate, Publish, PublishFails,
      Return, Reject, Failed, record
  <2>3. CASE Schedule \/ Operator
    BY <1>1, <2>3 DEF Schedule, Operator, Refresh, Announced, Launch, Aborted, AllSettled, Finish,
      CannotFinish, Integrate, IntegrateFails, Exit, Reconcile, Replay, ReplayFails, Resume, Crash,
      CancelTask, Signal, Alive
  <2>4. CASE UNCHANGED vars
    BY <2>4 DEF vars, record
  <2>5. QED
    BY <1>1, <2>2, <2>3, <2>4 DEF Next
<1>2. IInv /\ [Next]_vars => [Over => Same]_vars
  BY <1>1
<1>3. QED
  BY <1>2, SpecIInv, PTL DEF Spec, LateResultsDiscarded

-----------------------------------------------------------------------------
(* The run as the execution of a graph of tasks. *)

\* What is leased or validated was executed: a lease is taken to execute a task, or to
\* validate again what an execution has left.
WorkedInv == \A t \in Tasks :
  leased[t] \/ order[t] \in {"VALIDATING", "VALIDATION_RETRY"} => executed[t] > 0

LEMMA StepWorked ==
  ASSUME IInv, WorkedInv, [Next]_vars
  PROVE  WorkedInv'
<1>1. CASE Moves \/ Refresh \/ Finish \/ \E t \in Tasks : Passes(t) \/ CancelTask(t)
  BY <1>1 DEF WorkedInv, Moves, Announced, Launch, Aborted, AllSettled, CannotFinish,
    IntegrateFails, Replay, ReplayFails, Crash, Signal, Refresh, Finish, Passes, CannotBegin,
    CellFails, DecideLate, Publish, PublishFails, Return, Reject, CancelTask, record
<1>2. CASE Integrate \/ Reconcile
  BY <1>2 DEF WorkedInv, Integrate, Reconcile, Reconciled, Closed
<1>3. CASE Exit
  BY <1>3 DEF WorkedInv, Exit, DropLeases
<1>4. CASE Resume
  BY <1>4 DEF WorkedInv, Resume, DropLeases
<1>5. ASSUME NEW t \in Tasks, Begin(t) \/ BeginReview(t) \/ Exhausted(t)
      PROVE  WorkedInv'
  BY <1>5 DEF IInv, TypeOK, WorkedInv, Begin, BeginReview, Exhausted, Commit
<1>6. ASSUME NEW t \in Tasks, Submit(t)
      PROVE  WorkedInv'
  BY <1>6 DEF IInv, TypeOK, WorkedInv, Submit
<1>7. ASSUME NEW t \in Tasks, WorkFails(t) \/ ReviewBreaks(t)
      PROVE  WorkedInv'
  BY <1>7 DEF IInv, TypeOK, WorkedInv, WorkFails, ReviewBreaks, Failed, Commit, GivenUp
<1>8. ASSUME NEW t \in Tasks, ReviewersFail(t) \/ Accept(t) \/ Rework(t)
      PROVE  WorkedInv'
  BY <1>8 DEF IInv, TypeOK, WorkedInv, ReviewersFail, Accept, Rework, Commit
<1>9. CASE UNCHANGED vars
  BY <1>9 DEF WorkedInv, vars, record
<1>10. QED
  BY <1>1, <1>2, <1>3, <1>4, <1>5, <1>6, <1>7, <1>8, <1>9
  DEF Next, Schedule, Execute, Operator, Moves, Passes

LEMMA SpecWorked == Spec => []WorkedInv
<1>1. Init => WorkedInv
  BY DEF Init, WorkedInv
<1>2. IInv /\ WorkedInv /\ [Next]_vars => WorkedInv'
  BY StepWorked
<1>3. QED
  BY <1>1, <1>2, SpecIInv, PTL DEF Spec

\* What becomes of a task while it is neither accepted nor executed.
Changes(t) ==
  \/ status'[t] = status[t]
  \/ status[t] \in Open /\ status'[t] \in Open \cup {"blocked", "cancelled"}
  \/ status[t] \in Open /\ status'[t] = "failed" /\ executed[t] > 0

LEMMA ChangesGiveUp ==
  ASSUME IInv, IInv', UNCHANGED executed, \A t \in Tasks : Changes(t)
  PROVE  Graph!GiveUp
<1> DEFINE verdict == [t \in Tasks |-> IF status[t] \in Open THEN "open" ELSE status[t]]
<1>1. status' \in [Tasks -> Open \cup Halted \cup {"accepted"}]
  BY DEF IInv, TypeOK
<1>2. verdict' \in [Tasks -> Graph!Verdicts]
  BY <1>1 DEF Graph!Verdicts, Graph!Lost, Halted, Open, Waiting
<1>3. ASSUME NEW t \in Tasks, verdict'[t] # verdict[t]
      PROVE  /\ verdict[t] = "open" /\ verdict'[t] \in Graph!Lost
             /\ verdict'[t] = "failed" => executed[t] > 0
             /\ verdict'[t] = "blocked" => \E d \in Deps[t] : verdict'[d] \in Graph!Lost
  <2>1. status[t] \in Open /\ status'[t] \in Halted /\ verdict'[t] = status'[t]
    BY <1>3 DEF Changes, Halted, Open, Waiting
  <2>2. status'[t] = "failed" => executed[t] > 0
    BY <2>1 DEF Changes, Open, Waiting
  <2>3. status'[t] = "blocked" => \E d \in Deps[t] : verdict'[d] \in Graph!Lost
    <3>1. Deps[t] \subseteq Tasks
      BY SchedulerAssumption
    <3>2. status'[t] = "blocked" => \E d \in Deps[t] : status'[d] \in Halted
      BY DEF IInv, StartsAfterDependencies
    <3>3. QED
      BY <3>1, <3>2 DEF Graph!Lost, Halted, Open, Waiting
  <2>4. QED
    BY <2>1, <2>2, <2>3 DEF Graph!Lost, Halted
<1>4. QED
  BY <1>2, <1>3 DEF Graph!GiveUp

LEMMA BeginExecutes ==
  ASSUME IInv, NEW t \in Tasks, Begin(t)
  PROVE  Graph!Execute(t)
<1> DEFINE verdict == [u \in Tasks |-> IF status[u] \in Open THEN "open" ELSE status[u]]
<1>1. Deps[t] \subseteq Tasks
  BY SchedulerAssumption
<1>2. \A d \in Deps[t] : status[d] = "accepted"
  BY DEF IInv, StartsAfterDependencies, Begin, Open, Waiting
<1>3. Graph!MayRun(t)
  BY <1>1, <1>2 DEF Graph!MayRun, Begin, Open, Waiting
<1>4. verdict' = verdict
  <2>1. \A u \in Tasks : status'[u] = status[u] \/ (status[u] \in Open /\ status'[u] \in Open)
    BY DEF IInv, TypeOK, Begin, Commit, Open, Waiting
  <2>2. QED
    BY <2>1
<1>5. QED
  BY <1>3, <1>4 DEF Graph!Execute, Begin, ExecutionLeft

LEMMA AcceptAccepts ==
  ASSUME IInv, WorkedInv, NEW t \in Tasks, Accept(t)
  PROVE  Graph!Accept(t)
<1> DEFINE verdict == [u \in Tasks |-> IF status[u] \in Open THEN "open" ELSE status[u]]
<1>1. Deps[t] \subseteq Tasks
  BY SchedulerAssumption
<1>2. status[t] \in Open /\ executed[t] > 0 /\ \A d \in Deps[t] : status[d] = "accepted"
  BY DEF IInv, LeaseInv, StartsAfterDependencies, WorkedInv, Accept, Open, Waiting
<1>3. Graph!MayRun(t)
  BY <1>1, <1>2 DEF Graph!MayRun, Open, Waiting
<1>4. verdict' = [verdict EXCEPT ![t] = "accepted"]
  <2>1. status' = [status EXCEPT ![t] = "accepted"]
    BY DEF Accept, Commit
  <2>2. QED
    BY <2>1 DEF IInv, TypeOK, Open, Waiting
<1>5. QED
  BY <1>2, <1>3, <1>4 DEF Graph!Accept, Accept

\* Any other step leaves the tasks as they are, or gives some of them up.
LEMMA OthersChange ==
  ASSUME IInv, WorkedInv, [Next]_vars, ~\E t \in Tasks : Begin(t) \/ Accept(t)
  PROVE  UNCHANGED executed /\ \A t \in Tasks : Changes(t)
<1>1. CASE Moves \/ Finish \/ Integrate \/ Reconcile \/ \E t \in Tasks : Passes(t)
  BY <1>1 DEF Changes, Moves, Announced, Launch, Aborted, AllSettled, CannotFinish,
    IntegrateFails, Replay, ReplayFails, Crash, Signal, Finish, Integrate, Reconcile, Passes,
    CannotBegin, CellFails, DecideLate, Publish, PublishFails, Return, Reject, record
<1>2. CASE Refresh
  <2>1. PICK stuck \in SUBSET Tasks : Stuck(stuck) /\ status' = Refreshed(stuck)
    BY <1>2 DEF Refresh
  <2>2. \A t \in Tasks : status'[t] = status[t]
          \/ (status[t] \in Waiting /\ status'[t] \in {"blocked", "ready"})
    BY <2>1 DEF Stuck, Refreshed
  <2>3. QED
    BY <1>2, <2>2 DEF Changes, Refresh, Open, Waiting
<1>3. CASE Exit \/ Resume
  BY <1>3 DEF Changes, Exit, Resume, Open, Waiting
<1>4. ASSUME NEW t \in Tasks, BeginReview(t) \/ Exhausted(t) \/ CancelTask(t)
      PROVE  UNCHANGED executed /\ \A u \in Tasks : Changes(u)
  <2>1. Exhausted(t) => executed[t] > 0
    BY Budgets DEF IInv, TypeOK, WorkedInv, Exhausted, ExecutionLeft
  <2>2. QED
    BY <1>4, <2>1 DEF IInv, TypeOK, Changes, BeginReview, Exhausted, CancelTask, Commit, Open,
      Waiting
<1>5. ASSUME NEW t \in Tasks, Submit(t) \/ WorkFails(t) \/ ReviewBreaks(t) \/ ReviewersFail(t)
                              \/ Rework(t)
      PROVE  UNCHANGED executed /\ \A u \in Tasks : Changes(u)
  <2>1. leased[t] => status[t] \in Open /\ executed[t] > 0
    BY DEF IInv, LeaseInv, WorkedInv, Open
  <2>2. \/ UNCHANGED status
        \/ leased[t] /\ \E next \in Open \cup {"cancelled", "failed"} :
             status' = [status EXCEPT ![t] = next]
    BY <1>5 DEF Submit, WorkFails, ReviewBreaks, ReviewersFail, Rework, Failed, Commit, Open,
      Waiting
  <2>3. UNCHANGED executed
    BY <1>5 DEF Submit, WorkFails, ReviewBreaks, ReviewersFail, Rework
  <2>4. QED
    BY <2>1, <2>2, <2>3 DEF IInv, TypeOK, Changes
<1>6. CASE UNCHANGED vars
  BY <1>6 DEF Changes, vars, record
<1>7. QED
  BY <1>1, <1>2, <1>3, <1>4, <1>5, <1>6 DEF Next, Schedule, Execute, Operator, Moves, Passes

\* Whatever fails, is cancelled, interrupted or resumed, the tasks of a run are executed
\* as the graph they are: in order, within the budget, each ending once (executeDag,
\* executeTask, handleTaskFailure, refreshTaskStates, runPipeline, resume).
THEOREM RunExecutesGraph == Spec => ExecutesGraph
<1>1. Init => Graph!Init
  BY DEF Init, Graph!Init, Open, Waiting
<1>2. IInv /\ IInv' /\ WorkedInv /\ [Next]_vars => [Graph!Next]_(Graph!vars)
  <2> SUFFICES ASSUME IInv, IInv', WorkedInv, [Next]_vars PROVE Graph!Next
    OBVIOUS
  <2>1. CASE \E t \in Tasks : Begin(t) \/ Accept(t)
    BY <2>1, BeginExecutes, AcceptAccepts DEF Graph!Next
  <2>2. CASE ~\E t \in Tasks : Begin(t) \/ Accept(t)
    BY <2>2, OthersChange, ChangesGiveUp DEF Graph!Next
  <2>3. QED
    BY <2>1, <2>2
<1>3. QED
  BY <1>1, <1>2, SpecIInv, SpecWorked, PTL DEF Spec, ExecutesGraph, Graph!Spec
=============================================================================
