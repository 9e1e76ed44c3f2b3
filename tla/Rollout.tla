------------------------------ MODULE Rollout ------------------------------
(***************************************************************************)
(* The deployment of candidate bundles for one workload: a stable pointer, *)
(* rollouts with an active index, the router that admits candidate         *)
(* traffic, and the control loop that turns telemetry into a rollback and  *)
(* its recovery (traffic rollback, quarantine, failure capsule).           *)
(*                                                                         *)
(* A section under the activation lock is one action, a recovery is several. *)
(* A rollout stands for its candidate bundle and genome.                   *)
(***************************************************************************)
EXTENDS Naturals, Sequences

CONSTANTS Procs,      \* runs in one workspace, each with its control plane
          Operator,   \* the program that creates and advances rollouts
          Rollouts,
          Requests,   \* requests in flight over all runs
          None,
          MaxGen,     \* bound on the generation of the stable pointer
          MaxFaults   \* bound on crashes and appends that break off

ASSUME DistinctNames == Operator \notin Procs /\ None \notin Procs \cup Rollouts
ASSUME Bounds == MaxGen \in Nat \ {0} /\ MaxFaults \in Nat

VARIABLES
  pointer,     \* stable pointer: bundle, generation, trusted baseline audit
  history,     \* bundles a pointer rollback may return to
  quarantined, \* bundles and genomes that may not run
  state,       \* head revision of each rollout
  acks,        \* acknowledged effects of its recovery
  wedged,      \* rollouts with a revision file behind their head
  bind,        \* champion generation in the immutable binding, 0: none
  index,       \* rollout the active index names
  indexWedged, \* the index has a revision file behind its head
  ledger,      \* effects each incident has completed
  backlog,     \* telemetry records without an application marker
  up, pin,     \* life of a run and the champion generation it is pinned to
  loop,        \* owner of the control loop's lock
  job,         \* what a process does in the control loop or a recovery
  req, faults

pointers == <<pointer, history>>
rollouts == <<state, acks, wedged>>
indexes == <<bind, index, indexWedged>>
effects == <<quarantined, ledger>>
runs == <<up, pin>>
vars == <<pointers, rollouts, indexes, effects, runs, backlog, loop, job, req, faults>>

Baselines == {"base", "newBase"}
Ladder == <<"draft", "shadow", "canary", "promotable", "operator_promoted">>
Live == {"shadow", "canary"}
Over == {"rejected", "rolled_back"}
Effects == {"rollback", "quarantine", "capsule"}
Records == [r : Rollouts, bad : BOOLEAN]
NoRecord == [r |-> None, bad |-> FALSE]

Recovery == {"rollback", "stopping", "quarantine", "writing", "noting", "capsule",
             "marking1", "marking2", "marking3"}
NoJob == [pc |-> "none", r |-> None, seen |-> None, rec |-> NoRecord, todo |-> {}]
NoReq == [pc |-> "idle", p |-> None, r |-> None, mode |-> None]

TypeOK ==
  /\ pointer \in [bundle : Rollouts \cup Baselines, gen : 1..MaxGen, trusted : BOOLEAN]
  /\ history \in Seq(Rollouts \cup Baselines) /\ Len(history) < pointer.gen
  /\ quarantined \subseteq Rollouts \cup Baselines
  /\ state \in [Rollouts -> {Ladder[i] : i \in 1..5} \cup Over]
  /\ acks \in [Rollouts -> 0..3]
  /\ wedged \subseteq Rollouts /\ indexWedged \in BOOLEAN
  /\ bind \in [Rollouts -> 0..pointer.gen]
  /\ index \in Rollouts \cup {None} /\ (index # None => bind[index] > 0)
  /\ ledger \in [Rollouts -> SUBSET Effects]
  /\ backlog \subseteq Records
  /\ up \in [Procs -> {"down", "starting", "serving"}]
  /\ pin \in [Procs -> 0..pointer.gen]
  /\ loop \in Procs \cup {None}
  /\ job \in [Procs \cup {Operator} ->
                [pc : Recovery \cup {"none", "list", "release", "next", "ingest", "apply"},
                 r : Rollouts \cup {None}, seen : Live \cup {None},
                 rec : Records \cup {NoRecord}, todo : SUBSET Records]]
  /\ req \in [Requests -> [pc : {"idle", "read", "running", "observed", "failing"},
                           p : Procs \cup {None}, r : Rollouts \cup {None},
                           mode : Live \cup {None}]]
  /\ faults \in 0..MaxFaults

Init ==
  /\ pointer = [bundle |-> "base", gen |-> 1, trusted |-> TRUE] /\ history = <<>>
  /\ quarantined = {}
  /\ state = [r \in Rollouts |-> "draft"] /\ acks = [r \in Rollouts |-> 0]
  /\ wedged = {}
  /\ bind = [r \in Rollouts |-> 0] /\ index = None /\ indexWedged = FALSE
  /\ ledger = [r \in Rollouts |-> {}] /\ backlog = {}
  /\ up = [p \in Procs |-> "down"] /\ pin = [p \in Procs |-> 0]
  /\ loop = None /\ job = [p \in Procs \cup {Operator} |-> NoJob]
  /\ req = [q \in Requests |-> NoReq] /\ faults = 0

\* --- stable pointer ------------------------------------------------------

Point(b, trusted) ==
  /\ pointer.gen < MaxGen
  /\ pointer' = [bundle |-> b, gen |-> pointer.gen + 1, trusted |-> trusted]

\* Evaluation receipts are the operator's: any candidate may have one that
\* compares it with the current champion.
Promote(r) ==
  /\ r \notin quarantined /\ r # pointer.bundle
  /\ \/ index = None
     \/ index = r /\ state[r] = "operator_promoted" /\ bind[r] = pointer.gen
  /\ Point(r, FALSE) /\ history' = Append(history, pointer.bundle)
  /\ UNCHANGED <<rollouts, indexes, effects, runs, backlog, loop, job, req, faults>>

\* A binary with a newer baseline starts; nothing asks the active rollout.
UpgradeShippedBaseline ==
  /\ pointer.bundle = "base" /\ pointer.trusted
  /\ Point("newBase", TRUE)
  /\ UNCHANGED <<history, rollouts, indexes, effects, runs, backlog, loop, job, req, faults>>

RollbackPointer ==
  /\ history # <<>>
  /\ LET prior == history[Len(history)] IN
     prior \notin quarantined /\ Point(prior, FALSE)
  /\ history' = SubSeq(history, 1, Len(history) - 1)
  /\ quarantined' = quarantined \cup {pointer.bundle}
  /\ UNCHANGED <<rollouts, indexes, ledger, runs, backlog, loop, job, req, faults>>

\* --- rollouts and their index --------------------------------------------

\* The evaluation stages before shadow are one state.
Advance(r) ==
  /\ r \notin wedged
  /\ \E i \in 1..4 : state[r] = Ladder[i] /\ state' = [state EXCEPT ![r] = Ladder[i + 1]]
  /\ UNCHANGED <<pointers, acks, wedged, indexes, effects, runs, backlog, loop, job, req, faults>>

\* advance with a receipt that violates the SLO, in the operator's program.
AdvanceViolating(r) ==
  /\ r \notin wedged /\ job[Operator] = NoJob
  /\ \/ /\ state[r] = "draft"
        /\ state' = [state EXCEPT ![r] = "rejected"] /\ UNCHANGED job
     \/ /\ state[r] \in Live
        /\ state' = [state EXCEPT ![r] = "rolled_back"]
        /\ job' = [job EXCEPT ![Operator].pc = "rollback", ![Operator].r = r]
  /\ UNCHANGED <<pointers, acks, wedged, indexes, effects, runs, backlog, loop, req, faults>>

Fail(r) ==
  /\ r \notin wedged /\ state[r] \notin Over
  /\ state' = [state EXCEPT ![r] = "rejected"]
  /\ UNCHANGED <<pointers, acks, wedged, indexes, effects, runs, backlog, loop, job, req, faults>>

CanActivate(r) ==
  /\ state[r] \in Live /\ r \notin quarantined /\ r # pointer.bundle
  /\ bind[r] \in {0, pointer.gen}
  /\ index # None => (index # r /\ state[index] \in Over)

Activate(r) ==
  /\ CanActivate(r) /\ ~indexWedged
  /\ bind' = [bind EXCEPT ![r] = pointer.gen] /\ index' = r
  /\ UNCHANGED <<pointers, rollouts, indexWedged, effects, runs, backlog, loop, job, req, faults>>

Unsafe == index # None /\ (index \in quarantined \/ bind[index] # pointer.gen)
ReadThrows == Unsafe /\ indexWedged  \* readActive cannot append its stop

\* What readActive returns, after it stopped an unsafe rollout.
ReadActiveAnyway == index  \* (mutated form: reads the index only)
ReadActive == IF Unsafe THEN None ELSE index

\* An append of the operator links its revision and never moves the head.
OperatorBreaksOff ==
  /\ faults < MaxFaults /\ faults' = faults + 1
  /\ \/ \E r \in Rollouts : /\ state[r] \notin Over
                            /\ wedged' = wedged \cup {r} /\ UNCHANGED indexes
     \/ \E r \in Rollouts : /\ CanActivate(r) /\ ~indexWedged
                            /\ bind' = [bind EXCEPT ![r] = pointer.gen]
                            /\ indexWedged' = TRUE /\ UNCHANGED <<index, wedged>>
  /\ UNCHANGED <<pointers, state, acks, effects, runs, backlog, loop, job, req>>

\* --- control loop --------------------------------------------------------

Job(p, j) == job' = [job EXCEPT ![p] = j]
Goto(p, pc) == job' = [job EXCEPT ![p].pc = pc]

\* A throw leaves the loop; during the start it ends the run.
Leave(p) ==
  /\ Job(p, NoJob)
  /\ loop' = IF loop = p THEN None ELSE loop
  /\ up' = [q \in Procs |-> IF q = p /\ up[p] = "starting" THEN "down" ELSE up[q]]
  /\ UNCHANGED pin

\* A new run is pinned to the stable pointer, a resumed one keeps its pin.
Start(p) ==
  /\ up[p] = "down" /\ loop = None
  /\ \/ pointer.bundle \notin quarantined /\ pin' = [pin EXCEPT ![p] = pointer.gen]
     \/ pin[p] > 0 /\ UNCHANGED pin
  /\ up' = [up EXCEPT ![p] = "starting"] /\ loop' = p
  /\ Job(p, [NoJob EXCEPT !.pc = "list"])
  /\ UNCHANGED <<pointers, rollouts, indexes, effects, backlog, req, faults>>

Stage(k) == <<"rollback", "quarantine", "capsule">>[k + 1]

\* start lists the active rollout and takes up its recovery.
List(p) ==
  /\ job[p].pc = "list"
  /\ IF ReadThrows THEN Leave(p) /\ UNCHANGED index
     ELSE /\ index' = ReadActive
          /\ IF index' = None THEN Job(p, [job[p] EXCEPT !.pc = "next", !.todo = backlog])
             ELSE Job(p, [job[p] EXCEPT !.r = index', !.pc =
                    IF state[index'] = "rolled_back" /\ acks[index'] < 3
                    THEN Stage(acks[index']) ELSE "release"])
          /\ UNCHANGED <<loop, runs>>
  /\ UNCHANGED <<pointers, rollouts, bind, indexWedged, effects, backlog, req, faults>>

\* ... and frees the index of a rollout that is over.
ReleaseIndex(p) ==
  /\ job[p].pc = "release"
  /\ IF state[job[p].r] \in Over /\ (index # job[p].r \/ indexWedged)
     THEN Leave(p) /\ UNCHANGED index
     ELSE /\ index' = IF state[job[p].r] \in Over THEN None ELSE index
          /\ Job(p, [NoJob EXCEPT !.pc = "next", !.todo = backlog])
          /\ UNCHANGED <<loop, runs>>
  /\ UNCHANGED <<pointers, rollouts, bind, indexWedged, effects, backlog, req, faults>>

Applied(p, rec) ==
  /\ backlog' = backlog \ {rec}
  /\ Job(p, [NoJob EXCEPT !.pc = "next", !.todo = job[p].todo \ {rec}])

Process(p) ==
  /\ job[p].pc = "next"
  /\ \E rec \in job[p].todo :
       IF state[rec.r] \notin Live THEN Applied(p, rec)
       ELSE /\ Job(p, [job[p] EXCEPT !.pc = "ingest", !.r = rec.r, !.rec = rec,
                                     !.seen = state[rec.r]])
            /\ UNCHANGED backlog
  /\ UNCHANGED <<pointers, rollouts, indexes, effects, runs, loop, req, faults>>

LoopEnds(p) ==
  /\ job[p].pc = "next" /\ job[p].todo = {}
  /\ Job(p, NoJob) /\ loop' = None
  /\ up' = [up EXCEPT ![p] = "serving"]
  /\ UNCHANGED <<pointers, rollouts, indexes, effects, pin, backlog, req, faults>>

\* The signed receipt of a window; one that violates the SLO begins the recovery.
Ingest(p) ==
  /\ job[p].pc = "ingest"
  /\ LET r == job[p].r IN
     \/ /\ state[r] # job[p].seen \/ (job[p].rec.bad /\ r \in wedged)
        /\ Leave(p) /\ UNCHANGED <<state, backlog>>
     \/ /\ state[r] = job[p].seen /\ ~job[p].rec.bad
        /\ Applied(p, job[p].rec) /\ UNCHANGED <<state, loop, runs>>
     \/ /\ state[r] = job[p].seen /\ job[p].rec.bad /\ r \notin wedged
        /\ state' = [state EXCEPT ![r] = "rolled_back"]
        /\ Goto(p, "rollback") /\ UNCHANGED <<backlog, loop, runs>>
  /\ UNCHANGED <<pointers, acks, wedged, indexes, effects, req, faults>>

\* --- recovery ------------------------------------------------------------

Bound(r) == state[r] = "rolled_back" /\ bind[r] = pointer.gen  \* requireLiveRecovery

RollbackTraffic(p) ==
  /\ job[p].pc = "rollback"
  /\ LET r == job[p].r IN
     IF "rollback" \in ledger[r] \/ (Bound(r) /\ index \in {None, r})
     THEN /\ Goto(p, IF "rollback" \in ledger[r] THEN "marking1" ELSE "stopping")
          /\ UNCHANGED <<loop, runs>>
     ELSE Leave(p)
  /\ UNCHANGED <<pointers, rollouts, indexes, effects, backlog, req, faults>>

\* Two recoveries that saw different indexes disagree on the result.
NoteRollback(p) ==
  /\ job[p].pc = "stopping"
  /\ \/ /\ ledger' = [ledger EXCEPT ![job[p].r] = @ \cup {"rollback"}]
        /\ Goto(p, "marking1") /\ UNCHANGED <<loop, runs>>
     \/ /\ "rollback" \in ledger[job[p].r] /\ Leave(p) /\ UNCHANGED ledger
  /\ UNCHANGED <<pointers, rollouts, indexes, quarantined, backlog, req, faults>>

NoteFirst(p) ==  \* (mutated form: the effect is noted before it is done)
  /\ job[p].pc = "quarantine"
  /\ LET r == job[p].r IN
     IF "quarantine" \in ledger[r] THEN Goto(p, "marking2") /\ UNCHANGED <<ledger, loop, runs>>
     ELSE /\ Goto(p, "writing") /\ UNCHANGED <<loop, runs>>
          /\ ledger' = [ledger EXCEPT ![r] = @ \cup {"quarantine"}]
  /\ UNCHANGED <<pointers, rollouts, indexes, quarantined, backlog, req, faults>>

\* The checks of the quarantine authority come before, and outside of, its write.
CheckQuarantine(p) ==
  /\ job[p].pc = "quarantine"
  /\ LET r == job[p].r IN
     IF "quarantine" \in ledger[r] THEN Goto(p, "marking2") /\ UNCHANGED <<loop, runs>>
     ELSE IF "rollback" \in ledger[r] /\ Bound(r)
          THEN Goto(p, "writing") /\ UNCHANGED <<loop, runs>>
          ELSE Leave(p)
  /\ UNCHANGED <<pointers, rollouts, indexes, effects, backlog, req, faults>>

WriteQuarantine(p) ==
  /\ job[p].pc = "writing"
  /\ quarantined' = quarantined \cup {job[p].r} /\ Goto(p, "noting")
  /\ UNCHANGED <<pointers, rollouts, indexes, ledger, runs, backlog, loop, req, faults>>

NoteQuarantine(p) ==
  /\ job[p].pc = "noting"
  /\ ledger' = [ledger EXCEPT ![job[p].r] = @ \cup {"quarantine"}] /\ Goto(p, "marking2")
  /\ UNCHANGED <<pointers, rollouts, indexes, quarantined, runs, backlog, loop, req, faults>>

\* Publishing is idempotent by fingerprint: capsule and ledger are one step.
EmitCapsule(p) ==
  /\ job[p].pc = "capsule"
  /\ ledger' = [ledger EXCEPT ![job[p].r] = @ \cup {"capsule"}] /\ Goto(p, "marking3")
  /\ UNCHANGED <<pointers, rollouts, indexes, quarantined, runs, backlog, loop, req, faults>>

Recovered(p) == IF p = Operator THEN Job(p, NoJob)
                ELSE Goto(p, IF job[p].rec = NoRecord THEN "release" ELSE "apply")

MarkOnTop(p, k) ==  \* (mutated form: counts the effect another recovery has marked)
  /\ job[p].pc = <<"marking1", "marking2", "marking3">>[k]
  /\ acks' = [acks EXCEPT ![job[p].r] = @ + 1]
  /\ IF k = 3 THEN Recovered(p) ELSE Goto(p, Stage(k))
  /\ UNCHANGED <<pointers, state, wedged, indexes, effects, runs, backlog, loop, req, faults>>

Mark(p, k) ==
  /\ job[p].pc = <<"marking1", "marking2", "marking3">>[k]
  /\ LET r == job[p].r
         latest == IF acks[r] < k THEN k ELSE acks[r] IN
     IF acks[r] < k /\ r \in wedged THEN Leave(p) /\ UNCHANGED acks
     ELSE /\ acks' = [acks EXCEPT ![r] = latest]
          /\ IF latest = 3 THEN Recovered(p) ELSE Goto(p, Stage(latest))
          /\ UNCHANGED <<loop, runs>>
  /\ UNCHANGED <<pointers, state, wedged, indexes, effects, backlog, req, faults>>

RecordApplication(p) ==
  /\ job[p].pc = "apply" /\ Applied(p, job[p].rec)
  /\ UNCHANGED <<pointers, rollouts, indexes, effects, runs, loop, req, faults>>

\* --- router --------------------------------------------------------------

Set(q, v) == req' = [req EXCEPT ![q] = v]

\* Only requests that head for the candidate are followed.
Route(q, p) ==
  /\ up[p] = "serving" /\ req[q] = NoReq /\ ~ReadThrows
  /\ index' = ReadActive
  /\ IF index' # None /\ pin[p] = bind[index] /\ state[index] \in Live
     THEN Set(q, [pc |-> "read", p |-> p, r |-> index, mode |-> state[index]])
     ELSE UNCHANGED req
  /\ UNCHANGED <<pointers, rollouts, bind, indexWedged, effects, runs, backlog, loop, job, faults>>

AdmitAsRead(q) ==  \* (mutated form: trusts what route read)
  /\ req[q].pc = "read"
  /\ req' = [req EXCEPT ![q].pc = "running"]
  /\ UNCHANGED <<pointers, rollouts, indexes, effects, runs, backlog, loop, job, faults>>

\* admitCandidate reads again, under the lock, what route had read.
Admit(q) ==
  /\ req[q].pc = "read"
  /\ IF ReadThrows THEN Set(q, NoReq) /\ UNCHANGED index
     ELSE /\ index' = ReadActive
          /\ IF index' = req[q].r /\ state[req[q].r] = req[q].mode
             THEN req' = [req EXCEPT ![q].pc = "running"]
             ELSE Set(q, NoReq)
  /\ UNCHANGED <<pointers, rollouts, bind, indexWedged, effects, runs, backlog, loop, job, faults>>

\* The candidate answers or fails: its telemetry is durable first.
Observe(q) ==
  /\ req[q].pc = "running"
  /\ \E bad \in BOOLEAN :
       /\ backlog' = backlog \cup {[r |-> req[q].r, bad |-> bad]}
       /\ req' = [req EXCEPT ![q].pc = IF bad THEN "failing" ELSE "observed"]
  /\ UNCHANGED <<pointers, rollouts, indexes, effects, runs, loop, job, faults>>

IngestTelemetry(q) ==
  /\ req[q].pc \in {"observed", "failing"} /\ loop = None
  /\ loop' = req[q].p /\ Set(q, NoReq)
  /\ LET rec == [r |-> req[q].r, bad |-> req[q].pc = "failing"] IN
     Job(req[q].p, [NoJob EXCEPT !.pc = "next", !.todo = {rec} \cap backlog])
  /\ UNCHANGED <<pointers, rollouts, indexes, effects, runs, backlog, faults>>

\* The lock stays taken for too long: the record waits for the next start.
IngestTimesOut(q) ==
  /\ req[q].pc \in {"observed", "failing"} /\ loop # None /\ Set(q, NoReq)
  /\ UNCHANGED <<pointers, rollouts, indexes, effects, runs, backlog, loop, job, faults>>

\* --- faults --------------------------------------------------------------

\* The revision a dying process may leave linked behind a head.
BreaksOff(p) ==
  \/ UNCHANGED <<wedged, indexWedged>>
  \/ /\ \/ job[p].pc \in {"marking1", "marking2", "marking3"}
        \/ job[p].pc = "ingest" /\ job[p].rec.bad
     /\ wedged' = wedged \cup {job[p].r} /\ UNCHANGED indexWedged
  \/ /\ Unsafe \/ (job[p].pc = "release" /\ state[job[p].r] \in Over)
     /\ indexWedged' = TRUE /\ UNCHANGED wedged

Crash(p) ==
  /\ faults < MaxFaults /\ faults' = faults + 1
  /\ up[p] # "down" /\ BreaksOff(p)
  /\ up' = [up EXCEPT ![p] = "down"] /\ Job(p, NoJob)
  /\ loop' = IF loop = p THEN None ELSE loop
  /\ req' = [q \in Requests |-> IF req[q].p = p THEN NoReq ELSE req[q]]
  /\ UNCHANGED <<pointers, state, acks, bind, index, effects, pin, backlog>>

Recover(p) ==
  \/ RollbackTraffic(p) \/ NoteRollback(p) \/ CheckQuarantine(p) \/ WriteQuarantine(p)
  \/ NoteQuarantine(p) \/ EmitCapsule(p) \/ \E k \in 1..3 : Mark(p, k)

Next ==
  \/ \E r \in Rollouts : Promote(r) \/ Advance(r) \/ AdvanceViolating(r) \/ Fail(r) \/ Activate(r)
  \/ UpgradeShippedBaseline \/ RollbackPointer \/ OperatorBreaksOff
  \/ \E p \in Procs : \/ Start(p) \/ List(p) \/ ReleaseIndex(p) \/ Process(p) \/ LoopEnds(p)
                      \/ Ingest(p) \/ RecordApplication(p) \/ Crash(p)
  \/ \E p \in Procs \cup {Operator} : Recover(p)
  \/ \E q \in Requests : \/ \E p \in Procs : Route(q, p)
                         \/ Admit(q) \/ Observe(q) \/ IngestTelemetry(q) \/ IngestTimesOut(q)

Spec == Init /\ [][Next]_vars

-----------------------------------------------------------------------------
(* Properties. *)

\* An effect is acknowledged, and noted in the ledger, only when it was done and
\* the one before it was acknowledged, though recoveries of the operator and of
\* the runs meet, die and are taken up again (coordinator.ts:106-167,
\* adapters.ts:127-163).
RecoveryInOrder ==
  \A r \in Rollouts :
    /\ ledger[r] # {} => state[r] = "rolled_back"
    /\ acks[r] >= 1 => "rollback" \in ledger[r]
    /\ acks[r] >= 2 => "quarantine" \in ledger[r]
    /\ acks[r] = 3 => "capsule" \in ledger[r]
    /\ "quarantine" \in ledger[r] => r \in quarantined /\ acks[r] >= 1
    /\ "capsule" \in ledger[r] => acks[r] >= 2

Admissible(r) ==
  index = r /\ bind[r] = pointer.gen /\ r \notin quarantined /\ state[r] \in Live

\* A rollout that is over, quarantined, or bound to an earlier champion never
\* gets a request again, one that was routed before included, and one that left
\* the index never returns to it (runtime-store.ts:243-252).
OverForGood ==
  [][/\ \A r \in Rollouts :
          /\ state[r] \in Over => state'[r] = state[r]
          /\ index # r /\ index' = r => bind[r] = 0
     /\ \A q \in Requests :
          req[q].pc # "running" /\ req'[q].pc = "running" => Admissible(req[q].r)]_vars

=============================================================================
