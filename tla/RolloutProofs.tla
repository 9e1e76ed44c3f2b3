---------------------------- MODULE RolloutProofs ----------------------------
(***************************************************************************)
(* Proofs about Rollout for every set of runs, rollouts and requests and   *)
(* every bound.  What a recovery may do next depends on what it, or another *)
(* recovery of the same rollout, has done before (JobInv); a rollout that  *)
(* has left the index stays out because what took it from there lasts: it  *)
(* is over, quarantined, bound to an older champion, or the index is stuck *)
(* (LeftInv).                                                              *)
(***************************************************************************)
EXTENDS Rollout, SequenceTheorems, TLAPS

Workers == Procs \cup {Operator}

\* What holds of the rollout at each step of its recovery, whoever works on it.
JobOk(p) ==
  LET j == job[p] IN
  /\ j.pc \in Recovery \cup {"release", "ingest"} => j.r \in Rollouts
  /\ j.pc = "ingest" => j.seen \in Live
  /\ j.pc \in Recovery => state[j.r] = "rolled_back"
  /\ j.pc = "marking1" => "rollback" \in ledger[j.r]
  /\ j.pc \in {"quarantine", "writing", "noting"} => acks[j.r] >= 1
  /\ j.pc = "noting" => j.r \in quarantined
  /\ j.pc = "marking2" => "quarantine" \in ledger[j.r]
  /\ j.pc = "capsule" => acks[j.r] >= 2
  /\ j.pc = "marking3" => "capsule" \in ledger[j.r]
JobInv == \A p \in Workers : JobOk(p)

\* A request that is routed belongs to a run and follows a live rollout.
ReqInv ==
  \A q \in Requests : req[q].pc # "idle" =>
    req[q].p \in Procs /\ req[q].r \in Rollouts /\ req[q].mode \in Live

\* A rollout that is bound to the present champion without being in the index
\* has been there, and cannot return.
LeftInv ==
  \A r \in Rollouts : bind[r] = pointer.gen /\ index # r =>
    state[r] \in Over \/ r \in quarantined \/ indexWedged

IInv == TypeOK /\ JobInv /\ ReqInv /\ RecoveryInOrder /\ LeftInv

-----------------------------------------------------------------------------
(* Types. *)

JobTypes == [pc : Recovery \cup {"none", "list", "release", "next", "ingest", "apply"},
             r : Rollouts \cup {None}, seen : Live \cup {None},
             rec : Records \cup {NoRecord}, todo : SUBSET Records]
ReqTypes == [pc : {"idle", "read", "running", "observed", "failing"},
             p : Procs \cup {None}, r : Rollouts \cup {None}, mode : Live \cup {None}]
States == {Ladder[i] : i \in 1..5} \cup Over

\* The states of a rollout by name.
LEMMA StatesAre ==
  /\ States = {"draft", "shadow", "canary", "promotable", "operator_promoted",
               "rejected", "rolled_back"}
  /\ \A i \in 1..4 : Ladder[i] \notin Over /\ Ladder[i] \in States /\ Ladder[i + 1] \in States
  /\ Live \subseteq States /\ Over \subseteq States /\ Live \cap Over = {}
<1>1. /\ Ladder[1] = "draft" /\ Ladder[2] = "shadow" /\ Ladder[3] = "canary"
      /\ Ladder[4] = "promotable" /\ Ladder[5] = "operator_promoted"
  BY DEF Ladder
<1>2. 1..5 = {1, 2, 3, 4, 5} /\ 1..4 = {1, 2, 3, 4}
  OBVIOUS
<1>3. {Ladder[i] : i \in 1..5} = {Ladder[1], Ladder[2], Ladder[3], Ladder[4], Ladder[5]}
  BY <1>2
<1>4. States = {"draft", "shadow", "canary", "promotable", "operator_promoted",
               "rejected", "rolled_back"}
  BY <1>1, <1>3 DEF States, Over
<1> QED
  BY <1>1, <1>2, <1>4 DEF Live, Over

\* A job is replaced, or moved to another point, for one worker at a time.
LEMMA JobTyped ==
  ASSUME TypeOK, NEW p \in Workers
  PROVE  /\ \A j \in JobTypes : Job(p, j) => job' \in [Workers -> JobTypes]
         /\ \A c \in Recovery \cup {"none", "list", "release", "next", "ingest", "apply"} :
              Goto(p, c) => job' \in [Workers -> JobTypes]
         /\ Leave(p) => job' \in [Workers -> JobTypes]
         /\ job \in [Workers -> JobTypes] /\ NoJob \in JobTypes
<1>1. job \in [Workers -> JobTypes]
  BY DEF TypeOK, Workers, JobTypes
<1>2. NoJob \in JobTypes
  BY DEF NoJob, JobTypes
<1>3. ASSUME NEW c \in Recovery \cup {"none", "list", "release", "next", "ingest", "apply"}, Goto(p, c)
      PROVE  job' \in [Workers -> JobTypes]
  <2>1. [job[p] EXCEPT !.pc = c] \in JobTypes
    BY <1>1 DEF JobTypes
  <2>2. job' = [job EXCEPT ![p] = [job[p] EXCEPT !.pc = c]]
    BY <1>3 DEF Goto
  <2> QED
    BY <1>1, <2>1, <2>2
<1> QED
  BY <1>1, <1>2, <1>3 DEF Job, Leave

\* A request is replaced, or moved to another point, one at a time.
LEMMA ReqTyped ==
  ASSUME TypeOK, NEW q \in Requests
  PROVE  /\ \A v \in ReqTypes : Set(q, v) => req' \in [Requests -> ReqTypes]
         /\ \A c \in {"running", "observed", "failing"} :
              req' = [req EXCEPT ![q].pc = c] => req' \in [Requests -> ReqTypes]
         /\ req \in [Requests -> ReqTypes] /\ NoReq \in ReqTypes
<1>1. req \in [Requests -> ReqTypes]
  BY DEF TypeOK, ReqTypes
<1>2. NoReq \in ReqTypes
  BY DEF NoReq, ReqTypes
<1>3. ASSUME NEW c \in {"running", "observed", "failing"}, req' = [req EXCEPT ![q].pc = c]
      PROVE  req' \in [Requests -> ReqTypes]
  <2>1. [req[q] EXCEPT !.pc = c] \in ReqTypes
    BY <1>1 DEF ReqTypes
  <2>2. req' = [req EXCEPT ![q] = [req[q] EXCEPT !.pc = c]]
    BY <1>3
  <2> QED
    BY <1>1, <2>1, <2>2
<1> QED
  BY <1>1, <1>2, <1>3 DEF Set

\* Leaving the loop keeps the life of the runs and the owner of the loop typed.
LEMMA LeaveTyped ==
  ASSUME TypeOK, NEW p \in Workers, Leave(p)
  PROVE  /\ up' \in [Procs -> {"down", "starting", "serving"}]
         /\ loop' \in Procs \cup {None} /\ pin' = pin
BY DEF TypeOK, Leave

\* The types of the deployment's files.
FilesTyped ==
  /\ pointer \in [bundle : Rollouts \cup Baselines, gen : 1..MaxGen, trusted : BOOLEAN]
  /\ history \in Seq(Rollouts \cup Baselines) /\ Len(history) < pointer.gen
  /\ quarantined \subseteq Rollouts \cup Baselines
  /\ state \in [Rollouts -> States]
  /\ acks \in [Rollouts -> 0..3]
  /\ wedged \subseteq Rollouts /\ indexWedged \in BOOLEAN
  /\ bind \in [Rollouts -> 0..pointer.gen]
  /\ index \in Rollouts \cup {None} /\ (index # None => bind[index] > 0)
  /\ ledger \in [Rollouts -> SUBSET Effects]
  /\ backlog \subseteq Records

\* The types of the programs at work.
ProgramsTyped ==
  /\ up \in [Procs -> {"down", "starting", "serving"}]
  /\ pin \in [Procs -> 0..pointer.gen]
  /\ loop \in Procs \cup {None}
  /\ job \in [Workers -> JobTypes]
  /\ req \in [Requests -> ReqTypes]
  /\ faults \in 0..MaxFaults

LEMMA TypeParts == TypeOK <=> FilesTyped /\ ProgramsTyped
BY DEF TypeOK, FilesTyped, ProgramsTyped, States, Workers, JobTypes, ReqTypes

\* The pointer moves to a bundle and the next generation.
LEMMA PointTyped ==
  ASSUME TypeOK, NEW b \in Rollouts \cup Baselines, NEW t \in BOOLEAN, Point(b, t)
  PROVE  /\ pointer' \in [bundle : Rollouts \cup Baselines, gen : 1..MaxGen, trusted : BOOLEAN]
         /\ pointer'.gen = pointer.gen + 1 /\ pointer.gen \in 1..MaxGen
         /\ 0..pointer.gen \subseteq 0..pointer'.gen
BY Bounds DEF TypeOK, Point

PointerStep ==
  \/ \E r \in Rollouts : Promote(r)
  \/ UpgradeShippedBaseline \/ RollbackPointer
RolloutStep ==
  \/ \E r \in Rollouts : Advance(r) \/ AdvanceViolating(r) \/ Fail(r) \/ Activate(r)
  \/ OperatorBreaksOff
LoopStep(p) ==
  \/ Start(p) \/ List(p) \/ ReleaseIndex(p) \/ Process(p) \/ LoopEnds(p)
  \/ Ingest(p) \/ RecordApplication(p)
RequestStep(q) ==
  (\E p \in Procs : Route(q, p)) \/ Admit(q) \/ Observe(q) \/ IngestTelemetry(q) \/ IngestTimesOut(q)

\* Every step is one of these.
LEMMA NextCases ==
  Next <=> \/ PointerStep \/ RolloutStep
           \/ \E p \in Procs : LoopStep(p) \/ Crash(p)
           \/ \E p \in Workers : Recover(p)
           \/ \E q \in Requests : RequestStep(q)
BY DEF Next, PointerStep, RolloutStep, LoopStep, RequestStep, Workers

LEMMA PointerStepTyped ==
  ASSUME TypeOK, PointerStep
  PROVE  TypeOK'
<1>0. FilesTyped /\ ProgramsTyped
  BY TypeParts
<1>1. UNCHANGED <<rollouts, indexes, ledger, runs, backlog, loop, job, req, faults>>
  BY DEF PointerStep, Promote, UpgradeShippedBaseline, RollbackPointer, effects
<1>2. \E b \in Rollouts \cup Baselines, t \in BOOLEAN : Point(b, t)
  <2>1. ASSUME RollbackPointer PROVE history[Len(history)] \in Rollouts \cup Baselines
    <3>1. history \in Seq(Rollouts \cup Baselines) /\ history # <<>>
      BY <1>0, <2>1 DEF FilesTyped, RollbackPointer
    <3> QED
      BY <3>1
  <2>2. "newBase" \in Baselines
    BY DEF Baselines
  <2> QED
    BY <2>1, <2>2 DEF PointerStep, Promote, UpgradeShippedBaseline, RollbackPointer
<1>3. /\ pointer' \in [bundle : Rollouts \cup Baselines, gen : 1..MaxGen, trusted : BOOLEAN]
      /\ pointer'.gen = pointer.gen + 1 /\ pointer.gen \in 1..MaxGen
      /\ 0..pointer.gen \subseteq 0..pointer'.gen
  BY <1>2, PointTyped
<1>4. history' \in Seq(Rollouts \cup Baselines) /\ Len(history') < pointer'.gen
  <2> DEFINE B == Rollouts \cup Baselines
  <2>0. history \in Seq(B) /\ Len(history) < pointer.gen /\ pointer.bundle \in B /\ Len(history) \in Nat
    BY <1>0 DEF FilesTyped
  <2>1. CASE history' = Append(history, pointer.bundle)
    <3> HIDE DEF B
    <3>1. history' \in Seq(B) /\ Len(history') = Len(history) + 1
      BY <2>0, <2>1
    <3> QED
      BY <1>3, <2>0, <3>1 DEF B
  <2>2. CASE history' = history
    BY <1>3, <2>0, <2>2
  <2>3. CASE RollbackPointer
    <3>1. history # <<>> /\ history' = SubSeq(history, 1, Len(history) - 1)
      BY <2>3 DEF RollbackPointer
    <3> HIDE DEF B
    <3>2. Len(history) >= 1
      BY <2>0, <3>1, EmptySeq
    <3>3. Len(history) - 1 \in Int /\ \A i \in 1..(Len(history) - 1) : history[i] \in B
      BY <2>0
    <3>4. history' \in Seq(B) /\ Len(history') = Len(history) - 1
      <4> DEFINE n == Len(history) - 1
      <4>1. n \in Int /\ 1 \in Int /\ n >= 0 /\ history' = SubSeq(history, 1, n)
        BY <2>0, <3>1, <3>2
      <4>2. \A i \in 1..n : history[i] \in B
        BY <3>3
      <4> HIDE DEF n
      <4>3. /\ SubSeq(history, 1, n) \in Seq(B)
            /\ Len(SubSeq(history, 1, n)) = IF 1 <= n THEN n - 1 + 1 ELSE 0
        BY <4>1, <4>2, SubSeqProperties
      <4>4. (IF 1 <= n THEN n - 1 + 1 ELSE 0) = n
        BY <4>1
      <4> QED
        BY <4>1, <4>3, <4>4 DEF n
    <3> QED
      BY <1>3, <2>0, <3>4 DEF B
  <2> QED
    BY <2>1, <2>2, <2>3 DEF PointerStep, Promote, UpgradeShippedBaseline
<1>5. quarantined' \subseteq Rollouts \cup Baselines
  BY <1>0 DEF FilesTyped, PointerStep, Promote, UpgradeShippedBaseline, RollbackPointer, effects
<1>6. FilesTyped'
  BY <1>0, <1>1, <1>3, <1>4, <1>5 DEF FilesTyped, rollouts, indexes
<1>7. ProgramsTyped'
  BY <1>0, <1>1, <1>3 DEF ProgramsTyped, runs
<1> QED
  BY <1>6, <1>7, TypeParts, PTL

LEMMA RolloutStepTyped ==
  ASSUME TypeOK, RolloutStep
  PROVE  TypeOK'
<1>0. FilesTyped /\ ProgramsTyped
  BY TypeParts
<1>1. UNCHANGED <<pointers, effects, runs, backlog, loop, req>>
  BY DEF RolloutStep, Advance, AdvanceViolating, Fail, Activate, OperatorBreaksOff
<1>2. state' \in [Rollouts -> States]
  <2>1. PICK r \in Rollouts, s \in States : state' = state \/ state' = [state EXCEPT ![r] = s]
    <3>1. "rejected" \in States /\ "rolled_back" \in States
      BY StatesAre
    <3>2. ASSUME NEW r \in Rollouts, Advance(r)
          PROVE  \E s \in States : state' = [state EXCEPT ![r] = s]
      BY <3>2, StatesAre DEF Advance
    <3>3. ASSUME NEW r \in Rollouts, AdvanceViolating(r) \/ Fail(r) \/ Activate(r)
          PROVE  \E s \in States : state' = state \/ state' = [state EXCEPT ![r] = s]
      BY <3>1, <3>3 DEF AdvanceViolating, Fail, Activate, rollouts
    <3>4. OperatorBreaksOff => state' = state /\ Rollouts # {}
      BY DEF OperatorBreaksOff
    <3> QED
      BY <3>1, <3>2, <3>3, <3>4 DEF RolloutStep
  <2> QED
    BY <1>0, <2>1 DEF FilesTyped
<1>3. acks' \in [Rollouts -> 0..3] /\ wedged' \subseteq Rollouts /\ indexWedged' \in BOOLEAN
  BY <1>0 DEF FilesTyped, RolloutStep, Advance, AdvanceViolating, Fail, Activate,
     OperatorBreaksOff, rollouts, indexes
<1>4. bind' \in [Rollouts -> 0..pointer.gen] /\ index' \in Rollouts \cup {None}
      /\ (index' # None => bind'[index'] > 0)
  <2>1. pointer.gen \in 0..pointer.gen /\ pointer.gen > 0
    BY <1>0, Bounds DEF FilesTyped
  <2>2. CASE UNCHANGED <<bind, index>>
    BY <1>0, <2>2 DEF FilesTyped
  <2>3. ASSUME NEW r \in Rollouts, bind' = [bind EXCEPT ![r] = pointer.gen], index' \in {r, index}
        PROVE  /\ bind' \in [Rollouts -> 0..pointer.gen] /\ index' \in Rollouts \cup {None}
               /\ (index' # None => bind'[index'] > 0)
    BY <1>0, <2>1, <2>3, DistinctNames DEF FilesTyped
  <2>4. UNCHANGED <<bind, index>> \/ \E r \in Rollouts : bind' = [bind EXCEPT ![r] = pointer.gen]
                                                      /\ index' \in {r, index}
    BY DEF RolloutStep, Advance, AdvanceViolating, Fail, Activate, OperatorBreaksOff, indexes
  <2> QED
    BY <2>2, <2>3, <2>4
<1>5. job' \in [Workers -> JobTypes]
  <2>1. CASE job' = job
    BY <1>0, <2>1 DEF ProgramsTyped
  <2>2. ASSUME NEW r \in Rollouts, job' = [job EXCEPT ![Operator].pc = "rollback", ![Operator].r = r]
        PROVE  job' \in [Workers -> JobTypes]
    <3>1. [job[Operator] EXCEPT !.pc = "rollback", !.r = r] \in JobTypes
      BY <1>0 DEF ProgramsTyped, JobTypes, Workers, Recovery
    <3>2. job' = [job EXCEPT ![Operator] = [job[Operator] EXCEPT !.pc = "rollback", !.r = r]]
      BY <1>0, <2>2 DEF ProgramsTyped, Workers, JobTypes
    <3> QED
      BY <1>0, <3>1, <3>2 DEF ProgramsTyped, Workers
  <2> QED
    BY <2>1, <2>2 DEF RolloutStep, Advance, AdvanceViolating, Fail, Activate, OperatorBreaksOff
<1>6. faults' \in 0..MaxFaults
  BY <1>0, Bounds DEF ProgramsTyped, RolloutStep, Advance, AdvanceViolating, Fail, Activate,
     OperatorBreaksOff
<1>7. FilesTyped'
  BY <1>0, <1>1, <1>2, <1>3, <1>4 DEF FilesTyped, pointers, effects
<1>8. ProgramsTyped'
  BY <1>0, <1>1, <1>5, <1>6 DEF ProgramsTyped, runs, pointers
<1> QED
  BY <1>7, <1>8, TypeParts, PTL

\* A stage is a point of the recovery.
LEMMA StageTyped ==
  /\ Stage(0) = "rollback" /\ Stage(1) = "quarantine" /\ Stage(2) = "capsule"
  /\ <<"marking1", "marking2", "marking3">>[1] = "marking1"
  /\ <<"marking1", "marking2", "marking3">>[2] = "marking2"
  /\ <<"marking1", "marking2", "marking3">>[3] = "marking3"
BY DEF Stage

\* The index is kept or freed.
IndexFrees == index' \in {index, None}

LEMMA LoopStepTyped ==
  ASSUME TypeOK, JobInv, NEW p \in Procs, LoopStep(p)
  PROVE  TypeOK'
<1>0. FilesTyped /\ ProgramsTyped /\ p \in Workers /\ job[p] \in JobTypes
  BY TypeParts DEF Workers, ProgramsTyped
<1>1. UNCHANGED <<pointers, acks, wedged, bind, indexWedged, effects, req, faults>>
  BY DEF LoopStep, Start, List, ReleaseIndex, Process, LoopEnds, Ingest, RecordApplication,
     rollouts, indexes
<1>2. IndexFrees
  BY DEF LoopStep, Start, List, ReleaseIndex, Process, LoopEnds, Ingest, RecordApplication,
     indexes, IndexFrees, ReadActive
<1>3. state' = state \/ state' = [state EXCEPT ![job[p].r] = "rolled_back"]
  BY DEF LoopStep, Start, List, ReleaseIndex, Process, LoopEnds, Ingest, RecordApplication, rollouts
<1>4. backlog' \subseteq backlog
  BY DEF LoopStep, Start, List, ReleaseIndex, Process, LoopEnds, Ingest, RecordApplication, Applied
<1>5. FilesTyped'
  BY <1>0, <1>1, <1>2, <1>3, <1>4, StatesAre DEF FilesTyped, pointers, effects, IndexFrees
<1>6. /\ up' \in [Procs -> {"down", "starting", "serving"}]
      /\ pin' \in [Procs -> 0..pointer.gen] /\ loop' \in Procs \cup {None}
  <2>1. pointer.gen \in 0..pointer.gen
    BY <1>0, Bounds DEF FilesTyped
  <2>2. CASE Leave(p)
    BY <1>0, <2>2, LeaveTyped DEF ProgramsTyped
  <2>3. CASE UNCHANGED <<loop, runs>>
    BY <1>0, <2>3 DEF ProgramsTyped, runs
  <2>4. CASE Start(p)
    BY <1>0, <2>1, <2>4 DEF ProgramsTyped, Start
  <2>5. CASE LoopEnds(p)
    BY <1>0, <2>5 DEF ProgramsTyped, LoopEnds
  <2> QED
    BY <2>2, <2>3, <2>4, <2>5
       DEF LoopStep, List, ReleaseIndex, Process, Ingest, RecordApplication
<1>7. job' \in [Workers -> JobTypes]
  <2>1. CASE Leave(p)
    BY <1>0, <2>1, JobTyped
  <2>2. ASSUME NEW rec \in Records \cup {NoRecord}, Applied(p, rec) PROVE job' \in [Workers -> JobTypes]
    <3>1. [NoJob EXCEPT !.pc = "next", !.todo = job[p].todo \ {rec}] \in JobTypes
      BY <1>0 DEF JobTypes, NoJob
    <3> QED
      BY <1>0, <2>2, <3>1, JobTyped DEF Applied
  <2>3. CASE Start(p)
    <3>1. [NoJob EXCEPT !.pc = "list"] \in JobTypes
      BY DEF JobTypes, NoJob
    <3> QED
      BY <1>0, <2>3, <3>1, JobTyped DEF Start
  <2>4. CASE List(p)
    <3>1. [job[p] EXCEPT !.pc = "next", !.todo = backlog] \in JobTypes
      BY <1>0 DEF JobTypes, FilesTyped
    <3>2. index' \in Rollouts \cup {None}
      BY <1>0, <1>2 DEF FilesTyped, IndexFrees
    <3>3. ASSUME index' # None
          PROVE  [job[p] EXCEPT !.r = index', !.pc =
                    IF state[index'] = "rolled_back" /\ acks[index'] < 3
                    THEN Stage(acks[index']) ELSE "release"] \in JobTypes
      <4>1. acks[index'] \in 0..3
        BY <1>0, <3>2, <3>3 DEF FilesTyped
      <4>2. acks[index'] < 3 => Stage(acks[index']) \in Recovery
        BY <4>1, StageTyped DEF Recovery
      <4> QED
        BY <1>0, <3>2, <4>2 DEF JobTypes
    <3> QED
      BY <1>0, <2>1, <2>4, <3>1, <3>3, JobTyped DEF List
  <2>5. CASE ReleaseIndex(p)
    <3>1. [NoJob EXCEPT !.pc = "next", !.todo = backlog] \in JobTypes
      BY <1>0 DEF JobTypes, FilesTyped, NoJob
    <3> QED
      BY <1>0, <2>1, <2>5, <3>1, JobTyped DEF ReleaseIndex
  <2>6. CASE Process(p)
    <3>1. PICK rec \in job[p].todo :
            IF state[rec.r] \notin Live THEN Applied(p, rec)
            ELSE Job(p, [job[p] EXCEPT !.pc = "ingest", !.r = rec.r, !.rec = rec, !.seen = state[rec.r]])
      BY <2>6 DEF Process
    <3>2. rec \in Records /\ rec.r \in Rollouts
      BY <1>0 DEF JobTypes, Records
    <3>3. ASSUME state[rec.r] \in Live
          PROVE  [job[p] EXCEPT !.pc = "ingest", !.r = rec.r, !.rec = rec, !.seen = state[rec.r]] \in JobTypes
      BY <1>0, <3>2, <3>3 DEF JobTypes
    <3> QED
      BY <1>0, <2>2, <3>1, <3>2, <3>3, JobTyped
  <2>7. CASE LoopEnds(p)
    BY <1>0, <2>7, JobTyped DEF LoopEnds
  <2>8. CASE Ingest(p)
    <3>1. job[p].rec \in Records \cup {NoRecord}
      BY <1>0 DEF JobTypes
    <3>2. Goto(p, "rollback") => job' \in [Workers -> JobTypes]
      BY <1>0, JobTyped DEF Recovery
    <3> QED
      BY <2>1, <2>2, <2>8, <3>1, <3>2 DEF Ingest
  <2>9. CASE RecordApplication(p)
    BY <1>0, <2>2, <2>9 DEF RecordApplication, JobTypes
  <2> QED
    BY <2>3, <2>4, <2>5, <2>6, <2>7, <2>8, <2>9 DEF LoopStep
<1>8. ProgramsTyped'
  BY <1>0, <1>1, <1>6, <1>7 DEF ProgramsTyped, pointers
<1> QED
  BY <1>5, <1>8, TypeParts, PTL

LEMMA RecoverTyped ==
  ASSUME TypeOK, JobInv, NEW p \in Workers, Recover(p)
  PROVE  TypeOK'
<1> DEFINE r == job[p].r
<1>0. FilesTyped /\ ProgramsTyped /\ job[p] \in JobTypes
  BY TypeParts DEF ProgramsTyped
<1>1. UNCHANGED <<pointers, state, wedged, indexes, backlog, req, faults>>
  BY DEF Recover, RollbackTraffic, NoteRollback, CheckQuarantine, WriteQuarantine, NoteQuarantine,
     EmitCapsule, Mark, rollouts
<1>2. quarantined' \subseteq quarantined \cup {r} /\ r \in Rollouts
  <2>1. \A k \in 1..3 : <<"marking1", "marking2", "marking3">>[k] \in Recovery
    BY StageTyped DEF Recovery
  <2>2. job[p].pc \in Recovery
    BY <2>1 DEF Recover, RollbackTraffic, NoteRollback, CheckQuarantine, WriteQuarantine, NoteQuarantine,
     EmitCapsule, Mark, Recovery
  <2> QED
    BY <2>2 DEF JobInv, JobOk, Recover, RollbackTraffic, NoteRollback, CheckQuarantine, WriteQuarantine,
     NoteQuarantine, EmitCapsule, Mark, effects
<1>3. ledger' \in [Rollouts -> SUBSET Effects]
  <2>1. \/ ledger' = ledger
        \/ \E e \in Effects : ledger' = [ledger EXCEPT ![r] = @ \cup {e}]
    BY DEF Recover, RollbackTraffic, NoteRollback, CheckQuarantine, WriteQuarantine, NoteQuarantine,
     EmitCapsule, Mark, effects, Effects
  <2> QED
    BY <1>0, <1>2, <2>1 DEF FilesTyped
<1>4. acks' \in [Rollouts -> 0..3]
  <2>1. \/ acks' = acks
        \/ \E k \in 1..3 : acks' = [acks EXCEPT ![r] = IF acks[r] < k THEN k ELSE acks[r]]
    BY DEF Recover, RollbackTraffic, NoteRollback, CheckQuarantine, WriteQuarantine, NoteQuarantine,
     EmitCapsule, Mark, rollouts
  <2> QED
    BY <1>0, <1>2, <2>1 DEF FilesTyped
<1>5. FilesTyped'
  BY <1>0, <1>1, <1>2, <1>3, <1>4 DEF FilesTyped, pointers, indexes
<1>6. Leave(p) \/ (UNCHANGED <<loop, runs>> /\ \E c \in Recovery \cup {"release", "apply"} : Goto(p, c))
      \/ (UNCHANGED <<loop, runs>> /\ Job(p, NoJob))
  <2>1. CASE RollbackTraffic(p) \/ NoteRollback(p) \/ CheckQuarantine(p) \/ WriteQuarantine(p)
             \/ NoteQuarantine(p) \/ EmitCapsule(p)
    BY <2>1 DEF RollbackTraffic, NoteRollback, CheckQuarantine, WriteQuarantine, NoteQuarantine,
       EmitCapsule, Recovery
  <2>2. ASSUME NEW k \in 1..3, Mark(p, k), ~Leave(p)
        PROVE  UNCHANGED <<loop, runs>> /\ (Job(p, NoJob) \/ \E c \in Recovery \cup {"release", "apply"} : Goto(p, c))
    <3> DEFINE latest == IF acks[r] < k THEN k ELSE acks[r]
    <3>1. latest \in 1..3
      BY <1>0, <1>2 DEF FilesTyped
    <3>2. /\ UNCHANGED <<loop, runs>>
          /\ IF latest = 3 THEN Recovered(p) ELSE Goto(p, Stage(latest))
      BY <2>2 DEF Mark
    <3>3. latest # 3 => Stage(latest) \in Recovery
      BY <3>1, StageTyped DEF Recovery
    <3> HIDE DEF latest
    <3> QED
      BY <3>2, <3>3 DEF Recovered
  <2> QED
    BY <2>1, <2>2 DEF Recover
<1>7. job' \in [Workers -> JobTypes]
  BY <1>6, JobTyped
<1>8. /\ up' \in [Procs -> {"down", "starting", "serving"}]
      /\ pin' \in [Procs -> 0..pointer.gen] /\ loop' \in Procs \cup {None}
  BY <1>0, <1>6, LeaveTyped DEF ProgramsTyped, runs
<1>9. ProgramsTyped'
  BY <1>0, <1>1, <1>7, <1>8 DEF ProgramsTyped, pointers
<1> QED
  BY <1>5, <1>9, TypeParts, PTL

LEMMA CrashTyped ==
  ASSUME TypeOK, JobInv, NEW p \in Procs, Crash(p)
  PROVE  TypeOK'
<1>0. FilesTyped /\ ProgramsTyped /\ p \in Workers
  BY TypeParts DEF Workers
<1>1. UNCHANGED <<pointers, state, acks, bind, index, effects, pin, backlog>>
  BY DEF Crash
<1>2. wedged' \subseteq Rollouts /\ indexWedged' \in BOOLEAN
  <2>1. job[p].pc \in {"marking1", "marking2", "marking3", "ingest"} => job[p].r \in Rollouts
    BY <1>0 DEF JobInv, JobOk, Recovery
  <2> QED
    BY <1>0, <2>1 DEF Crash, BreaksOff, FilesTyped
<1>3. FilesTyped'
  BY <1>0, <1>1, <1>2 DEF FilesTyped, pointers, effects
<1>4. job' \in [Workers -> JobTypes]
  BY <1>0, JobTyped DEF Crash
<1>5. req' \in [Requests -> ReqTypes]
  <2>1. NoReq \in ReqTypes
    BY DEF NoReq, ReqTypes
  <2> QED
    BY <1>0, <2>1 DEF Crash, ProgramsTyped
<1>6. ProgramsTyped'
  BY <1>0, <1>1, <1>4, <1>5, Bounds DEF ProgramsTyped, Crash, pointers
<1> QED
  BY <1>3, <1>6, TypeParts, PTL

LEMMA RequestStepTyped ==
  ASSUME TypeOK, ReqInv, NEW q \in Requests, RequestStep(q)
  PROVE  TypeOK'
<1>0. FilesTyped /\ ProgramsTyped /\ req[q] \in ReqTypes
  BY TypeParts DEF ProgramsTyped
<1>1. UNCHANGED <<pointers, rollouts, bind, indexWedged, effects, runs, faults>>
  BY DEF RequestStep, Route, Admit, Observe, IngestTelemetry, IngestTimesOut, indexes
<1>2. IndexFrees
  BY DEF RequestStep, Route, Admit, Observe, IngestTelemetry, IngestTimesOut, indexes, ReadActive, IndexFrees
<1>3. backlog' \subseteq Records
  <2>1. CASE Observe(q)
    <3>1. PICK bad \in BOOLEAN : backlog' = backlog \cup {[r |-> req[q].r, bad |-> bad]}
      BY <2>1 DEF Observe
    <3>2. req[q].r \in Rollouts
      BY <2>1 DEF Observe, ReqInv
    <3>3. [r |-> req[q].r, bad |-> bad] \in Records
      BY <3>2 DEF Records
    <3> QED
      BY <1>0, <3>1, <3>3 DEF FilesTyped
  <2>2. CASE backlog' = backlog
    BY <1>0, <2>2 DEF FilesTyped
  <2> QED
    BY <2>1, <2>2 DEF RequestStep, Route, Admit, IngestTelemetry, IngestTimesOut
<1>4. FilesTyped'
  BY <1>0, <1>1, <1>2, <1>3 DEF FilesTyped, pointers, rollouts, effects, IndexFrees
<1>5. req' \in [Requests -> ReqTypes]
  <2>1. NoReq \in ReqTypes
    BY DEF NoReq, ReqTypes
  <2>2. ASSUME NEW p \in Procs, Route(q, p) PROVE req' \in [Requests -> ReqTypes]
    <3>1. index' \in Rollouts \cup {None}
      BY <1>0, <1>2 DEF FilesTyped, IndexFrees
    <3>2. ASSUME index' # None, state[index'] \in Live
          PROVE  [pc |-> "read", p |-> p, r |-> index', mode |-> state[index']] \in ReqTypes
      BY <3>1, <3>2 DEF ReqTypes
    <3>3. \/ Set(q, [pc |-> "read", p |-> p, r |-> index', mode |-> state[index']])
             /\ index' # None /\ state[index'] \in Live
          \/ req' = req
      BY <2>2 DEF Route, Set, ReadActive
    <3> QED
      BY <1>0, <3>2, <3>3, ReqTyped DEF ProgramsTyped
  <2>3. CASE Admit(q)
    BY <2>1, <2>3, ReqTyped DEF Admit
  <2>4. CASE Observe(q)
    BY <2>4, ReqTyped DEF Observe
  <2>5. CASE IngestTelemetry(q) \/ IngestTimesOut(q)
    BY <2>1, <2>5, ReqTyped DEF IngestTelemetry, IngestTimesOut
  <2> QED
    BY <2>2, <2>3, <2>4, <2>5 DEF RequestStep
<1>6. job' \in [Workers -> JobTypes] /\ loop' \in Procs \cup {None}
  <2>1. CASE UNCHANGED <<loop, job>>
    BY <1>0, <2>1 DEF ProgramsTyped
  <2>2. CASE IngestTelemetry(q)
    <3>1. req[q].p \in Procs /\ req[q].p \in Workers
      BY <2>2 DEF ReqInv, IngestTelemetry, Workers
    <3>2. [NoJob EXCEPT !.pc = "next", !.todo = {[r |-> req[q].r, bad |-> req[q].pc = "failing"]} \cap backlog]
            \in JobTypes
      BY <1>0 DEF JobTypes, NoJob, FilesTyped
    <3>3. Job(req[q].p, [NoJob EXCEPT !.pc = "next", !.todo =
                          {[r |-> req[q].r, bad |-> req[q].pc = "failing"]} \cap backlog])
          /\ loop' = req[q].p
      BY <2>2 DEF IngestTelemetry
    <3> QED
      BY <3>1, <3>2, <3>3, JobTyped
  <2> QED
    BY <2>1, <2>2 DEF RequestStep, Route, Admit, Observe, IngestTimesOut
<1>7. ProgramsTyped'
  BY <1>0, <1>1, <1>5, <1>6 DEF ProgramsTyped, runs, pointers
<1> QED
  BY <1>4, <1>7, TypeParts, PTL

-----------------------------------------------------------------------------
(* What lasts. *)

\* A rollout that is over stays so, what has been acknowledged, noted or
\* quarantined stays so.
Lasts ==
  /\ \A r \in Rollouts : /\ state[r] \in Over => state'[r] = state[r]
                         /\ acks[r] <= acks'[r]
                         /\ ledger[r] \subseteq ledger'[r]
  /\ quarantined \subseteq quarantined'
  /\ indexWedged => indexWedged'

LEMMA StepLasts ==
  ASSUME TypeOK, JobInv, Next
  PROVE  Lasts
<1>0. FilesTyped /\ (\A r \in Rollouts : acks[r] \in Nat)
  BY TypeParts DEF FilesTyped
<1>1. CASE PointerStep
  <2>1. UNCHANGED <<state, acks, ledger, indexWedged>> /\ quarantined \subseteq quarantined'
    BY <1>1 DEF PointerStep, Promote, UpgradeShippedBaseline, RollbackPointer, rollouts, effects, indexes
  <2> QED
    BY <1>0, <2>1 DEF Lasts
<1>2. CASE RolloutStep
  <2>1. UNCHANGED <<acks, ledger, quarantined>> /\ (indexWedged => indexWedged')
    BY <1>2 DEF RolloutStep, Advance, AdvanceViolating, Fail, Activate, OperatorBreaksOff, effects,
       rollouts, indexes
  <2>2. \A r \in Rollouts : state[r] \in Over => state'[r] = state[r]
    <3>1. state' = state \/ \E r \in Rollouts, s \in States : state[r] \notin Over /\ state' = [state EXCEPT ![r] = s]
      <4>1. ASSUME NEW r \in Rollouts, Advance(r)
            PROVE  \E s \in States : state[r] \notin Over /\ state' = [state EXCEPT ![r] = s]
        BY <4>1, StatesAre DEF Advance
      <4>2. "rejected" \in States /\ "rolled_back" \in States /\ "draft" \notin Over
        BY StatesAre DEF Over
      <4>3. ASSUME NEW r \in Rollouts, AdvanceViolating(r) \/ Fail(r)
            PROVE  \E s \in States : state[r] \notin Over /\ state' = [state EXCEPT ![r] = s]
        BY <4>2, <4>3, StatesAre DEF AdvanceViolating, Fail
      <4> QED
        BY <1>2, <4>1, <4>3 DEF RolloutStep, Activate, OperatorBreaksOff, rollouts
    <3> QED
      BY <1>0, <3>1 DEF FilesTyped
  <2> QED
    BY <1>0, <2>1, <2>2 DEF Lasts
<1>3. ASSUME NEW p \in Procs, LoopStep(p) PROVE Lasts
  <2>1. UNCHANGED <<acks, ledger, quarantined, indexWedged>>
    BY <1>3 DEF LoopStep, Start, List, ReleaseIndex, Process, LoopEnds, Ingest, RecordApplication,
       rollouts, indexes, effects
  <2>2. state' = state \/ (Ingest(p) /\ state' = [state EXCEPT ![job[p].r] = "rolled_back"]
                          /\ state[job[p].r] = job[p].seen)
    BY <1>3 DEF LoopStep, Start, List, ReleaseIndex, Process, LoopEnds, Ingest, RecordApplication,
       rollouts
  <2>3. Ingest(p) => job[p].seen \in Live /\ job[p].r \in Rollouts
    BY DEF JobInv, JobOk, Workers, Ingest
  <2>4. \A r \in Rollouts : state[r] \in Over => state'[r] = state[r]
    <3>1. CASE state' = state
      BY <3>1
    <3>2. CASE Ingest(p) /\ state' = [state EXCEPT ![job[p].r] = "rolled_back"]
      <4>1. state[job[p].r] \notin Over \/ state' = state
        BY <2>2, <2>3, StatesAre
      <4> QED
        BY <1>0, <3>2, <4>1 DEF FilesTyped
    <3> QED
      BY <2>2, <3>1, <3>2
  <2> QED
    BY <1>0, <2>1, <2>4 DEF Lasts
<1>4. ASSUME NEW p \in Procs, Crash(p) PROVE Lasts
  BY <1>0, <1>4 DEF Crash, BreaksOff, Lasts, effects
<1>5. ASSUME NEW p \in Workers, Recover(p) PROVE Lasts
  <2> DEFINE r == job[p].r
  <2>1. UNCHANGED <<state, indexWedged>> /\ quarantined \subseteq quarantined'
    BY <1>5 DEF Recover, RollbackTraffic, NoteRollback, CheckQuarantine, WriteQuarantine,
       NoteQuarantine, EmitCapsule, Mark, rollouts, indexes, effects
  <2>2. ledger' = ledger \/ \E e \in Effects : ledger' = [ledger EXCEPT ![r] = @ \cup {e}]
    BY <1>5 DEF Recover, RollbackTraffic, NoteRollback, CheckQuarantine, WriteQuarantine,
       NoteQuarantine, EmitCapsule, Mark, effects, Effects
  <2>3. \/ acks' = acks
        \/ \E k \in 1..3 : acks' = [acks EXCEPT ![r] = IF acks[r] < k THEN k ELSE acks[r]]
    BY <1>5 DEF Recover, RollbackTraffic, NoteRollback, CheckQuarantine, WriteQuarantine,
       NoteQuarantine, EmitCapsule, Mark, rollouts
  <2>4. \A s \in Rollouts : ledger[s] \subseteq ledger'[s]
    BY <1>0, <2>2 DEF FilesTyped
  <2>5. \A s \in Rollouts : acks[s] <= acks'[s]
    BY <1>0, <2>3 DEF FilesTyped
  <2> QED
    BY <2>1, <2>4, <2>5 DEF Lasts
<1>6. ASSUME NEW q \in Requests, RequestStep(q) PROVE Lasts
  <2>1. UNCHANGED <<state, acks, ledger, indexWedged, quarantined>>
    BY <1>6 DEF RequestStep, Route, Admit, Observe, IngestTelemetry, IngestTimesOut, rollouts,
       effects, indexes
  <2> QED
    BY <1>0, <2>1 DEF Lasts
<1> QED
  BY <1>1, <1>2, <1>3, <1>4, <1>5, <1>6, NextCases

\* A job that is not touched is as good as before.
LEMMA JobStays ==
  ASSUME TypeOK, TypeOK', Lasts, NEW p \in Workers, JobOk(p), job'[p] = job[p]
  PROVE  JobOk(p)'
<1>1. \A r \in Rollouts : acks[r] \in Nat /\ acks'[r] \in Nat
  <2>1. FilesTyped /\ FilesTyped'
    BY TypeParts, PTL
  <2>2. acks \in [Rollouts -> 0..3] /\ acks' \in [Rollouts -> 0..3]
    BY <2>1, Zenon DEF FilesTyped
  <2> QED
    BY <2>2
<1>2. "rolled_back" \in Over
  BY DEF Over
<1>3. CASE job[p].pc \notin Recovery
  BY <1>3 DEF JobOk, Recovery
<1>4. CASE job[p].pc \in Recovery
  <2> DEFINE r == job[p].r
  <2>1. r \in Rollouts /\ state'[r] = "rolled_back"
    BY <1>2, <1>4 DEF JobOk, Lasts
  <2>2. acks[r] \in Nat /\ acks'[r] \in Nat /\ acks[r] <= acks'[r] /\ ledger[r] \subseteq ledger'[r]
        /\ quarantined \subseteq quarantined'
    BY <1>1, <2>1 DEF Lasts
  <2>3. job'[p].pc # "ingest"
    BY <1>4 DEF Recovery
  <2> QED
    BY <2>1, <2>2, <2>3 DEF JobOk
<1> QED
  BY <1>3, <1>4

\* A job away from the recovery, the index and the ingestion asks for nothing.
LEMMA JobAway ==
  ASSUME NEW p, job'[p].pc \in {"none", "list", "next", "apply"}
  PROVE  JobOk(p)'
BY DEF JobOk, Recovery

\* Only one worker's job changes, and that one is good again.
LEMMA OneJob ==
  ASSUME TypeOK, TypeOK', Lasts, JobInv, NEW p \in Workers, JobOk(p)',
         \A q \in Workers \ {p} : job'[q] = job[q]
  PROVE  JobInv'
<1>1. ASSUME NEW q \in Workers PROVE JobOk(q)'
  <2>1. CASE q = p
    BY <2>1
  <2>2. CASE q # p
    <3>1. JobOk(q) /\ job'[q] = job[q]
      BY <2>2 DEF JobInv
    <3> QED
      BY <3>1, JobStays
  <2> QED
    BY <2>1, <2>2
<1> QED
  BY <1>1 DEF JobInv

\* While no job changes, all stay good.
LEMMA SameJobs ==
  ASSUME TypeOK, TypeOK', Lasts, JobInv, job' = job
  PROVE  JobInv'
BY JobStays DEF JobInv

\* A throw ends the job.
LEMMA LeaveEndsJob ==
  ASSUME TypeOK, NEW p \in Workers, Leave(p) \/ Job(p, NoJob)
  PROVE  JobOk(p)' /\ \A q \in Workers \ {p} : job'[q] = job[q]
<1>1. job \in [Workers -> JobTypes] /\ job' = [job EXCEPT ![p] = NoJob]
  BY JobTyped DEF Leave, Job
<1>2. job'[p] = NoJob /\ \A q \in Workers \ {p} : job'[q] = job[q]
  BY <1>1
<1>3. job'[p].pc = "none"
  BY <1>2 DEF NoJob
<1> QED
  BY <1>2, <1>3, JobAway

LEMMA LoopStepJob ==
  ASSUME TypeOK, TypeOK', Lasts, JobInv, NEW p \in Procs, LoopStep(p)
  PROVE  JobInv'
<1>0. FilesTyped /\ p \in Workers /\ job \in [Workers -> JobTypes] /\ JobOk(p) /\ job[p] \in JobTypes
  BY TypeParts DEF ProgramsTyped, Workers, JobInv
<1>1. ASSUME NEW j, Job(p, j), j.pc \in {"none", "list", "next", "apply"} PROVE JobInv'
  <2>1. job' = [job EXCEPT ![p] = j]
    BY <1>1 DEF Job
  <2>2. job'[p] = j /\ \A q \in Workers \ {p} : job'[q] = job[q]
    BY <1>0, <2>1
  <2>3. JobOk(p)'
    BY <1>1, <2>2, JobAway
  <2> QED
    BY <1>0, <2>2, <2>3, OneJob
<1>2. CASE Leave(p)
  BY <1>0, <1>2, LeaveEndsJob, OneJob
<1>3. CASE Start(p)
  <2>1. [NoJob EXCEPT !.pc = "list"].pc = "list"
    BY DEF NoJob
  <2> QED
    BY <1>1, <1>3, <2>1 DEF Start
<1>4. CASE List(p)
  <2>1. index' \in Rollouts \cup {None}
    BY <1>0, <1>4 DEF FilesTyped, List, ReadActive
  <2>2. [job[p] EXCEPT !.pc = "next", !.todo = backlog].pc = "next"
    BY <1>0 DEF JobTypes
  <2>3. ASSUME index' # None,
               Job(p, [job[p] EXCEPT !.r = index', !.pc =
                    IF state[index'] = "rolled_back" /\ acks[index'] < 3
                    THEN Stage(acks[index']) ELSE "release"])
        PROVE  JobInv'
    <3> DEFINE s == IF state[index'] = "rolled_back" /\ acks[index'] < 3
                    THEN Stage(acks[index']) ELSE "release"
    <3>1. job' = [job EXCEPT ![p] = [job[p] EXCEPT !.r = index', !.pc = s]]
      BY <2>3 DEF Job
    <3>2. job'[p].pc = s /\ job'[p].r = index' /\ \A q \in Workers \ {p} : job'[q] = job[q]
      BY <1>0, <3>1 DEF JobTypes
    <3>3. UNCHANGED <<state, acks, ledger, quarantined>>
      BY <1>4 DEF List, rollouts, effects
    <3>4. index' \in Rollouts /\ acks[index'] \in 0..3
      BY <1>0, <2>1, <2>3 DEF FilesTyped
    <3>5. CASE state[index'] = "rolled_back" /\ acks[index'] < 3
      <4>1. job'[p].pc = Stage(acks[index'])
        BY <3>2, <3>5
      <4>2. \/ job'[p].pc = "rollback" /\ acks[index'] = 0
            \/ job'[p].pc = "quarantine" /\ acks[index'] = 1
            \/ job'[p].pc = "capsule" /\ acks[index'] = 2
        BY <3>4, <3>5, <4>1, StageTyped
      <4>3. JobOk(p)'
        BY <3>2, <3>3, <3>4, <3>5, <4>2 DEF JobOk
      <4> QED
        BY <1>0, <3>2, <4>3, OneJob
    <3>6. CASE ~(state[index'] = "rolled_back" /\ acks[index'] < 3)
      <4>1. job'[p].pc = "release"
        BY <3>2, <3>6
      <4>2. JobOk(p)'
        BY <3>2, <3>4, <4>1 DEF JobOk, Recovery
      <4> QED
        BY <1>0, <3>2, <4>2, OneJob
    <3> QED
      BY <3>5, <3>6
  <2> QED
    BY <1>1, <1>2, <1>4, <2>2, <2>3 DEF List
<1>5. ASSUME NEW rec, Applied(p, rec) PROVE JobInv'
  <2>1. [NoJob EXCEPT !.pc = "next", !.todo = job[p].todo \ {rec}].pc = "next"
    BY DEF NoJob
  <2> QED
    BY <1>1, <1>5, <2>1 DEF Applied
<1>6. CASE ReleaseIndex(p)
  <2>1. [NoJob EXCEPT !.pc = "next", !.todo = backlog].pc = "next"
    BY DEF NoJob
  <2> QED
    BY <1>1, <1>2, <1>6, <2>1 DEF ReleaseIndex
<1>7. CASE Process(p)
  <2>1. PICK rec \in job[p].todo :
          IF state[rec.r] \notin Live THEN Applied(p, rec)
          ELSE Job(p, [job[p] EXCEPT !.pc = "ingest", !.r = rec.r, !.rec = rec, !.seen = state[rec.r]])
    BY <1>7 DEF Process
  <2>2. rec \in Records /\ rec.r \in Rollouts
    BY <1>0 DEF JobTypes, Records
  <2>3. CASE state[rec.r] \in Live
    <3>1. job' = [job EXCEPT ![p] = [job[p] EXCEPT !.pc = "ingest", !.r = rec.r, !.rec = rec, !.seen = state[rec.r]]]
      BY <2>1, <2>3 DEF Job
    <3>2. /\ job'[p].pc = "ingest" /\ job'[p].r = rec.r /\ job'[p].seen = state[rec.r]
          /\ \A q \in Workers \ {p} : job'[q] = job[q]
      BY <1>0, <3>1 DEF JobTypes
    <3>3. JobOk(p)'
      BY <2>2, <2>3, <3>2 DEF JobOk, Recovery
    <3> QED
      BY <1>0, <3>2, <3>3, OneJob
  <2> QED
    BY <1>5, <2>1, <2>3
<1>8. CASE LoopEnds(p)
  <2>1. NoJob.pc = "none"
    BY DEF NoJob
  <2> QED
    BY <1>1, <1>8, <2>1 DEF LoopEnds
<1>9. CASE Ingest(p)
  <2>1. CASE Goto(p, "rollback") /\ state' = [state EXCEPT ![job[p].r] = "rolled_back"]
    <3>1. job' = [job EXCEPT ![p] = [job[p] EXCEPT !.pc = "rollback"]]
      BY <2>1 DEF Goto
    <3>2. /\ job'[p].pc = "rollback" /\ job'[p].r = job[p].r
          /\ \A q \in Workers \ {p} : job'[q] = job[q]
      BY <1>0, <3>1 DEF JobTypes
    <3>3. job[p].r \in Rollouts
      BY <1>0, <1>9 DEF JobOk, Ingest
    <3>4. state'[job[p].r] = "rolled_back"
      BY <1>0, <2>1, <3>3 DEF FilesTyped
    <3>5. JobOk(p)'
      BY <3>2, <3>3, <3>4 DEF JobOk
    <3> QED
      BY <1>0, <3>2, <3>5, OneJob
  <2> QED
    BY <1>2, <1>5, <1>9, <2>1 DEF Ingest
<1>10. CASE RecordApplication(p)
  BY <1>5, <1>10 DEF RecordApplication
<1> QED
  BY <1>3, <1>4, <1>6, <1>7, <1>8, <1>9, <1>10 DEF LoopStep

\* A worker moves to another point of the recovery of the same rollout.
LEMMA GotoOther ==
  ASSUME TypeOK, NEW p \in Workers, NEW c, Goto(p, c)
  PROVE  job'[p].pc = c /\ job'[p].r = job[p].r /\ \A q \in Workers \ {p} : job'[q] = job[q]
<1>1. job \in [Workers -> JobTypes] /\ job[p] \in JobTypes
  BY JobTyped
<1>2. job' = [job EXCEPT ![p] = [job[p] EXCEPT !.pc = c]]
  BY DEF Goto
<1> QED
  BY <1>1, <1>2 DEF JobTypes

\* Each step of a recovery finds what the next one needs, and keeps the order of
\* the effects.
LEMMA RecoverKeepsOrder ==
  ASSUME TypeOK, TypeOK', Lasts, JobInv, RecoveryInOrder, NEW p \in Workers, Recover(p)
  PROVE  JobInv' /\ RecoveryInOrder'
<1> DEFINE r == job[p].r
<1>0. FilesTyped /\ JobOk(p)
  BY TypeParts DEF JobInv
<1>1. job[p].pc \in Recovery
  <2>1. \A k \in 1..3 : <<"marking1", "marking2", "marking3">>[k] \in Recovery
    BY StageTyped DEF Recovery
  <2> QED
    BY <2>1 DEF Recover, RollbackTraffic, NoteRollback, CheckQuarantine, WriteQuarantine, NoteQuarantine,
     EmitCapsule, Mark, Recovery
<1>2. r \in Rollouts /\ state[r] = "rolled_back" /\ state' = state
  BY <1>0, <1>1 DEF JobOk, Recover, RollbackTraffic, NoteRollback, CheckQuarantine, WriteQuarantine,
     NoteQuarantine, EmitCapsule, Mark, rollouts
<1>3. Leave(p) \/ Job(p, NoJob) => JobInv'
  BY LeaveEndsJob, OneJob
<1>4. UNCHANGED <<acks, ledger>> => RecoveryInOrder'
  BY <1>2 DEF RecoveryInOrder, Lasts
<1>5. CASE RollbackTraffic(p)
  <2>1. UNCHANGED <<acks, ledger, quarantined>>
    BY <1>5 DEF RollbackTraffic, rollouts, effects
  <2>2. ASSUME Goto(p, IF "rollback" \in ledger[r] THEN "marking1" ELSE "stopping") PROVE JobInv'
    <3>1. /\ job'[p].pc = IF "rollback" \in ledger[r] THEN "marking1" ELSE "stopping"
          /\ job'[p].r = r /\ \A q \in Workers \ {p} : job'[q] = job[q]
      BY <2>2, GotoOther
    <3>2. JobOk(p)'
      BY <1>2, <2>1, <3>1 DEF JobOk
    <3> QED
      BY <3>1, <3>2, OneJob
  <2> QED
    BY <1>3, <1>4, <1>5, <2>1, <2>2 DEF RollbackTraffic
<1>6. CASE NoteRollback(p)
  <2>1. UNCHANGED <<acks, quarantined>>
    BY <1>6 DEF NoteRollback, rollouts
  <2>2. CASE ledger' = [ledger EXCEPT ![r] = @ \cup {"rollback"}] /\ Goto(p, "marking1")
    <3>1. job'[p].pc = "marking1" /\ job'[p].r = r /\ \A q \in Workers \ {p} : job'[q] = job[q]
      BY <2>2, GotoOther
    <3>2. /\ ledger'[r] = ledger[r] \cup {"rollback"}
          /\ \A s \in Rollouts : s # r => ledger'[s] = ledger[s]
      BY <1>0, <1>2, <2>2 DEF FilesTyped
    <3>3. JobOk(p)'
      BY <1>2, <3>1, <3>2 DEF JobOk
    <3>4. RecoveryInOrder'
      BY <1>2, <2>1, <3>2 DEF RecoveryInOrder
    <3> QED
      BY <3>1, <3>3, <3>4, OneJob
  <2>3. CASE Leave(p) /\ ledger' = ledger
    BY <1>3, <1>4, <2>1, <2>3
  <2> QED
    BY <1>6, <2>2, <2>3 DEF NoteRollback
<1>7. CASE CheckQuarantine(p)
  <2>1. UNCHANGED <<acks, ledger, quarantined>> /\ acks[r] >= 1
    BY <1>0, <1>7 DEF CheckQuarantine, rollouts, effects, JobOk
  <2>2. ASSUME NEW c \in {"marking2", "writing"}, Goto(p, c),
               c = "marking2" => "quarantine" \in ledger[r]
        PROVE  JobInv'
    <3>1. job'[p].pc = c /\ job'[p].r = r /\ \A q \in Workers \ {p} : job'[q] = job[q]
      BY <2>2, GotoOther
    <3>2. JobOk(p)'
      BY <1>2, <2>1, <2>2, <3>1 DEF JobOk
    <3> QED
      BY <3>1, <3>2, OneJob
  <2> QED
    BY <1>3, <1>4, <1>7, <2>1, <2>2 DEF CheckQuarantine
<1>8. CASE WriteQuarantine(p)
  <2>1. UNCHANGED <<acks, ledger>> /\ acks[r] >= 1 /\ quarantined' = quarantined \cup {r}
    BY <1>0, <1>8 DEF WriteQuarantine, rollouts, JobOk
  <2>2. job'[p].pc = "noting" /\ job'[p].r = r /\ \A q \in Workers \ {p} : job'[q] = job[q]
    BY <1>8, GotoOther DEF WriteQuarantine
  <2>3. JobOk(p)'
    BY <1>2, <2>1, <2>2 DEF JobOk
  <2> QED
    BY <1>4, <2>1, <2>2, <2>3, OneJob
<1>9. CASE NoteQuarantine(p)
  <2>1. /\ UNCHANGED <<acks, quarantined>> /\ acks[r] >= 1 /\ r \in quarantined
        /\ ledger' = [ledger EXCEPT ![r] = @ \cup {"quarantine"}]
    BY <1>0, <1>9 DEF NoteQuarantine, rollouts, JobOk
  <2>2. job'[p].pc = "marking2" /\ job'[p].r = r /\ \A q \in Workers \ {p} : job'[q] = job[q]
    BY <1>9, GotoOther DEF NoteQuarantine
  <2>3. /\ ledger'[r] = ledger[r] \cup {"quarantine"}
        /\ \A s \in Rollouts : s # r => ledger'[s] = ledger[s]
    BY <1>0, <1>2, <2>1 DEF FilesTyped
  <2>4. JobOk(p)'
    BY <1>2, <2>2, <2>3 DEF JobOk
  <2>5. RecoveryInOrder'
    BY <1>2, <2>1, <2>3 DEF RecoveryInOrder
  <2> QED
    BY <2>2, <2>4, <2>5, OneJob
<1>10. CASE EmitCapsule(p)
  <2>1. /\ UNCHANGED <<acks, quarantined>> /\ acks[r] >= 2
        /\ ledger' = [ledger EXCEPT ![r] = @ \cup {"capsule"}]
    BY <1>0, <1>10 DEF EmitCapsule, rollouts, JobOk
  <2>2. job'[p].pc = "marking3" /\ job'[p].r = r /\ \A q \in Workers \ {p} : job'[q] = job[q]
    BY <1>10, GotoOther DEF EmitCapsule
  <2>3. /\ ledger'[r] = ledger[r] \cup {"capsule"}
        /\ \A s \in Rollouts : s # r => ledger'[s] = ledger[s]
    BY <1>0, <1>2, <2>1 DEF FilesTyped
  <2>4. JobOk(p)'
    BY <1>2, <2>2, <2>3 DEF JobOk
  <2>5. RecoveryInOrder'
    BY <1>2, <2>1, <2>3 DEF RecoveryInOrder
  <2> QED
    BY <2>2, <2>4, <2>5, OneJob
<1>11. ASSUME NEW k \in 1..3, Mark(p, k) PROVE JobInv' /\ RecoveryInOrder'
  <2> DEFINE latest == IF acks[r] < k THEN k ELSE acks[r]
  <2>1. UNCHANGED <<ledger, quarantined>> /\ acks[r] \in 0..3
    BY <1>0, <1>2, <1>11 DEF Mark, effects, FilesTyped
  <2>2. CASE Leave(p) /\ UNCHANGED acks
    BY <1>3, <1>4, <2>1, <2>2
  <2>3. CASE /\ acks' = [acks EXCEPT ![r] = latest]
             /\ IF latest = 3 THEN Recovered(p) ELSE Goto(p, Stage(latest))
    <3>1. latest \in 1..3 /\ latest >= k /\ latest >= acks[r] /\ (latest = k \/ latest = acks[r])
      BY <2>1
    <3>2. acks'[r] = latest /\ \A s \in Rollouts : s # r => acks'[s] = acks[s]
      BY <1>0, <1>2, <2>3 DEF FilesTyped
    <3>3. \/ k = 1 /\ "rollback" \in ledger[r]
          \/ k = 2 /\ "quarantine" \in ledger[r]
          \/ k = 3 /\ "capsule" \in ledger[r]
      BY <1>0, <1>11, StageTyped DEF Mark, JobOk
    <3>4. RecoveryInOrder'
      <4> SUFFICES ASSUME NEW s \in Rollouts
                   PROVE  /\ ledger[s] # {} => state[s] = "rolled_back"
                          /\ acks'[s] >= 1 => "rollback" \in ledger[s]
                          /\ acks'[s] >= 2 => "quarantine" \in ledger[s]
                          /\ acks'[s] = 3 => "capsule" \in ledger[s]
                          /\ "quarantine" \in ledger[s] => s \in quarantined /\ acks'[s] >= 1
                          /\ "capsule" \in ledger[s] => acks'[s] >= 2
        BY <1>2, <2>1 DEF RecoveryInOrder
      <4> HIDE DEF latest
      <4>1. CASE s # r
        BY <3>2, <4>1 DEF RecoveryInOrder
      <4>2. CASE s = r
        BY <2>1, <3>1, <3>2, <3>3, <4>2 DEF RecoveryInOrder
      <4> QED
        BY <4>1, <4>2
    <3>5. JobInv'
      <4> HIDE DEF latest
      <4>1. CASE latest = 3
        <5>1. Job(p, NoJob) \/ \E c \in {"release", "apply"} : Goto(p, c)
          BY <2>3, <4>1 DEF Recovered
        <5>2. ASSUME NEW c \in {"release", "apply"}, Goto(p, c) PROVE JobInv'
          <6>1. job'[p].pc = c /\ job'[p].r = r /\ \A q \in Workers \ {p} : job'[q] = job[q]
            BY <5>2, GotoOther
          <6>2. JobOk(p)'
            BY <1>2, <5>2, <6>1 DEF JobOk, Recovery
          <6> QED
            BY <6>1, <6>2, OneJob
        <5> QED
          BY <1>3, <5>1, <5>2
      <4>2. CASE latest # 3
        <5>1. /\ job'[p].pc = Stage(latest) /\ job'[p].r = r
              /\ \A q \in Workers \ {p} : job'[q] = job[q]
          BY <2>3, <4>2, GotoOther
        <5>2. \/ job'[p].pc = "quarantine" /\ acks'[r] = 1
              \/ job'[p].pc = "capsule" /\ acks'[r] = 2
          BY <3>1, <3>2, <4>2, <5>1, StageTyped
        <5>3. JobOk(p)'
          BY <1>2, <5>1, <5>2 DEF JobOk
        <5> QED
          BY <5>1, <5>3, OneJob
      <4> QED
        BY <4>1, <4>2
    <3> QED
      BY <3>4, <3>5
  <2> QED
    BY <1>11, <2>2, <2>3 DEF Mark
<1> QED
  BY <1>5, <1>6, <1>7, <1>8, <1>9, <1>10, <1>11 DEF Recover

\* The other steps leave the jobs of the others alone, and the effects in order.
LEMMA StepKeepsOrder ==
  ASSUME IInv, TypeOK', Lasts, Next
  PROVE  JobInv' /\ RecoveryInOrder'
<1>0. TypeOK /\ FilesTyped /\ JobInv /\ RecoveryInOrder /\ ReqInv
  BY TypeParts DEF IInv
<1>1. "rolled_back" \in Over
  BY DEF Over
<1>2. ASSUME UNCHANGED <<acks, ledger>> PROVE RecoveryInOrder'
  BY <1>0, <1>1, <1>2 DEF RecoveryInOrder, Lasts
<1>3. CASE PointerStep
  <2>1. UNCHANGED <<acks, ledger, job>>
    BY <1>3 DEF PointerStep, Promote, UpgradeShippedBaseline, RollbackPointer, rollouts, effects
  <2> QED
    BY <1>0, <1>2, <2>1, SameJobs
<1>4. CASE RolloutStep
  <2>1. UNCHANGED <<acks, ledger>>
    BY <1>4 DEF RolloutStep, Advance, AdvanceViolating, Fail, Activate, OperatorBreaksOff, rollouts, effects
  <2>2. CASE job' = job
    BY <1>0, <1>2, <2>1, <2>2, SameJobs
  <2>3. ASSUME NEW r \in Rollouts, AdvanceViolating(r), job' # job PROVE JobInv'
    <3>1. /\ state' = [state EXCEPT ![r] = "rolled_back"]
          /\ job' = [job EXCEPT ![Operator].pc = "rollback", ![Operator].r = r]
      BY <2>3 DEF AdvanceViolating
    <3>2. job \in [Workers -> JobTypes] /\ Operator \in Workers
      BY <1>0, JobTyped DEF Workers
    <3>3. /\ job'[Operator].pc = "rollback" /\ job'[Operator].r = r
          /\ \A q \in Workers \ {Operator} : job'[q] = job[q]
      BY <3>1, <3>2 DEF JobTypes
    <3>4. state'[r] = "rolled_back"
      BY <1>0, <3>1 DEF FilesTyped
    <3>5. JobOk(Operator)'
      BY <3>3, <3>4 DEF JobOk
    <3> QED
      BY <1>0, <3>2, <3>3, <3>5, OneJob
  <2> QED
    BY <1>2, <1>4, <2>1, <2>2, <2>3
       DEF RolloutStep, Advance, Fail, Activate, OperatorBreaksOff
<1>5. ASSUME NEW p \in Procs, LoopStep(p) PROVE JobInv' /\ RecoveryInOrder'
  <2>1. UNCHANGED <<acks, ledger>>
    BY <1>5 DEF LoopStep, Start, List, ReleaseIndex, Process, LoopEnds, Ingest, RecordApplication,
       rollouts, effects
  <2> QED
    BY <1>0, <1>2, <1>5, <2>1, LoopStepJob
<1>6. ASSUME NEW p \in Procs, Crash(p) PROVE JobInv' /\ RecoveryInOrder'
  <2>1. UNCHANGED <<acks, ledger>> /\ Job(p, NoJob) /\ p \in Workers
    BY <1>6 DEF Crash, effects, Workers
  <2> QED
    BY <1>0, <1>2, <2>1, LeaveEndsJob, OneJob
<1>7. ASSUME NEW p \in Workers, Recover(p) PROVE JobInv' /\ RecoveryInOrder'
  BY <1>0, <1>7, RecoverKeepsOrder
<1>8. ASSUME NEW q \in Requests, RequestStep(q) PROVE JobInv' /\ RecoveryInOrder'
  <2>1. UNCHANGED <<acks, ledger>>
    BY <1>8 DEF RequestStep, Route, Admit, Observe, IngestTelemetry, IngestTimesOut, rollouts, effects
  <2>2. CASE job' = job
    BY <1>0, <1>2, <2>1, <2>2, SameJobs
  <2>3. CASE IngestTelemetry(q)
    <3>1. PICK p \in Workers : \E todo : job' = [job EXCEPT ![p] = [NoJob EXCEPT !.pc = "next", !.todo = todo]]
      BY <1>0, <2>3 DEF IngestTelemetry, ReqInv, Workers, Job
    <3>2. PICK j : job' = [job EXCEPT ![p] = j] /\ j.pc = "next" /\ job \in [Workers -> JobTypes]
      BY <1>0, <3>1, JobTyped DEF NoJob
    <3>3. job'[p].pc = "next" /\ \A w \in Workers \ {p} : job'[w] = job[w]
      BY <3>2
    <3>4. JobOk(p)'
      BY <3>3, JobAway
    <3> QED
      BY <1>0, <1>2, <2>1, <3>1, <3>3, <3>4, OneJob
  <2> QED
    BY <1>8, <2>2, <2>3 DEF RequestStep, Route, Admit, Observe, IngestTimesOut
<1> QED
  BY <1>3, <1>4, <1>5, <1>6, <1>7, <1>8, NextCases

\* A routed request keeps what it was routed with.
LEMMA StepKeepsReqInv ==
  ASSUME IInv, Next
  PROVE  ReqInv'
<1>0. TypeOK /\ FilesTyped /\ ReqInv /\ req \in [Requests -> ReqTypes]
  BY TypeParts DEF IInv, ProgramsTyped
<1>1. CASE req' = req
  BY <1>0, <1>1 DEF ReqInv
<1>2. ASSUME NEW q \in Requests, RequestStep(q) PROVE ReqInv'
  <2>1. \/ req' = req
        \/ req' = [req EXCEPT ![q] = NoReq]
        \/ /\ req[q].pc # "idle"
           /\ \E c \in {"running", "observed", "failing"} : req' = [req EXCEPT ![q].pc = c]
        \/ \E p \in Procs : /\ index \in Rollouts /\ state[index] \in Live
                            /\ req' = [req EXCEPT ![q] = [pc |-> "read", p |-> p, r |-> index,
                                                          mode |-> state[index]]]
    <3>1. ASSUME NEW p \in Procs, Route(q, p), req' # req
          PROVE  /\ index \in Rollouts /\ state[index] \in Live
                 /\ req' = [req EXCEPT ![q] = [pc |-> "read", p |-> p, r |-> index,
                                                          mode |-> state[index]]]
      <4>1. index' # None /\ state[index] \in Live
            /\ Set(q, [pc |-> "read", p |-> p, r |-> index, mode |-> state[index]])
        BY <3>1 DEF Route
      <4>2. index' = index
        BY <3>1, <4>1 DEF Route, ReadActive
      <4>3. index \in Rollouts
        BY <1>0, <4>1, <4>2 DEF FilesTyped
      <4> QED
        BY <4>1, <4>3 DEF Set
    <3>2. CASE Admit(q)
      BY <3>2 DEF Admit, Set
    <3>3. CASE Observe(q)
      <4>1. PICK bad \in BOOLEAN : req' = [req EXCEPT ![q].pc = IF bad THEN "failing" ELSE "observed"]
        BY <3>3 DEF Observe
      <4> QED
        BY <3>3, <4>1 DEF Observe
    <3>4. CASE IngestTelemetry(q) \/ IngestTimesOut(q)
      BY <3>4 DEF IngestTelemetry, IngestTimesOut, Set
    <3> QED
      BY <1>2, <3>1, <3>2, <3>3, <3>4 DEF RequestStep
  <2>2. CASE req' = [req EXCEPT ![q] = NoReq]
    BY <1>0, <2>2 DEF ReqInv, NoReq
  <2>3. ASSUME req[q].pc # "idle", NEW c \in {"running", "observed", "failing"},
               req' = [req EXCEPT ![q].pc = c]
        PROVE  ReqInv'
    BY <1>0, <2>3 DEF ReqInv, ReqTypes
  <2>4. ASSUME NEW p \in Procs, index \in Rollouts, state[index] \in Live,
               req' = [req EXCEPT ![q] = [pc |-> "read", p |-> p, r |-> index, mode |-> state[index]]]
        PROVE  ReqInv'
    BY <1>0, <2>4 DEF ReqInv
  <2> QED
    BY <1>1, <2>1, <2>2, <2>3, <2>4
<1>3. ASSUME NEW p \in Procs, Crash(p) PROVE ReqInv'
  BY <1>0, <1>3 DEF ReqInv, Crash, NoReq
<1>4. PointerStep \/ RolloutStep \/ (\E p \in Procs : LoopStep(p)) \/ (\E p \in Workers : Recover(p))
      => req' = req
  BY DEF PointerStep, Promote, UpgradeShippedBaseline, RollbackPointer,
     RolloutStep, Advance, AdvanceViolating, Fail, Activate, OperatorBreaksOff,
     LoopStep, Start, List, ReleaseIndex, Process, LoopEnds, Ingest, RecordApplication,
     Recover, RollbackTraffic, NoteRollback, CheckQuarantine, WriteQuarantine,
     NoteQuarantine, EmitCapsule, Mark
<1> QED
  BY <1>1, <1>2, <1>3, <1>4, NextCases

-----------------------------------------------------------------------------
(* The index. *)

\* What stopped or released a rollout lasts.
LEMMA Stays ==
  ASSUME Lasts, NEW r \in Rollouts,
         state[r] \in Over \/ r \in quarantined \/ indexWedged
  PROVE  (state[r] \in Over \/ r \in quarantined \/ indexWedged)'
BY DEF Lasts

\* A rollout leaves the index only when it is over, quarantined or bound to an
\* older champion.
LEMMA StepKeepsLeftInv ==
  ASSUME IInv, Lasts, Next
  PROVE  LeftInv'
<1>0. FilesTyped /\ LeftInv /\ JobInv
  BY TypeParts DEF IInv
<1>1. \A r \in Rollouts : bind[r] \in 0..pointer.gen
  BY <1>0 DEF FilesTyped
<1>2. ASSUME UNCHANGED <<bind, pointer>>,
             \A r \in Rollouts : index = r /\ index' # r =>
               state[r] \in Over \/ r \in quarantined \/ bind[r] # pointer.gen
      PROVE  LeftInv'
  <2> SUFFICES ASSUME NEW r \in Rollouts, bind[r] = pointer.gen, index' # r
               PROVE  (state[r] \in Over \/ r \in quarantined \/ indexWedged)'
    BY <1>2 DEF LeftInv
  <2>1. state[r] \in Over \/ r \in quarantined \/ indexWedged
    BY <1>0, <1>2 DEF LeftInv
  <2> QED
    BY <2>1, Stays
<1>3. CASE PointerStep
  <2>1. bind' = bind
    BY <1>3 DEF PointerStep, Promote, UpgradeShippedBaseline, RollbackPointer, indexes
  <2>2. pointer'.gen = pointer.gen + 1 /\ pointer.gen \in Nat
    <3>1. pointer \in [bundle : Rollouts \cup Baselines, gen : 1..MaxGen, trusted : BOOLEAN]
      BY <1>0 DEF FilesTyped
    <3> QED
      BY <1>3, <3>1, Bounds DEF PointerStep, Promote, UpgradeShippedBaseline, RollbackPointer, Point
  <2> QED
    BY <1>1, <2>1, <2>2 DEF LeftInv
<1>4. CASE RolloutStep
  <2>1. pointer' = pointer
    BY <1>4 DEF RolloutStep, Advance, AdvanceViolating, Fail, Activate, OperatorBreaksOff, pointers
  <2>2. CASE UNCHANGED <<bind, index>>
    BY <1>2, <2>1, <2>2
  <2>3. ASSUME NEW r \in Rollouts, Activate(r) PROVE LeftInv'
    <3>1. /\ bind' = [bind EXCEPT ![r] = pointer.gen] /\ index' = r
          /\ index # None => state[index] \in Over
      BY <2>3 DEF Activate, CanActivate
    <3> SUFFICES ASSUME NEW s \in Rollouts, bind'[s] = pointer.gen, s # r
                 PROVE  (state[s] \in Over \/ s \in quarantined \/ indexWedged)'
      BY <2>1, <3>1 DEF LeftInv
    <3>2. bind[s] = pointer.gen
      BY <1>0, <3>1 DEF FilesTyped
    <3>3. state[s] \in Over \/ s \in quarantined \/ indexWedged
      BY <1>0, <3>1, <3>2, DistinctNames DEF LeftInv
    <3> QED
      BY <3>3, Stays
  <2>4. CASE OperatorBreaksOff /\ indexWedged'
    BY <2>4 DEF LeftInv
  <2>5. OperatorBreaksOff => indexWedged' \/ UNCHANGED <<bind, index>>
    BY DEF OperatorBreaksOff, indexes
  <2> QED
    BY <1>4, <2>2, <2>3, <2>4, <2>5 DEF RolloutStep, Advance, AdvanceViolating, Fail, indexes
<1>5. ASSUME UNCHANGED <<bind, pointer>>, index' \in {index, ReadActive} PROVE LeftInv'
  BY <1>2, <1>5 DEF ReadActive, Unsafe
<1>6. ASSUME NEW p \in Procs, LoopStep(p) PROVE LeftInv'
  <2>1. UNCHANGED <<bind, pointer>>
    BY <1>6 DEF LoopStep, Start, List, ReleaseIndex, Process, LoopEnds, Ingest, RecordApplication,
       indexes, pointers
  <2>2. CASE ReleaseIndex(p)
    <3>1. index' = index \/ (index = job[p].r /\ state[job[p].r] \in Over)
      BY <2>2 DEF ReleaseIndex
    <3> QED
      BY <1>2, <2>1, <3>1
  <2>3. ~ReleaseIndex(p) => index' \in {index, ReadActive}
    BY <1>6 DEF LoopStep, Start, List, Process, LoopEnds, Ingest, RecordApplication, indexes
  <2> QED
    BY <1>5, <2>1, <2>2, <2>3
<1>7. ASSUME NEW p \in Procs, Crash(p) PROVE LeftInv'
  BY <1>5, <1>7 DEF Crash, pointers
<1>8. ASSUME NEW p \in Workers, Recover(p) PROVE LeftInv'
  <2>1. UNCHANGED <<bind, pointer, index>>
    BY <1>8 DEF Recover, RollbackTraffic, NoteRollback, CheckQuarantine, WriteQuarantine,
       NoteQuarantine, EmitCapsule, Mark, indexes, pointers
  <2> QED
    BY <1>5, <2>1
<1>9. ASSUME NEW q \in Requests, RequestStep(q) PROVE LeftInv'
  <2>1. UNCHANGED <<bind, pointer>> /\ index' \in {index, ReadActive}
    BY <1>9 DEF RequestStep, Route, Admit, Observe, IngestTelemetry, IngestTimesOut, indexes, pointers
  <2> QED
    BY <1>5, <2>1
<1> QED
  BY <1>3, <1>4, <1>6, <1>7, <1>8, <1>9, NextCases

-----------------------------------------------------------------------------
(* The invariant. *)

LEMMA InitIInv == Init => IInv
<1> SUFFICES ASSUME Init PROVE IInv
  OBVIOUS
<1>1. FilesTyped
  <2>1. history \in Seq(Rollouts \cup Baselines) /\ Len(history) = 0
    BY DEF Init
  <2>2. "draft" \in States
    BY StatesAre
  <2>3. pointer \in [bundle : Rollouts \cup Baselines, gen : 1..MaxGen, trusted : BOOLEAN]
        /\ pointer.gen = 1
    BY Bounds DEF Init, Baselines
  <2>4. /\ Len(history) < pointer.gen /\ 0 \in 0..pointer.gen /\ 0 \in 0..3
    BY <2>1, <2>3
  <2>5. /\ state \in [Rollouts -> States] /\ acks \in [Rollouts -> 0..3]
        /\ bind \in [Rollouts -> 0..pointer.gen] /\ ledger \in [Rollouts -> SUBSET Effects]
    BY <2>2, <2>4 DEF Init
  <2>6. /\ quarantined = {} /\ wedged = {} /\ backlog = {} /\ indexWedged = FALSE /\ index = None
    BY DEF Init
  <2> QED
    BY <2>1, <2>3, <2>4, <2>5, <2>6 DEF FilesTyped
<1>2. ProgramsTyped
  <2>1. NoJob \in JobTypes /\ NoReq \in ReqTypes
    BY DEF NoJob, JobTypes, NoReq, ReqTypes
  <2>2. pointer.gen = 1
    BY DEF Init
  <2> QED
    BY <2>1, <2>2, Bounds DEF Init, ProgramsTyped, Workers
<1>3. JobInv
  BY DEF Init, JobInv, JobOk, NoJob, Workers, Recovery
<1>4. ReqInv
  BY DEF Init, ReqInv, NoReq
<1>5. RecoveryInOrder
  BY DEF Init, RecoveryInOrder
<1>6. LeftInv
  BY DEF Init, LeftInv
<1> QED
  BY <1>1, <1>2, <1>3, <1>4, <1>5, <1>6, TypeParts DEF IInv

\* Every step keeps the invariant.
LEMMA NextIInv == IInv /\ [Next]_vars => IInv'
<1> SUFFICES ASSUME IInv, [Next]_vars PROVE IInv'
  OBVIOUS
<1>1. CASE Next
  <2>0. TypeOK /\ JobInv /\ ReqInv
    BY DEF IInv
  <2>1. TypeOK'
    BY <1>1, <2>0, NextCases, PointerStepTyped, RolloutStepTyped, LoopStepTyped, CrashTyped,
       RecoverTyped, RequestStepTyped
  <2>2. Lasts
    BY <1>1, <2>0, StepLasts
  <2>3. JobInv' /\ RecoveryInOrder'
    BY <1>1, <2>1, <2>2, StepKeepsOrder
  <2>4. ReqInv' /\ LeftInv'
    BY <1>1, <2>2, StepKeepsReqInv, StepKeepsLeftInv
  <2> QED
    BY <2>1, <2>3, <2>4 DEF IInv
<1>2. CASE UNCHANGED vars
  <2>1. /\ UNCHANGED <<pointer, history, state, acks, wedged, bind, index, indexWedged, quarantined, ledger>>
        /\ UNCHANGED <<up, pin, backlog, loop, job, req, faults>>
    BY <1>2 DEF vars, pointers, rollouts, indexes, effects, runs
  <2>2. TypeOK'
    BY <2>1 DEF IInv, TypeOK
  <2>3. JobInv' /\ ReqInv'
    BY <2>1 DEF IInv, JobInv, JobOk, ReqInv
  <2>4. RecoveryInOrder' /\ LeftInv'
    BY <2>1 DEF IInv, RecoveryInOrder, LeftInv
  <2> QED
    BY <2>2, <2>3, <2>4 DEF IInv
<1> QED
  BY <1>1, <1>2

LEMMA SpecIInv == Spec => []IInv
  BY InitIInv, NextIInv, PTL DEF Spec

-----------------------------------------------------------------------------
(* Theorems. *)

\* The files of the deployment and its programs keep their types: above all a
\* rollout in the index has a binding, no binding is newer than the champion,
\* and the pointer has one generation more than it has predecessors.
THEOREM RolloutTypeCorrect == Spec => []TypeOK
<1>1. IInv => TypeOK
  BY DEF IInv
<1>2. QED
  BY <1>1, SpecIInv, PTL

\* An effect of a recovery is acknowledged, and noted, only after it was done
\* and after the one before it (coordinator.ts:106-167, adapters.ts:127-163),
\* however many recoveries of the operator and of the runs meet on a rollout.
THEOREM RecoveriesInOrder == Spec => []RecoveryInOrder
<1>1. IInv => RecoveryInOrder
  BY DEF IInv
<1>2. QED
  BY <1>1, SpecIInv, PTL

\* A rollout that is over stays over, one that left the index never returns to
\* it, and what a request runs on is admissible at that moment
\* (runtime-store.ts:243-252).
THEOREM RolloutOverForGood == Spec => OverForGood
<1> DEFINE Step ==
      /\ \A r \in Rollouts :
          /\ state[r] \in Over => state'[r] = state[r]
          /\ index # r /\ index' = r => bind[r] = 0
      /\ \A q \in Requests :
          req[q].pc # "running" /\ req'[q].pc = "running" => Admissible(req[q].r)
<1>1. IInv /\ [Next]_vars => [Step]_vars
  <2> SUFFICES ASSUME IInv, Next PROVE Step
    OBVIOUS
  <2>0. TypeOK /\ FilesTyped /\ JobInv /\ ReqInv /\ LeftInv /\ req \in [Requests -> ReqTypes]
    BY TypeParts DEF IInv, ProgramsTyped
  <2>1. Lasts
    BY <2>0, StepLasts
  <2>2. ASSUME NEW r \in Rollouts, index # r, index' = r PROVE bind[r] = 0
    <3>1. Activate(r)
      <4>1. None # r
        BY DistinctNames
      <4>2. CASE PointerStep
        BY <2>2, <4>2 DEF PointerStep, Promote, UpgradeShippedBaseline, RollbackPointer, indexes
      <4>3. CASE RolloutStep
        BY <2>2, <4>3 DEF RolloutStep, Advance, AdvanceViolating, Fail, Activate, OperatorBreaksOff, indexes
      <4>4. ASSUME NEW p \in Procs, LoopStep(p) PROVE FALSE
        BY <2>2, <4>1, <4>4 DEF LoopStep, Start, List, ReleaseIndex, Process, LoopEnds, Ingest,
           RecordApplication, indexes, ReadActive
      <4>5. ASSUME NEW p \in Procs, Crash(p) PROVE FALSE
        BY <2>2, <4>5 DEF Crash
      <4>6. ASSUME NEW p \in Workers, Recover(p) PROVE FALSE
        BY <2>2, <4>6 DEF Recover, RollbackTraffic, NoteRollback, CheckQuarantine, WriteQuarantine,
           NoteQuarantine, EmitCapsule, Mark, indexes
      <4>7. ASSUME NEW q \in Requests, RequestStep(q) PROVE FALSE
        BY <2>2, <4>1, <4>7 DEF RequestStep, Route, Admit, Observe, IngestTelemetry, IngestTimesOut,
           indexes, ReadActive
      <4> QED
        BY <4>2, <4>3, <4>4, <4>5, <4>6, <4>7, NextCases
    <3>2. state[r] \in Live /\ r \notin quarantined /\ ~indexWedged /\ bind[r] \in {0, pointer.gen}
      BY <3>1 DEF Activate, CanActivate
    <3> QED
      BY <2>0, <2>2, <3>2, StatesAre DEF LeftInv
  <2>3. ASSUME NEW q \in Requests, req[q].pc # "running", req'[q].pc = "running"
        PROVE  Admissible(req[q].r)
    <3>1. Admit(q)
      <4>1. req' # req
        BY <2>3
      <4>2. \A p \in Procs : ~Crash(p)
        BY <2>3 DEF Crash, NoReq
      <4>3. PICK s \in Requests : RequestStep(s)
        BY <4>1, <4>2, NextCases
           DEF PointerStep, Promote, UpgradeShippedBaseline, RollbackPointer,
               RolloutStep, Advance, AdvanceViolating, Fail, Activate, OperatorBreaksOff,
               LoopStep, Start, List, ReleaseIndex, Process, LoopEnds, Ingest, RecordApplication,
               Recover, RollbackTraffic, NoteRollback, CheckQuarantine, WriteQuarantine,
               NoteQuarantine, EmitCapsule, Mark
      <4>4. \A v : Set(s, v) => s = q /\ v.pc = "running"
        BY <2>0, <2>3 DEF Set
      <4>5. NoReq.pc # "running"
        BY DEF NoReq
      <4>6. ~(IngestTelemetry(s) \/ IngestTimesOut(s)) /\ \A p \in Procs : ~Route(s, p)
        BY <4>1, <4>4, <4>5 DEF IngestTelemetry, IngestTimesOut, Route
      <4>7. ~Observe(s)
        <5> SUFFICES ASSUME Observe(s) PROVE FALSE
          OBVIOUS
        <5>1. PICK bad \in BOOLEAN : req' = [req EXCEPT ![s].pc = IF bad THEN "failing" ELSE "observed"]
          BY DEF Observe
        <5> QED
          BY <2>0, <2>3, <5>1 DEF ReqTypes
      <4>8. Admit(s)
        BY <4>3, <4>6, <4>7 DEF RequestStep
      <4>9. s = q
        BY <2>0, <2>3, <4>8 DEF Admit, Set
      <4> QED
        BY <4>8, <4>9
    <3>2. req[q].pc = "read" /\ req[q].r \in Rollouts /\ req[q].mode \in Live
      BY <2>0, <3>1 DEF Admit, ReqInv
    <3>3. index' = ReadActive /\ index' = req[q].r /\ state[req[q].r] = req[q].mode
      BY <2>0, <2>3, <3>1 DEF Admit, Set, NoReq
    <3>4. ~Unsafe /\ index = req[q].r /\ index # None
      BY <3>2, <3>3, DistinctNames DEF ReadActive
    <3> QED
      BY <3>2, <3>3, <3>4 DEF Unsafe, Admissible
  <2> QED
    BY <2>1, <2>2, <2>3 DEF Lasts
<1>2. QED
  BY <1>1, SpecIInv, PTL DEF Spec, OverForGood
=============================================================================
