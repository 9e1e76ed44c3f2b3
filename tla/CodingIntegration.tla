-------------------------- MODULE CodingIntegration --------------------------
(***************************************************************************)
(* Coding work orders reach the repository through CodingPipeline.execute  *)
(* (src/src/coding/pipeline.ts): attempts in a disposable clone, a durable  *)
(* journal of failures, intent and completion, and a single committer that  *)
(* moves the target ref by compare-and-swap.  The orchestrator then puts a  *)
(* proof on the blackboard and commits the work order as INTEGRATED.        *)
(*                                                                         *)
(* Several processes may execute one order, each may crash at any step, and *)
(* people move the target ref.  Every file, git or deadline error is a      *)
(* fault; a failed write may have landed.  Lock files are atomic here: what *)
(* their recovery does is the subject of FileLock.                          *)
(***************************************************************************)
EXTENDS Integers, Sequences, FiniteSets

CONSTANTS Procs, Orders,
          Findings,                \* kinds of repairable failures (repairRepeatKey)
          MaxAttempts,             \* options.maxAttempts
          MaxFaults, MaxMoves      \* bounds on faults and crashes, and on moves of the ref

ASSUME CodingAssumption ==
  /\ Orders # {} /\ {"none", "dead"} \cap Procs = {}
  /\ {"none", "base", "other", "missing"} \cap Orders = {}
  /\ MaxAttempts \in Nat \ {0} /\ MaxFaults \in Nat /\ MaxMoves \in Nat

VARIABLES
  pc, order,   \* pc[p]: the next step of a process, order[p]: the order it executes
  drift,       \* processes that saw the target moved when they took the lock
  outcome,     \* outcome[p]: what its execution will answer
  journal,     \* journal[o]: the records of CodingAttemptJournal
  journalLock, \* journalLock[o]: its owner, "dead" when the owner has crashed
  refLock,     \* the integration lock of the target ref
  workspace,   \* orders whose clone exists
  head,        \* the target ref: "base", an order (its commit), "other" or "missing"
  pins,        \* orders whose source commit is pinned under refs/luna-swarm
  proofs,      \* orders whose integration proof is on the blackboard
  integrated,  \* orders committed as INTEGRATED in the run
  entered,     \* entered[o]: how often its commit was put into the target (history)
  answers,     \* answers[o]: what executions of it answered (history)
  faults, moves

process == <<pc, order, drift, outcome>>
repository == <<head, pins>>
host == <<proofs, integrated>>
history == <<entered, answers>>
vars == <<process, journal, journalLock, refLock, workspace, repository, host, history,
          faults, moves>>

Labels == {"idle", "open", "replay", "recover", "create", "work", "prepare", "lock", "look",
           "pin", "reread", "cas", "unpin", "unlock", "dispose", "complete", "close",
           "proof", "record"}
Committing == {"look", "pin", "reread", "cas", "unpin", "unlock"}  \* labels inside the ref lock
Journaling == Labels \ {"idle", "open", "proof", "record"}         \* labels inside the journal lock
Answers == {"integrated", "conflict"}
Outcomes == Answers \cup {"none", "repair", "exhausted", "recovery", "error"}

TypeOK ==
  /\ pc \in [Procs -> Labels] /\ order \in [Procs -> Orders \cup {"none"}] /\ drift \subseteq Procs /\ outcome \in [Procs -> Outcomes]
  /\ journal \in [Orders -> [failures: Seq(Findings), cleaned: 0..MaxAttempts,
                             prepared: BOOLEAN, completion: Answers \cup {"none"}]]
  /\ \A o \in Orders : Len(journal[o].failures) <= MaxAttempts
  /\ journalLock \in [Orders -> Procs \cup {"none", "dead"}]
  /\ refLock \in Procs \cup {"none", "dead"}
  /\ workspace \subseteq Orders /\ head \in Orders \cup {"base", "other", "missing"}
  /\ pins \subseteq Orders /\ proofs \subseteq Orders /\ integrated \subseteq Orders
  /\ entered \in [Orders -> Nat] /\ answers \in [Orders -> SUBSET Answers]
  /\ faults \in 0..MaxFaults /\ moves \in 0..MaxMoves

Init ==
  /\ pc = [p \in Procs |-> "idle"] /\ order = [p \in Procs |-> "none"]
  /\ drift = {} /\ outcome = [p \in Procs |-> "none"]
  /\ journal = [o \in Orders |->
       [failures |-> <<>>, cleaned |-> 0, prepared |-> FALSE, completion |-> "none"]]
  /\ journalLock = [o \in Orders |-> "none"] /\ refLock = "none"
  /\ workspace = {} /\ head = "base" /\ pins = {} /\ proofs = {} /\ integrated = {}
  /\ entered = [o \in Orders |-> 0] /\ answers = [o \in Orders |-> {}]
  /\ faults = 0 /\ moves = 0

Goto(p, label) == pc' = [pc EXCEPT ![p] = label]
Decide(p, answer, label) == outcome' = [outcome EXCEPT ![p] = answer] /\ Goto(p, label)
\* The execution is over, and its volatile state with it.
Leave(p) ==
  /\ Decide(p, "none", "idle") /\ order' = [order EXCEPT ![p] = "none"] /\ drift' = drift \ {p}
Fault == faults < MaxFaults /\ faults' = faults + 1

Failures(o) == journal[o].failures
Repeated(s) == \E i, j \in DOMAIN s : i # j /\ s[i] = s[j]
Exhausted(o) == Repeated(Failures(o)) \/ Len(Failures(o)) >= MaxAttempts

-----------------------------------------------------------------------------
(* execute: the journal is opened and what it says of earlier executions is  *)
(* settled first.                                                            *)

\* The host asks for the integration of an order that its run has not recorded.
Execute(p, o) ==
  /\ pc[p] = "idle" /\ o \notin integrated
  /\ order' = [order EXCEPT ![p] = o]
  /\ Goto(p, "open")
  /\ UNCHANGED <<drift, outcome, journal, journalLock, refLock, workspace, repository, host, history, faults, moves>>

OpenAnyway(p) ==  \* (mutated form: a live owner's lock is taken over)
  /\ pc[p] = "open"
  /\ journalLock' = [journalLock EXCEPT ![order[p]] = p]
  /\ Goto(p, "replay")
  /\ UNCHANGED <<order, drift, outcome, journal, refLock, workspace, repository, host, history, faults, moves>>

Open(p) ==
  /\ pc[p] = "open" /\ journalLock[order[p]] \in {"none", "dead"}
  /\ journalLock' = [journalLock EXCEPT ![order[p]] = p]
  /\ Goto(p, "replay")
  /\ UNCHANGED <<order, drift, outcome, journal, refLock, workspace, repository, host, history, faults, moves>>

\* LOCK_WAIT_MS is over and the owner is alive.
OpenTimesOut(p) ==
  /\ pc[p] = "open" /\ journalLock[order[p]] \in Procs
  /\ Leave(p)
  /\ UNCHANGED <<journal, journalLock, refLock, workspace, repository, host, history, faults, moves>>

ReplayAfresh(p) ==  \* (mutated form: an unfinished intent is taken for a new start)
  LET o == order[p] IN
  /\ pc[p] = "replay"
  /\ journal' = [journal EXCEPT ![o].cleaned = Len(Failures(o)),
                                ![o].prepared = journal[o].completion # "none"]
  /\ workspace' = workspace \ {o}
  /\ CASE Repeated(Failures(o)) -> Decide(p, "exhausted", "close")
       [] ~Repeated(Failures(o)) /\ journal[o].completion # "none" -> Decide(p, "none", "recover")
       [] journal[o].completion = "none" /\ Exhausted(o) -> Decide(p, "exhausted", "close")
       [] OTHER -> Decide(p, "none", "create")
  /\ UNCHANGED <<order, drift, journalLock, refLock, repository, host, history, faults, moves>>

ReplayForgetful(p) ==  \* (mutated form: failures of earlier executions are not counted as seen)
  LET o == order[p] IN
  /\ pc[p] = "replay"
  /\ journal' = [journal EXCEPT ![o].cleaned = Len(Failures(o))]
  /\ workspace' = workspace \ {o}
  /\ IF journal[o].prepared THEN Decide(p, "none", "recover")
     ELSE IF Len(Failures(o)) >= MaxAttempts THEN Decide(p, "exhausted", "close")
     ELSE Decide(p, "none", "create")
  /\ UNCHANGED <<order, drift, journalLock, refLock, repository, host, history, faults, moves>>

\* recoverPendingCleanup, then the failures and the intent are replayed.
Replay(p) ==
  LET o == order[p] IN
  /\ pc[p] = "replay"
  /\ journal' = [journal EXCEPT ![o].cleaned = Len(Failures(o))]
  /\ workspace' = IF journal[o].cleaned < Len(Failures(o)) THEN workspace \ {o} ELSE workspace
  /\ CASE Repeated(Failures(o)) -> Decide(p, "exhausted", "close")
       [] ~Repeated(Failures(o)) /\ journal[o].prepared -> Decide(p, "none", "recover")
       [] ~journal[o].prepared /\ Exhausted(o) -> Decide(p, "exhausted", "close")
       [] OTHER -> Decide(p, "none", "create")
  /\ UNCHANGED <<order, drift, journalLock, refLock, repository, host, history, faults, moves>>

RecoverMoved(p) ==  \* (mutated form: a target that moved is taken for this order's commit)
  /\ pc[p] = "recover"
  /\ IF head \notin {"base", "missing"} /\ journal[order[p]].completion # "conflict"
     THEN Decide(p, "integrated", "complete") ELSE Decide(p, "recovery", "close")
  /\ UNCHANGED <<order, drift, journal, journalLock, refLock, workspace, repository, host, history, faults, moves>>

\* recoverIntegratedCodingResult accepts the target only if it is at this
\* order's own commit and no other completion is on record; the clone goes.
Recover(p) ==
  LET o == order[p]
      found == head = o /\ journal[o].completion # "conflict" IN
  /\ pc[p] = "recover"
  /\ workspace' = IF found THEN workspace \ {o} ELSE workspace
  /\ IF found THEN Decide(p, "integrated", "complete") ELSE Decide(p, "recovery", "close")
  /\ UNCHANGED <<order, drift, journal, journalLock, refLock, repository, host, history, faults, moves>>

\* An I/O error or the deadline before anything new was done.  When the
\* clone could not be made, what there is of it may stay.
Interrupted(p) ==
  /\ pc[p] \in {"replay", "recover", "create"} /\ Fault
  /\ Decide(p, IF pc[p] = "recover" THEN "recovery" ELSE "error", "close")
  /\ workspace' \in {workspace, workspace \ {order[p]}}
  /\ UNCHANGED <<order, drift, journal, journalLock, refLock, repository, host, history, moves>>

-----------------------------------------------------------------------------
(* One attempt in a fresh clone. *)

Create(p) ==
  /\ pc[p] = "create" /\ workspace' = workspace \cup {order[p]}
  /\ Goto(p, "work")
  /\ UNCHANGED <<order, drift, outcome, journal, journalLock, refLock, repository, host, history, faults, moves>>

\* All checks and audits pass.
Passes(p) ==
  /\ pc[p] = "work" /\ Goto(p, "prepare")
  /\ UNCHANGED <<order, drift, outcome, journal, journalLock, refLock, workspace, repository, host, history,
                 faults, moves>>

\* A check or an audit fails with a signed receipt, which is appended.
Repairable(p, f) ==
  LET o == order[p] IN
  /\ pc[p] = "work"
  /\ journal' = [journal EXCEPT ![o].failures = Append(@, f)]
  /\ Decide(p, "repair", "dispose")
  /\ UNCHANGED <<order, drift, journalLock, refLock, workspace, repository, host, history, faults, moves>>

\* The executor fails, or the failure could not be recorded for sure.
Fatal(p) ==
  LET o == order[p] IN
  /\ pc[p] = "work" /\ Fault
  /\ \/ UNCHANGED journal
     \/ \E f \in Findings : journal' = [journal EXCEPT ![o].failures = Append(@, f)]
  /\ Decide(p, "error", "dispose")
  /\ UNCHANGED <<order, drift, journalLock, refLock, workspace, repository, host, history, moves>>

\* dispose, and for a repairable failure acknowledgeCleanup and the verdict on
\* another attempt.
Dispose(p) ==
  LET o == order[p] IN
  /\ pc[p] = "dispose" /\ workspace' = workspace \ {o}
  /\ IF outcome[p] = "repair"
     THEN /\ journal' = [journal EXCEPT ![o].cleaned = Len(Failures(o))]
          /\ IF Exhausted(o) THEN Decide(p, "exhausted", "close") ELSE Decide(p, "none", "create")
     ELSE /\ Goto(p, IF outcome[p] \in Answers THEN "complete" ELSE "close")
          /\ UNCHANGED <<outcome, journal>>
  /\ UNCHANGED <<order, drift, journalLock, refLock, repository, host, history, faults, moves>>

\* A clone that stays is only a warning when there is a result.
DisposeFails(p) ==
  /\ pc[p] = "dispose" /\ Fault
  /\ IF outcome[p] \in Answers THEN Decide(p, outcome[p], "complete")
     ELSE Decide(p, IF outcome[p] = "repair" THEN "error" ELSE outcome[p], "close")
  /\ UNCHANGED <<order, drift, journal, journalLock, refLock, workspace, repository, host, history, moves>>

-----------------------------------------------------------------------------
(* The intent, and SingleCommitter.integrate. *)

\* Every earlier failure must be acknowledged, and the intent is created once.
MayPrepare(o) == journal[o].cleaned = Len(Failures(o)) /\ ~journal[o].prepared

Prepare(p) ==
  LET o == order[p] IN
  /\ pc[p] = "prepare" /\ MayPrepare(o)
  /\ journal' = [journal EXCEPT ![o].prepared = TRUE]
  /\ Goto(p, "lock")
  /\ UNCHANGED <<order, drift, outcome, journalLock, refLock, workspace, repository, host, history, faults, moves>>

\* The write of the intent fails and may have landed; memory has no intent.
PrepareFails(p) ==
  /\ pc[p] = "prepare"
  /\ \/ Fault /\ journal' \in {journal, [journal EXCEPT ![order[p]].prepared = TRUE]}
     \/ ~MayPrepare(order[p]) /\ UNCHANGED <<journal, faults>>
  /\ Decide(p, "error", "dispose")
  /\ UNCHANGED <<order, drift, journalLock, refLock, workspace, repository, host, history, moves>>

Lock(p) ==
  /\ pc[p] = "lock" /\ refLock \in {"none", "dead"} /\ refLock' = p
  /\ Goto(p, "look")
  /\ UNCHANGED <<order, drift, outcome, journal, journalLock, workspace, repository, host, history, faults, moves>>

\* The lock has a live owner, or the deadline or an I/O error comes first.
LockIsHeld(p) ==
  /\ pc[p] = "lock"
  /\ \/ refLock \in Procs /\ UNCHANGED faults
     \/ Fault
  /\ Decide(p, "recovery", "dispose")
  /\ UNCHANGED <<order, drift, journal, journalLock, refLock, workspace, repository, host, history, moves>>

\* targetDriftObserved, then the submission is verified and the commit made.
Look(p) ==
  /\ pc[p] = "look" /\ drift' = IF head = "base" THEN drift ELSE drift \cup {p}
  /\ Goto(p, "pin")
  /\ UNCHANGED <<order, outcome, journal, journalLock, refLock, workspace, repository, host, history, faults, moves>>

\* pinSourceCommit creates the pin; it fails where one exists.
Pin(p) ==
  LET o == order[p] IN
  /\ pc[p] = "pin" /\ pins' = pins \cup {o}
  /\ IF o \in pins THEN Decide(p, "recovery", "unlock") ELSE Goto(p, "reread") /\ UNCHANGED outcome
  /\ UNCHANGED <<order, drift, journal, journalLock, refLock, workspace, head, host, history, faults, moves>>

Reread(p) ==
  /\ pc[p] = "reread"
  /\ IF p \in drift \/ head # "base" THEN Decide(p, "conflict", "unlock")
     ELSE Goto(p, "cas") /\ UNCHANGED outcome
  /\ UNCHANGED <<order, drift, journal, journalLock, refLock, workspace, repository, host, history, faults, moves>>

Advance(o) == head' = o /\ entered' = [entered EXCEPT ![o] = @ + 1]

\* git update-ref <target> <commit> <base>.
Cas(p) ==
  LET o == order[p] IN
  /\ pc[p] = "cas"
  /\ IF head = "base" THEN Advance(o) /\ Decide(p, "integrated", "unpin")
     ELSE Decide(p, "conflict", "unlock") /\ UNCHANGED <<head, entered>>
  /\ UNCHANGED <<order, drift, journal, journalLock, refLock, workspace, pins, host, answers, faults, moves>>

\* The command was started and its outcome is not known: an abort is an error
\* and the pin goes, a command killed by its timeout counts as a lost swap.
CasUnknown(p) ==
  LET o == order[p] IN
  /\ pc[p] = "cas" /\ Fault
  /\ \/ head = "base" /\ Advance(o)
     \/ UNCHANGED <<head, entered>>
  /\ \/ Decide(p, "recovery", "unpin")
     \/ Decide(p, "conflict", "unlock")
     \/ Decide(p, "recovery", "unlock")  \* the conflict could not be described
  /\ UNCHANGED <<order, drift, journal, journalLock, refLock, workspace, pins, host, answers, moves>>

\* An error or an abort under the ref lock, before the swap.
CommitFails(p) ==
  /\ pc[p] \in {"look", "pin", "reread"} /\ Fault
  /\ pins' \in {pins, IF pc[p] = "pin" THEN pins \cup {order[p]} ELSE pins}
  /\ \/ pc[p] # "reread" /\ Decide(p, "recovery", "unlock")
     \/ pc[p] = "reread" /\ Decide(p, "recovery", "unpin")
     \/ pc[p] = "reread" /\ (p \in drift \/ head # "base") /\ Decide(p, "recovery", "unlock")
  /\ UNCHANGED <<order, drift, journal, journalLock, refLock, workspace, head, host, history, moves>>

Unpin(p) ==
  /\ pc[p] = "unpin" /\ Goto(p, "unlock")
  /\ \/ pins' = pins \ {order[p]} /\ UNCHANGED faults
     \/ Fault /\ UNCHANGED pins
  /\ UNCHANGED <<order, drift, outcome, journal, journalLock, refLock, workspace, head, host, history, moves>>

Unlock(p) ==
  /\ pc[p] = "unlock" /\ refLock' = "none" /\ Goto(p, "dispose")
  /\ UNCHANGED <<order, drift, outcome, journal, journalLock, workspace, repository, host, history, faults, moves>>

\* releaseIntegrationLock failed twice: the lock stays with a live owner.
UnlockFails(p) ==
  /\ pc[p] = "unlock" /\ Fault
  /\ Decide(p, IF outcome[p] = "integrated" THEN "integrated" ELSE "recovery", "dispose")
  /\ UNCHANGED <<order, drift, journal, journalLock, refLock, workspace, repository, host, history, moves>>

\* The completion is written once; another one on record must be the same.
Complete(p) ==
  LET o == order[p] IN
  /\ pc[p] = "complete" /\ journal[o].completion \in {"none", outcome[p]}
  /\ journal' = [journal EXCEPT ![o].completion = outcome[p]]
  /\ Goto(p, "close")
  /\ UNCHANGED <<order, drift, outcome, journalLock, refLock, workspace, repository, host, history, faults, moves>>

CompleteFails(p) ==
  LET o == order[p] IN
  /\ pc[p] = "complete"
  /\ \/ Fault /\ journal' \in {journal, [journal EXCEPT ![o].completion = outcome[p]]}
     \/ journal[o].completion \notin {"none", outcome[p]} /\ UNCHANGED <<journal, faults>>
  /\ Decide(p, "recovery", "close")
  /\ UNCHANGED <<order, drift, journalLock, refLock, workspace, repository, host, history, moves>>

\* close; a lock that cannot be removed stays with a live owner.
Close(p) ==
  LET o == order[p] IN
  /\ pc[p] = "close"
  /\ \/ journalLock' = [journalLock EXCEPT ![o] = "none"] /\ UNCHANGED faults
     \/ Fault /\ UNCHANGED journalLock
  /\ answers' = [answers EXCEPT ![o] = @ \cup ({outcome[p]} \cap Answers)]
  /\ IF outcome[p] = "integrated" THEN Goto(p, "proof") /\ UNCHANGED <<order, drift, outcome>>
     ELSE Leave(p)
  /\ UNCHANGED <<journal, refLock, workspace, repository, host, entered, moves>>

-----------------------------------------------------------------------------
(* The orchestrator's record of the integration, faults and the repository. *)

\* The proof carries the time of this execution: one that an earlier execution
\* left differs from it, and the put of a first revision is refused.
PutProof(p) ==
  LET o == order[p] IN
  /\ pc[p] = "proof" /\ proofs' = proofs \cup {o}
  /\ IF o \in proofs THEN Leave(p) ELSE Goto(p, "record") /\ UNCHANGED <<order, drift, outcome>>
  /\ UNCHANGED <<journal, journalLock, refLock, workspace, repository, integrated, history,
                 faults, moves>>

RecordIntegrated(p) ==
  LET o == order[p] IN
  /\ pc[p] = "record" /\ integrated' = integrated \cup {o} /\ Leave(p)
  /\ UNCHANGED <<journal, journalLock, refLock, workspace, repository, proofs, history,
                 faults, moves>>

\* Only the locks and files of a process outlive it; its locks are abandoned.
Crash(p) ==
  /\ Fault
  /\ pc[p] # "idle" \/ refLock = p \/ \E o \in Orders : journalLock[o] = p
  /\ Leave(p)
  /\ refLock' = IF refLock = p THEN "dead" ELSE refLock
  /\ journalLock' = [o \in Orders |-> IF journalLock[o] = p THEN "dead" ELSE journalLock[o]]
  /\ UNCHANGED <<journal, workspace, repository, host, history, moves>>

\* Somebody else commits on the target, resets it to a commit it has had, or
\* deletes it.
Move ==
  /\ moves < MaxMoves /\ moves' = moves + 1
  /\ head' \in {"base", "other", "missing"} \cup {o \in Orders : entered[o] > 0}
  /\ head' # head
  /\ UNCHANGED <<process, journal, journalLock, refLock, workspace, pins, host, history, faults>>

Step(p) ==
  \/ Open(p) \/ OpenTimesOut(p) \/ Replay(p) \/ Recover(p)
  \/ Create(p) \/ Passes(p) \/ (\E f \in Findings : Repairable(p, f)) \/ Dispose(p)
  \/ Prepare(p) \/ Lock(p) \/ LockIsHeld(p) \/ Look(p) \/ Pin(p) \/ Reread(p) \/ Cas(p)
  \/ Unpin(p) \/ Unlock(p) \/ Complete(p) \/ Close(p) \/ PutProof(p) \/ RecordIntegrated(p)

Next ==
  \/ \E p \in Procs :
       \/ (\E o \in Orders : Execute(p, o)) \/ Step(p) \/ Crash(p)
       \/ Interrupted(p) \/ Fatal(p) \/ DisposeFails(p) \/ PrepareFails(p)
       \/ CasUnknown(p) \/ CommitFails(p) \/ UnlockFails(p) \/ CompleteFails(p)
  \/ Move

Spec == Init /\ [][Next]_vars

-----------------------------------------------------------------------------
(* Properties. *)

\* Whatever crashes, is executed again or is moved by others, an order's
\* commit is put into the target at most once (pipeline.ts:249-280,
\* test/unit/coding-single-committer.test.ts:449).
OncePerOrder == \A o \in Orders : entered[o] <= 1

\* The target never holds a commit whose intent is not durable: after a crash
\* at any step the next execution knows that it may have happened
\* (pipeline.ts:348-360).
IntentFirst == \A o \in Orders : entered[o] > 0 => journal[o].prepared

\* A commit enters the target once, and recorded.
EntersOnce == OncePerOrder /\ IntentFirst

\* All executions of one order give the same answer, the answer "integrated"
\* only for a commit that was in the target (recovery.ts:41-70), and "conflict"
\* only with the verified source commit pinned (single-committer.ts:99-131).
TruthfulAnswers ==
  \A o \in Orders :
    /\ answers[o] # Answers
    /\ "integrated" \in answers[o] \cup {journal[o].completion} => entered[o] > 0
    /\ "conflict" \in answers[o] \cup {journal[o].completion} => o \in pins

\* No execution, however often the host asks, starts an attempt on an order
\* that failed in the same way before, has used up its attempts, or may have
\* been integrated (pipeline.ts:240-292, 425-436).
StopsForGood ==
  [][\A p \in Procs : pc[p] # "work" /\ pc'[p] = "work" =>
       ~journal[order[p]].prepared /\ ~Exhausted(order[p])]_vars

\* To the host the pipeline is one integration per order, whatever it takes:
\* one landing behind one intent, one verdict, answers that repeat it, and a
\* record that rests on them (pipeline.ts:249-457, orchestrator.ts:2929-3413).
Integration == INSTANCE IntegrateOnce WITH
                 intended <- {o \in Orders : journal[o].prepared}, landings <- entered,
                 verdict <- [o \in Orders |-> journal[o].completion], recorded <- integrated
IntegratesOnce == Integration!Spec

\* The run can record an integration its pipeline has answered: the proof it
\* puts meets no proof that a dead execution left behind
\* (test/unit/swarm-coding-runtime.test.ts:316).
ProofAccepted ==
  \A p \in Procs : pc[p] = "proof" /\ order[p] \in proofs =>
    \E q \in Procs : pc[q] = "record" /\ order[q] = order[p]
=============================================================================
