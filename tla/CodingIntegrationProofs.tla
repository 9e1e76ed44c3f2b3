----------------------- MODULE CodingIntegrationProofs -----------------------
(***************************************************************************)
(* Proofs about CodingIntegration for every set of processes and orders    *)
(* and every bound.  An order belongs to the holder of its journal lock    *)
(* (OwnerInv), what the journal says bounds what may still happen to the   *)
(* order (JournalInv), and each point of an execution knows how far the    *)
(* order has got (StageInv).  The lock of the target ref is not needed: an *)
(* order's commit is swapped in against the base at most once because its  *)
(* intent is.                                                              *)
(***************************************************************************)
EXTENDS CodingIntegration, SequenceTheorems, TLAPS

\* The journal lock: who works on an order owns it, alone.
OwnerInv ==
  \A p \in Procs :
    /\ pc[p] # "idle" => order[p] \in Orders
    /\ pc[p] \in Journaling => journalLock[order[p]] = p

\* What an execution knows of its order at each point.
StageOk(p) ==
  LET o == order[p] IN
  /\ pc[p] \in {"create", "work"} => ~journal[o].prepared /\ ~Exhausted(o)
  /\ pc[p] = "prepare" => ~journal[o].prepared
  /\ pc[p] = "dispose" /\ outcome[p] = "repair" => ~journal[o].prepared
  /\ pc[p] \in {"lock", "look", "pin", "reread", "cas"} => entered[o] = 0
  /\ pc[p] \in {"lock", "look", "pin", "reread", "cas", "unpin", "unlock"} =>
       journal[o].prepared /\ journal[o].completion = "none"
  /\ pc[p] \in {"reread", "cas"} => o \in pins
  /\ pc[p] = "unpin" => outcome[p] # "conflict"
  /\ pc[p] \in {"unpin", "unlock"} => outcome[p] # "repair"
  /\ pc[p] \in {"unpin", "unlock", "dispose", "complete"} =>
       /\ outcome[p] = "integrated" => entered[o] > 0
       /\ outcome[p] = "conflict" => o \in pins
  /\ pc[p] \in {"dispose", "complete"} /\ outcome[p] \in Answers =>
       journal[o].prepared /\ journal[o].completion \in {"none", outcome[p]}
  /\ pc[p] = "complete" => outcome[p] \in Answers
  /\ pc[p] = "close" /\ outcome[p] \in Answers => journal[o].completion = outcome[p]
StageInv == \A p \in Procs : StageOk(p)

\* What the journal of an order says, for ever.
JournalOk(o) ==
  /\ journal[o].completion # "none" => journal[o].prepared
  /\ \A answer \in answers[o] : answer = journal[o].completion
  /\ journal[o].completion = "integrated" => entered[o] > 0
  /\ journal[o].completion = "conflict" => o \in pins
  /\ entered[o] <= 1
  /\ entered[o] > 0 => journal[o].prepared
JournalInv == \A o \in Orders : JournalOk(o)

\* The target holds only commits that have entered it.
HeadInv == head \in Orders => entered[head] > 0

IInv == TypeOK /\ OwnerInv /\ StageInv /\ JournalInv /\ HeadInv

-----------------------------------------------------------------------------
(* Types. *)

JournalTypes == [failures : Seq(Findings), cleaned : 0..MaxAttempts,
                 prepared : BOOLEAN, completion : Answers \cup {"none"}]

\* The steps of an execution, by what they do to the order's journal.
Waits(p) ==    \* nothing of the order changes
  \/ (\E o \in Orders : Execute(p, o)) \/ Open(p) \/ OpenTimesOut(p)
  \/ Recover(p) \/ Interrupted(p) \/ Create(p) \/ Passes(p) \/ DisposeFails(p)
  \/ Lock(p) \/ LockIsHeld(p) \/ Look(p) \/ Reread(p) \/ Unlock(p) \/ UnlockFails(p)
  \/ PutProof(p) \/ RecordIntegrated(p) \/ Crash(p)
Writes(p) ==   \* the journal of the order
  \/ Replay(p) \/ (\E f \in Findings : Repairable(p, f)) \/ Fatal(p) \/ Dispose(p)
  \/ Prepare(p) \/ PrepareFails(p) \/ Complete(p) \/ CompleteFails(p)
Commits(p) ==  \* the repository, or what was answered
  \/ Pin(p) \/ Cas(p) \/ CasUnknown(p) \/ CommitFails(p) \/ Unpin(p) \/ Close(p)
ProcStep(p) == Waits(p) \/ Writes(p) \/ Commits(p)

LEMMA NextCases == Next <=> Move \/ \E p \in Procs : ProcStep(p)
BY DEF Next, Step, ProcStep, Waits, Writes, Commits

\* The failures of an order are a sequence within the attempts.
LEMMA FailuresTyped ==
  ASSUME TypeOK, NEW o \in Orders
  PROVE  /\ Failures(o) \in Seq(Findings) /\ Len(Failures(o)) \in 0..MaxAttempts
         /\ journal[o] \in JournalTypes
         /\ \A f \in Findings : /\ Append(Failures(o), f) \in Seq(Findings)
                                /\ Len(Append(Failures(o), f)) = Len(Failures(o)) + 1
<1>1. journal[o] \in JournalTypes /\ Len(journal[o].failures) <= MaxAttempts
  BY DEF TypeOK, JournalTypes
<1>2. journal[o].failures \in Seq(Findings)
  BY <1>1 DEF JournalTypes
<1> QED
  BY <1>1, <1>2, CodingAssumption DEF Failures

\* The programs' own state.
ProcessTyped ==
  /\ pc \in [Procs -> Labels] /\ order \in [Procs -> Orders \cup {"none"}]
  /\ drift \subseteq Procs /\ outcome \in [Procs -> Outcomes]

\* Everything but the programs' own state and the journal.
PlacesTyped ==
  /\ journalLock \in [Orders -> Procs \cup {"none", "dead"}]
  /\ refLock \in Procs \cup {"none", "dead"}
  /\ workspace \subseteq Orders /\ head \in Orders \cup {"base", "other", "missing"}
  /\ pins \subseteq Orders /\ proofs \subseteq Orders /\ integrated \subseteq Orders
  /\ entered \in [Orders -> Nat] /\ answers \in [Orders -> SUBSET Answers]
  /\ faults \in 0..MaxFaults /\ moves \in 0..MaxMoves

JournalsTyped ==
  /\ journal \in [Orders -> JournalTypes]
  /\ \A o \in Orders : Len(journal[o].failures) <= MaxAttempts

LEMMA TypeParts == TypeOK <=> ProcessTyped /\ PlacesTyped /\ JournalsTyped
BY DEF TypeOK, ProcessTyped, PlacesTyped, JournalsTyped, JournalTypes

LEMMA WaitsTyped ==
  ASSUME TypeOK, OwnerInv, NEW p \in Procs, Waits(p)
  PROVE  TypeOK'
<1>0. ProcessTyped /\ PlacesTyped /\ JournalsTyped /\ (pc[p] # "idle" => order[p] \in Orders)
  BY TypeParts DEF OwnerInv
<1>1. UNCHANGED <<journal, head, pins, entered, answers, moves>>
  BY DEF Waits, Execute, Open, OpenTimesOut, Recover, Interrupted, Create, Passes, DisposeFails,
     Lock, LockIsHeld, Look, Reread, Unlock, UnlockFails, PutProof, RecordIntegrated, Crash,
     repository, history
<1>2. ProcessTyped'
  <2>1. ASSUME NEW o \in Orders, Execute(p, o) PROVE ProcessTyped'
    BY <1>0, <2>1 DEF ProcessTyped, Execute, Goto, Labels
  <2>2. CASE OpenTimesOut(p) \/ Crash(p) \/ PutProof(p) \/ RecordIntegrated(p)
    <3>1. CASE Leave(p)
      BY <1>0, <3>1 DEF ProcessTyped, Leave, Decide, Goto, Labels, Outcomes
    <3>2. CASE Goto(p, "record") /\ UNCHANGED <<order, drift, outcome>>
      BY <1>0, <3>2 DEF ProcessTyped, Goto, Labels
    <3> QED
      BY <2>2, <3>1, <3>2 DEF OpenTimesOut, Crash, PutProof, RecordIntegrated
  <2>3. CASE Open(p) \/ Create(p) \/ Passes(p) \/ Lock(p) \/ Look(p) \/ Unlock(p)
    BY <1>0, <2>3 DEF ProcessTyped, Open, Create, Passes, Lock, Look, Unlock, Goto, Labels
  <2>4. CASE Recover(p) \/ Interrupted(p) \/ LockIsHeld(p)
    BY <1>0, <2>4 DEF ProcessTyped, Recover, Interrupted, LockIsHeld, Decide, Goto, Labels, Outcomes, Answers
  <2>5. CASE DisposeFails(p)
    <3>1. outcome[p] \in Outcomes
      BY <1>0 DEF ProcessTyped
    <3> QED
      BY <1>0, <2>5, <3>1 DEF ProcessTyped, DisposeFails, Decide, Goto, Labels, Outcomes
  <2>6. CASE Reread(p) \/ UnlockFails(p)
    BY <1>0, <2>6 DEF ProcessTyped, Reread, UnlockFails, Decide, Goto, Labels, Outcomes, Answers
  <2> QED
    BY <2>1, <2>2, <2>3, <2>4, <2>5, <2>6 DEF Waits
<1>3. faults' \in 0..MaxFaults
  BY <1>0, CodingAssumption DEF PlacesTyped, Fault, Waits, Execute, Open, OpenTimesOut, Recover, Interrupted, Create,
     Passes, DisposeFails, Lock, LockIsHeld, Look, Reread, Unlock, UnlockFails, PutProof,
     RecordIntegrated, Crash
<1>4. journalLock' \in [Orders -> Procs \cup {"none", "dead"}] /\ refLock' \in Procs \cup {"none", "dead"}
  BY <1>0 DEF PlacesTyped, Waits, Execute, Open, OpenTimesOut, Recover, Interrupted, Create, Passes, DisposeFails,
     Lock, LockIsHeld, Look, Reread, Unlock, UnlockFails, PutProof, RecordIntegrated, Crash
<1>5. workspace' \subseteq Orders /\ proofs' \subseteq Orders /\ integrated' \subseteq Orders
  BY <1>0 DEF PlacesTyped, Waits, Execute, Open, OpenTimesOut, Recover, Interrupted, Create, Passes, DisposeFails,
     Lock, LockIsHeld, Look, Reread, Unlock, UnlockFails, PutProof, RecordIntegrated, Crash, host
<1>6. PlacesTyped' /\ JournalsTyped'
  BY <1>0, <1>1, <1>3, <1>4, <1>5 DEF PlacesTyped, JournalsTyped
<1> QED
  BY <1>2, <1>6, TypeParts, PTL

\* A written journal differs from the old one in one order's record.
Rewritten(o, r) ==
  /\ r \in JournalTypes /\ Len(r.failures) <= MaxAttempts
  /\ journal' = [journal EXCEPT ![o] = r]

\* What each kind of record leaves behind.
LEMMA RecordsTyped ==
  ASSUME TypeOK, NEW o \in Orders
  PROVE  /\ journal' = journal => Rewritten(o, journal[o])
         /\ journal' = [journal EXCEPT ![o].cleaned = Len(Failures(o))] =>
              Rewritten(o, [journal[o] EXCEPT !.cleaned = Len(Failures(o))])
         /\ journal' = [journal EXCEPT ![o].prepared = TRUE] =>
              Rewritten(o, [journal[o] EXCEPT !.prepared = TRUE])
         /\ \A c \in Answers : journal' = [journal EXCEPT ![o].completion = c] =>
              Rewritten(o, [journal[o] EXCEPT !.completion = c])
         /\ \A f \in Findings :
              journal' = [journal EXCEPT ![o].failures = Append(@, f)] /\ Len(Failures(o)) < MaxAttempts =>
                Rewritten(o, [journal[o] EXCEPT !.failures = Append(@, f)])
<1>1. /\ journal \in [Orders -> JournalTypes] /\ journal[o] \in JournalTypes
      /\ Len(journal[o].failures) <= MaxAttempts /\ Len(Failures(o)) \in 0..MaxAttempts
  BY FailuresTyped, TypeParts DEF JournalsTyped
<1>2. ASSUME journal' = journal PROVE Rewritten(o, journal[o])
  BY <1>1, <1>2 DEF Rewritten
<1>3. [journal[o] EXCEPT !.cleaned = Len(Failures(o))] \in JournalTypes
  BY <1>1 DEF JournalTypes
<1>4. [journal[o] EXCEPT !.prepared = TRUE] \in JournalTypes
  BY <1>1 DEF JournalTypes
<1>5. \A c \in Answers : [journal[o] EXCEPT !.completion = c] \in JournalTypes
  BY <1>1 DEF JournalTypes
<1>6. ASSUME NEW f \in Findings, journal' = [journal EXCEPT ![o].failures = Append(@, f)],
             Len(Failures(o)) < MaxAttempts
      PROVE  Rewritten(o, [journal[o] EXCEPT !.failures = Append(@, f)])
  <2>1. Append(journal[o].failures, f) \in Seq(Findings) /\ Len(Append(journal[o].failures, f)) = Len(journal[o].failures) + 1
    BY FailuresTyped DEF Failures
  <2>2. [journal[o] EXCEPT !.failures = Append(@, f)] \in JournalTypes
    BY <1>1, <2>1 DEF JournalTypes
  <2>3. [journal[o] EXCEPT !.failures = Append(@, f)].failures = Append(journal[o].failures, f)
    BY <1>1 DEF JournalTypes
  <2>4. Len(Append(journal[o].failures, f)) <= MaxAttempts
    BY <1>1, <1>6, <2>1, CodingAssumption DEF Failures
  <2> QED
    BY <1>1, <1>6, <2>2, <2>3, <2>4 DEF Rewritten
<1>7. /\ [journal[o] EXCEPT !.cleaned = Len(Failures(o))].failures = journal[o].failures
      /\ [journal[o] EXCEPT !.prepared = TRUE].failures = journal[o].failures
      /\ \A c \in Answers : [journal[o] EXCEPT !.completion = c].failures = journal[o].failures
  BY <1>1 DEF JournalTypes
<1>8. /\ journal' = [journal EXCEPT ![o].cleaned = Len(Failures(o))] =>
           Rewritten(o, [journal[o] EXCEPT !.cleaned = Len(Failures(o))])
      /\ journal' = [journal EXCEPT ![o].prepared = TRUE] =>
           Rewritten(o, [journal[o] EXCEPT !.prepared = TRUE])
  BY <1>1, <1>3, <1>4, <1>7 DEF Rewritten
<1>9. \A c \in Answers : journal' = [journal EXCEPT ![o].completion = c] =>
         Rewritten(o, [journal[o] EXCEPT !.completion = c])
  BY <1>1, <1>5, <1>7 DEF Rewritten
<1> QED
  BY <1>2, <1>6, <1>8, <1>9

\* A step that writes leaves a typed record of its own order, and no other.
LEMMA WritesARecord ==
  ASSUME TypeOK, OwnerInv, StageInv, NEW p \in Procs, Writes(p)
  PROVE  order[p] \in Orders /\ \E r \in JournalTypes : Rewritten(order[p], r)
<1> DEFINE o == order[p]
<1>0. pc[p] # "idle"
  BY DEF Writes, Replay, Repairable, Fatal, Dispose, Prepare, PrepareFails, Complete, CompleteFails
<1>1. o \in Orders
  BY <1>0 DEF OwnerInv
<1>2. pc[p] = "work" => Len(Failures(o)) < MaxAttempts
  BY <1>1, FailuresTyped, CodingAssumption DEF StageInv, StageOk, Exhausted
<1>3. pc[p] = "complete" => outcome[p] \in Answers
  BY DEF StageInv, StageOk
<1> HIDE DEF o
<1>4. \/ journal' = journal
      \/ journal' = [journal EXCEPT ![o].cleaned = Len(Failures(o))]
      \/ journal' = [journal EXCEPT ![o].prepared = TRUE]
      \/ \E c \in Answers : journal' = [journal EXCEPT ![o].completion = c]
      \/ \E f \in Findings : /\ journal' = [journal EXCEPT ![o].failures = Append(@, f)]
                              /\ Len(Failures(o)) < MaxAttempts
  <2>1. CASE \E f \in Findings : Repairable(p, f)
    BY <2>1, <1>2 DEF Repairable, o
  <2>2. CASE Fatal(p)
    BY <2>2, <1>2 DEF Fatal, o
  <2>3. CASE Replay(p) \/ Dispose(p)
    BY <2>3 DEF Replay, Dispose, o
  <2>4. CASE Prepare(p) \/ PrepareFails(p)
    BY <2>4 DEF Prepare, PrepareFails, o
  <2>5. CASE Complete(p) \/ CompleteFails(p)
    BY <2>5, <1>3 DEF Complete, CompleteFails, o
  <2> QED
    BY <2>1, <2>2, <2>3, <2>4, <2>5 DEF Writes
<1>5. \E r : Rewritten(o, r)
  BY <1>1, <1>4, RecordsTyped
<1> QED
  BY <1>1, <1>5 DEF Rewritten, o

LEMMA WritesTyped ==
  ASSUME TypeOK, OwnerInv, StageInv, NEW p \in Procs, Writes(p)
  PROVE  TypeOK'
<1>0. ProcessTyped /\ PlacesTyped /\ JournalsTyped
  BY TypeParts
<1>1. order[p] \in Orders
  BY WritesARecord
<1>2. PICK r \in JournalTypes : Rewritten(order[p], r)
  BY WritesARecord
<1>3. journal' \in [Orders -> JournalTypes] /\ \A o \in Orders : Len(journal'[o].failures) <= MaxAttempts
  BY <1>0, <1>1, <1>2 DEF JournalsTyped, Rewritten
<1>4. ProcessTyped'
  <2>1. UNCHANGED <<order, drift>>
    BY DEF Writes, Replay, Repairable, Fatal, Dispose, Prepare, PrepareFails, Complete, CompleteFails
  <2>2. CASE Replay(p) \/ Fatal(p) \/ PrepareFails(p) \/ CompleteFails(p) \/ (\E f \in Findings : Repairable(p, f))
    <3>1. \E a \in Outcomes, l \in Labels : Decide(p, a, l)
      BY <2>2 DEF Replay, Repairable, Fatal, PrepareFails, CompleteFails, Outcomes, Labels
    <3> QED
      BY <1>0, <2>1, <3>1 DEF ProcessTyped, Decide, Goto
  <2>3. CASE Dispose(p)
    <3>1. (\E a \in Outcomes, l \in Labels : Decide(p, a, l)) \/ ((\E l \in Labels : Goto(p, l)) /\ UNCHANGED outcome)
      BY <2>3 DEF Dispose, Outcomes, Labels
    <3> QED
      BY <1>0, <2>1, <3>1 DEF ProcessTyped, Decide, Goto
  <2>4. CASE Prepare(p) \/ Complete(p)
    BY <1>0, <2>4 DEF ProcessTyped, Prepare, Complete, Goto, Labels
  <2> QED
    BY <2>2, <2>3, <2>4 DEF Writes
<1>5. /\ UNCHANGED <<journalLock, refLock, head, pins, proofs, integrated, entered, answers, moves>>
      /\ faults' \in 0..MaxFaults
  <2>1. UNCHANGED <<journalLock, refLock, repository, host, history, moves>> /\ (UNCHANGED faults \/ Fault)
    BY DEF Writes, Replay, Repairable, Fatal, Dispose, Prepare, PrepareFails, Complete, CompleteFails
  <2> QED
    BY <1>0, <2>1, CodingAssumption DEF PlacesTyped, Fault, repository, host, history
<1>6. workspace' \subseteq Orders
  BY <1>0 DEF PlacesTyped, Writes, Replay, Repairable, Fatal, Dispose, Prepare, PrepareFails, Complete, CompleteFails
<1>7. PlacesTyped' /\ JournalsTyped'
  BY <1>0, <1>3, <1>5, <1>6 DEF PlacesTyped, JournalsTyped
<1> QED
  BY <1>4, <1>7, TypeParts, PTL

LEMMA CommitsTyped ==
  ASSUME TypeOK, OwnerInv, NEW p \in Procs, Commits(p)
  PROVE  TypeOK'
<1>0. ProcessTyped /\ PlacesTyped /\ JournalsTyped
  BY TypeParts
<1>1. order[p] \in Orders
  BY DEF OwnerInv, Commits, Pin, Cas, CasUnknown, CommitFails, Unpin, Close
<1>2. ProcessTyped'
  <2>1. CASE Pin(p) \/ Cas(p) \/ CasUnknown(p) \/ CommitFails(p) \/ Unpin(p)
    <3>1. UNCHANGED <<order, drift>>
      BY <2>1 DEF Pin, Cas, CasUnknown, CommitFails, Unpin
    <3>2. (\E a \in Outcomes, l \in Labels : Decide(p, a, l)) \/ ((\E l \in Labels : Goto(p, l)) /\ UNCHANGED outcome)
      BY <2>1 DEF Pin, Cas, CasUnknown, CommitFails, Unpin, Outcomes, Answers, Labels
    <3> QED
      BY <1>0, <3>1, <3>2 DEF ProcessTyped, Decide, Goto
  <2>2. CASE Close(p)
    <3>1. CASE Leave(p)
      BY <1>0, <3>1 DEF ProcessTyped, Leave, Decide, Goto, Labels, Outcomes
    <3>2. CASE Goto(p, "proof") /\ UNCHANGED <<order, drift, outcome>>
      BY <1>0, <3>2 DEF ProcessTyped, Goto, Labels
    <3> QED
      BY <2>2, <3>1, <3>2 DEF Close
  <2> QED
    BY <2>1, <2>2 DEF Commits
<1>3. /\ UNCHANGED <<journal, refLock, workspace, proofs, integrated, moves>>
      /\ faults' \in 0..MaxFaults
  BY <1>0, CodingAssumption DEF PlacesTyped, Fault, Commits, Pin, Cas, CasUnknown, CommitFails, Unpin, Close, repository, host, history
<1>4. pins' \subseteq Orders
  BY <1>0, <1>1 DEF PlacesTyped, Commits, Pin, Cas, CasUnknown, CommitFails, Unpin, Close, repository
<1>5. head' \in Orders \cup {"base", "other", "missing"} /\ entered' \in [Orders -> Nat]
  <2>1. Advance(order[p]) \/ UNCHANGED <<head, entered>>
    BY DEF Commits, Pin, Cas, CasUnknown, CommitFails, Unpin, Close, repository, history
  <2> QED
    BY <1>0, <1>1, <2>1 DEF PlacesTyped, Advance
<1>6. journalLock' \in [Orders -> Procs \cup {"none", "dead"}] /\ answers' \in [Orders -> SUBSET Answers]
  BY <1>0, <1>1 DEF PlacesTyped, Commits, Pin, Cas, CasUnknown, CommitFails, Unpin, Close, history
<1>7. PlacesTyped' /\ JournalsTyped'
  BY <1>0, <1>3, <1>4, <1>5, <1>6 DEF PlacesTyped, JournalsTyped
<1> QED
  BY <1>2, <1>7, TypeParts, PTL

LEMMA MoveTyped == TypeOK /\ Move => TypeOK'
BY CodingAssumption DEF TypeOK, Move, process, host, history

-----------------------------------------------------------------------------
(* What a step of one process leaves alone. *)

Kept(o) ==
  /\ journal'[o] = journal[o] /\ entered'[o] = entered[o] /\ answers'[o] = answers[o]
  /\ o \in pins' <=> o \in pins

\* A step of a process touches no other process, and no order but the one it holds.
LEMMA StepFrame ==
  ASSUME TypeOK, OwnerInv, StageInv, NEW p \in Procs, ProcStep(p)
  PROVE  /\ \A q \in Procs \ {p} : pc'[q] = pc[q] /\ order'[q] = order[q] /\ outcome'[q] = outcome[q]
         /\ \A o \in Orders : Kept(o) \/ (pc[p] \in Journaling /\ o = order[p])
<1>0. ProcessTyped /\ PlacesTyped /\ JournalsTyped
  BY TypeParts
<1>1. CASE Waits(p)
  <2>1. \A o \in Orders : Kept(o)
    BY <1>1 DEF Kept, Waits, Execute, Open, OpenTimesOut, Recover, Interrupted, Create, Passes, DisposeFails,
     Lock, LockIsHeld, Look, Reread, Unlock, UnlockFails, PutProof, RecordIntegrated, Crash,
     repository, history
  <2>2. \/ (UNCHANGED <<order, outcome>> /\ \E l : Goto(p, l))
        \/ (UNCHANGED order /\ \E a, l : Decide(p, a, l))
        \/ Leave(p)
        \/ (UNCHANGED outcome /\ \E o, l : Goto(p, l) /\ order' = [order EXCEPT ![p] = o])
    <3>1. CASE \E o \in Orders : Execute(p, o)
      BY <3>1 DEF Execute
    <3>2. CASE OpenTimesOut(p) \/ Crash(p) \/ PutProof(p) \/ RecordIntegrated(p)
      BY <3>2 DEF OpenTimesOut, Crash, PutProof, RecordIntegrated
    <3>3. CASE Open(p) \/ Create(p) \/ Passes(p) \/ Lock(p) \/ Look(p) \/ Unlock(p)
      <4>1. UNCHANGED <<order, outcome>> /\ Goto(p, pc'[p])
        BY <1>0, <3>3 DEF ProcessTyped, Open, Create, Passes, Lock, Look, Unlock, Goto
      <4> QED
        BY <4>1
    <3>4. CASE Recover(p) \/ Interrupted(p) \/ LockIsHeld(p) \/ DisposeFails(p) \/ UnlockFails(p)
      BY <3>4 DEF Recover, Interrupted, LockIsHeld, DisposeFails, UnlockFails
    <3>5. CASE Reread(p)
      BY <3>5 DEF Reread, Decide
    <3> QED
      BY <1>1, <3>1, <3>2, <3>3, <3>4, <3>5 DEF Waits
  <2> QED
    BY <1>0, <2>1, <2>2 DEF ProcessTyped, Leave, Decide, Goto
<1>2. CASE Writes(p)
  <2>1. /\ UNCHANGED <<order, entered, answers, pins>> /\ pc[p] \in Journaling
        /\ UNCHANGED outcome \/ \E a : outcome' = [outcome EXCEPT ![p] = a]
        /\ \E l : Goto(p, l)
    <3>1. CASE Replay(p) \/ Dispose(p)
      BY <3>1 DEF Replay, Dispose, Decide, repository, history, Journaling, Labels
    <3>2. CASE Fatal(p) \/ (\E f \in Findings : Repairable(p, f))
      BY <3>2 DEF Fatal, Repairable, Decide, repository, history, Journaling, Labels
    <3>3. CASE Prepare(p) \/ PrepareFails(p) \/ Complete(p) \/ CompleteFails(p)
      BY <3>3 DEF Prepare, PrepareFails, Complete, CompleteFails, Decide, repository, history, Journaling, Labels
    <3> QED
      BY <1>2, <3>1, <3>2, <3>3 DEF Writes
  <2>2. order[p] \in Orders /\ \E r \in JournalTypes : Rewritten(order[p], r)
    BY <1>2, WritesARecord
  <2>3. \A o \in Orders : o # order[p] => journal'[o] = journal[o]
    BY <1>0, <2>2 DEF JournalsTyped, Rewritten
  <2> QED
    BY <1>0, <2>1, <2>3 DEF Kept, ProcessTyped, Goto
<1>3. CASE Commits(p)
  <2>1. order[p] \in Orders /\ pc[p] \in Journaling /\ UNCHANGED journal
    BY <1>3 DEF OwnerInv, Commits, Pin, Cas, CasUnknown, CommitFails, Unpin, Close, Journaling, Labels
  <2>2. \A o \in Orders : o # order[p] => entered'[o] = entered[o]
    <3>1. Advance(order[p]) \/ UNCHANGED entered
      BY <1>3 DEF Commits, Pin, Cas, CasUnknown, CommitFails, Unpin, Close, history
    <3> QED
      BY <1>0, <3>1 DEF PlacesTyped, Advance
  <2>3. \A o \in Orders : o # order[p] => answers'[o] = answers[o]
    BY <1>0, <1>3 DEF PlacesTyped, Commits, Pin, Cas, CasUnknown, CommitFails, Unpin, Close, history
  <2>4. \A o \in Orders : o # order[p] => (o \in pins' <=> o \in pins)
    BY <1>3 DEF Commits, Pin, Cas, CasUnknown, CommitFails, Unpin, Close, repository
  <2>5. \/ (UNCHANGED order /\ (UNCHANGED outcome \/ \E a : outcome' = [outcome EXCEPT ![p] = a]) /\ \E l : Goto(p, l))
        \/ Leave(p)
    BY <1>3 DEF Commits, Pin, Cas, CasUnknown, CommitFails, Unpin, Close, Decide
  <2>6. \A q \in Procs \ {p} : pc'[q] = pc[q] /\ order'[q] = order[q] /\ outcome'[q] = outcome[q]
    BY <1>0, <2>5 DEF ProcessTyped, Leave, Decide, Goto
  <2> QED
    BY <2>1, <2>2, <2>3, <2>4, <2>6 DEF Kept
<1> QED
  BY <1>1, <1>2, <1>3 DEF ProcStep

\* What the other processes know of their orders stays true: they hold others.
LEMMA OthersStage ==
  ASSUME TypeOK, OwnerInv, StageInv, NEW p \in Procs, ProcStep(p), NEW q \in Procs \ {p}
  PROVE  StageOk(q)'
<1>1. pc'[q] = pc[q] /\ order'[q] = order[q] /\ outcome'[q] = outcome[q]
  BY StepFrame
<1>2. CASE pc[q] \notin Journaling
  BY <1>1, <1>2 DEF StageOk, Journaling, Labels
<1>3. CASE pc[q] \in Journaling
  <2>1. order[q] \in Orders /\ (pc[p] \in Journaling => order[p] # order[q])
    BY <1>3 DEF OwnerInv, Journaling
  <2>2. Kept(order[q])
    BY <2>1, StepFrame
  <2>3. StageOk(q)
    BY DEF StageInv
  <2> QED
    BY <1>1, <2>2, <2>3 DEF StageOk, Kept, Exhausted, Failures, Repeated
<1> QED
  BY <1>2, <1>3

\* What the journal says of an order nobody touches stays true.
LEMMA KeptJournal ==
  ASSUME NEW o \in Orders, JournalOk(o), Kept(o)
  PROVE  JournalOk(o)'
BY DEF JournalOk, Kept

\* Where a process gets to.
LEMMA Landing ==
  ASSUME TypeOK, NEW p \in Procs
  PROVE  /\ \A l : Goto(p, l) => pc'[p] = l
         /\ \A a, l : Decide(p, a, l) => pc'[p] = l /\ outcome'[p] = a
         /\ Leave(p) => pc'[p] = "idle"
BY DEF TypeOK, Goto, Decide, Leave

\* The process itself: where it gets to, it knows what that place says.
LEMMA OwnWaits ==
  ASSUME IInv, NEW p \in Procs, Waits(p)
  PROVE  StageOk(p)'
<1>0. TypeOK /\ StageOk(p) /\ (pc[p] # "idle" => order[p] \in Orders /\ JournalOk(order[p])) /\ HeadInv
  BY DEF IInv, OwnerInv, StageInv, JournalInv
<1>1. UNCHANGED <<journal, pins, entered>>
  BY DEF Waits, Execute, Open, OpenTimesOut, Recover, Interrupted, Create, Passes, DisposeFails,
     Lock, LockIsHeld, Look, Reread, Unlock, UnlockFails, PutProof, RecordIntegrated, Crash,
     repository, history
<1>2. ASSUME pc'[p] \in {"idle", "open", "replay", "recover", "proof", "record"} PROVE StageOk(p)'
  BY <1>2 DEF StageOk
<1>3. CASE (\E o \in Orders : Execute(p, o)) \/ Open(p) \/ OpenTimesOut(p) \/ PutProof(p) \/ RecordIntegrated(p) \/ Crash(p)
  BY <1>0, <1>2, <1>3, Landing DEF Execute, Open, OpenTimesOut, PutProof, RecordIntegrated, Crash
<1>4. CASE Recover(p) \/ Interrupted(p)
  <2>1. order' = order /\ pc[p] # "idle"
    BY <1>4 DEF Recover, Interrupted
  <2>2. \/ pc'[p] = "close" /\ outcome'[p] \in {"recovery", "error"}
        \/ /\ pc'[p] = "complete" /\ outcome'[p] = "integrated" /\ head = order[p]
           /\ journal[order[p]].completion # "conflict"
    BY <1>0, <1>4, Landing DEF Recover, Interrupted
  <2>3. journal[order[p]].completion \in Answers \cup {"none"}
    BY <1>0, <2>1 DEF TypeOK
  <2> QED
    BY <1>0, <1>1, <2>1, <2>2, <2>3 DEF StageOk, JournalOk, HeadInv, Answers
<1>5. CASE Create(p) \/ Passes(p) \/ Lock(p) \/ Look(p) \/ Unlock(p)
  <2>1. UNCHANGED <<order, outcome>>
    BY <1>5 DEF Create, Passes, Lock, Look, Unlock
  <2>2. <<pc[p], pc'[p]>> \in {<<"create", "work">>, <<"work", "prepare">>, <<"lock", "look">>,
                              <<"look", "pin">>, <<"unlock", "dispose">>}
    BY <1>0, <1>5, Landing DEF Create, Passes, Lock, Look, Unlock
  <2> QED
    BY <1>0, <1>1, <2>1, <2>2 DEF StageOk, Exhausted, Failures, Repeated
<1>6. CASE DisposeFails(p)
  <2>1. order' = order /\ pc[p] = "dispose"
    BY <1>6 DEF DisposeFails
  <2>2. \/ pc'[p] = "complete" /\ outcome'[p] = outcome[p] /\ outcome[p] \in Answers
        \/ pc'[p] = "close" /\ outcome'[p] \notin Answers
    BY <1>0, <1>6, Landing DEF DisposeFails, Answers
  <2> QED
    BY <1>0, <1>1, <2>1, <2>2 DEF StageOk
<1>7. CASE LockIsHeld(p) \/ UnlockFails(p)
  <2>1. order' = order /\ pc[p] \in {"lock", "unlock"}
    BY <1>7 DEF LockIsHeld, UnlockFails
  <2>2. /\ pc'[p] = "dispose"
        /\ \/ outcome'[p] = "recovery"
           \/ pc[p] = "unlock" /\ outcome'[p] = "integrated" /\ outcome[p] = "integrated"
    BY <1>0, <1>7, Landing DEF LockIsHeld, UnlockFails
  <2> QED
    BY <1>0, <1>1, <2>1, <2>2 DEF StageOk, Answers
<1>8. CASE Reread(p)
  <2>1. order' = order /\ pc[p] = "reread"
    BY <1>8 DEF Reread
  <2>2. pc'[p] = "cas" \/ (pc'[p] = "unlock" /\ outcome'[p] = "conflict")
    BY <1>0, <1>8, Landing DEF Reread
  <2> QED
    BY <1>0, <1>1, <2>1, <2>2 DEF StageOk
<1> QED
  BY <1>3, <1>4, <1>5, <1>6, <1>7, <1>8 DEF Waits

\* A record written, read back.
LEMMA ReadBack ==
  ASSUME TypeOK, NEW o \in Orders
  PROVE  /\ journal' = [journal EXCEPT ![o].cleaned = Len(Failures(o))] =>
              /\ journal'[o].failures = journal[o].failures /\ journal'[o].prepared = journal[o].prepared
              /\ journal'[o].completion = journal[o].completion
         /\ journal' = [journal EXCEPT ![o].prepared = TRUE] =>
              journal'[o].prepared /\ journal'[o].completion = journal[o].completion
         /\ \A c : journal' = [journal EXCEPT ![o].completion = c] =>
              journal'[o].completion = c /\ journal'[o].prepared = journal[o].prepared
         /\ \A f : journal' = [journal EXCEPT ![o].failures = Append(@, f)] =>
              journal'[o].completion = journal[o].completion /\ journal'[o].prepared = journal[o].prepared
BY DEF TypeOK

LEMMA OwnWrites ==
  ASSUME IInv, NEW p \in Procs, Writes(p), NEW o \in Orders, o = order[p]
  PROVE  StageOk(p)' /\ JournalOk(o)'
<1>0. TypeOK /\ StageOk(p) /\ JournalOk(o)
  BY DEF IInv, StageInv, JournalInv
<1>1. UNCHANGED <<order, pins, entered, answers>>
  BY DEF Writes, Replay, Repairable, Fatal, Dispose, Prepare, PrepareFails, Complete, CompleteFails,
     repository, history
<1>2. CASE Replay(p)
  <2>1. /\ journal'[o].failures = journal[o].failures /\ journal'[o].prepared = journal[o].prepared
        /\ journal'[o].completion = journal[o].completion
    BY <1>0, <1>2, ReadBack DEF Replay
  <2>2. \/ pc'[p] = "close" /\ outcome'[p] = "exhausted"
        \/ pc'[p] = "recover"
        \/ pc'[p] = "create" /\ ~journal[o].prepared /\ ~Exhausted(o)
    BY <1>0, <1>2, Landing DEF Replay, Exhausted
  <2> QED
    BY <1>0, <1>1, <2>1, <2>2 DEF StageOk, JournalOk, Exhausted, Failures, Repeated, Answers
<1>3. CASE Fatal(p) \/ \E f \in Findings : Repairable(p, f)
  <2>1. journal'[o].completion = journal[o].completion /\ journal'[o].prepared = journal[o].prepared
    BY <1>0, <1>3, ReadBack DEF Fatal, Repairable
  <2>2. pc[p] = "work" /\ pc'[p] = "dispose" /\ outcome'[p] \in {"error", "repair"}
    BY <1>0, <1>3, Landing DEF Fatal, Repairable
  <2> QED
    BY <1>0, <1>1, <2>1, <2>2 DEF StageOk, JournalOk, Answers
<1>4. CASE Dispose(p)
  <2>1. CASE outcome[p] = "repair"
    <3>1. /\ journal'[o].failures = journal[o].failures /\ journal'[o].prepared = journal[o].prepared
          /\ journal'[o].completion = journal[o].completion
      BY <1>0, <1>4, <2>1, ReadBack DEF Dispose
    <3>2. /\ pc[p] = "dispose"
          /\ \/ pc'[p] = "close" /\ outcome'[p] = "exhausted"
             \/ pc'[p] = "create" /\ ~Exhausted(o)
      BY <1>0, <1>4, <2>1, Landing DEF Dispose
    <3> QED
      BY <1>0, <1>1, <2>1, <3>1, <3>2 DEF StageOk, JournalOk, Exhausted, Failures, Repeated, Answers
  <2>2. CASE outcome[p] # "repair"
    <3>1. /\ pc[p] = "dispose" /\ UNCHANGED <<outcome, journal>>
          /\ pc'[p] = IF outcome[p] \in Answers THEN "complete" ELSE "close"
      BY <1>0, <1>4, <2>2, Landing DEF Dispose
    <3> QED
      BY <1>0, <1>1, <3>1 DEF StageOk, JournalOk
  <2> QED
    BY <2>1, <2>2
<1>5. CASE Prepare(p)
  <2>1. pc[p] = "prepare" /\ pc'[p] = "lock" /\ ~journal[o].prepared
    BY <1>0, <1>5, Landing DEF Prepare, MayPrepare
  <2>2. journal'[o].prepared /\ journal'[o].completion = journal[o].completion
    BY <1>0, <1>5, ReadBack DEF Prepare
  <2>3. entered[o] \in Nat
    BY <1>0 DEF TypeOK
  <2> QED
    BY <1>0, <1>1, <2>1, <2>2, <2>3 DEF StageOk, JournalOk
<1>6. CASE PrepareFails(p)
  <2>1. pc'[p] = "dispose" /\ outcome'[p] = "error"
    BY <1>0, <1>6, Landing DEF PrepareFails
  <2>2. journal'[o].completion = journal[o].completion /\ (journal[o].prepared => journal'[o].prepared)
    BY <1>0, <1>6, ReadBack DEF PrepareFails
  <2> QED
    BY <1>0, <1>1, <2>1, <2>2 DEF StageOk, JournalOk, Answers
<1>7. CASE Complete(p) \/ CompleteFails(p)
  <2>1. pc[p] = "complete" /\ pc'[p] = "close"
    BY <1>0, <1>7, Landing DEF Complete, CompleteFails
  <2>2. \/ journal' = journal
        \/ journal'[o].completion = outcome[p] /\ journal'[o].prepared = journal[o].prepared
    BY <1>0, <1>7, ReadBack DEF Complete, CompleteFails
  <2>3. /\ CompleteFails(p) => outcome'[p] = "recovery"
        /\ Complete(p) => UNCHANGED outcome /\ journal'[o].completion = outcome[p]
    BY <1>0, ReadBack, Landing DEF Complete, CompleteFails
  <2>4. /\ outcome[p] \in Answers /\ journal[o].prepared /\ journal[o].completion \in {"none", outcome[p]}
        /\ (outcome[p] = "integrated" => entered[o] > 0) /\ (outcome[p] = "conflict" => o \in pins)
    BY <1>0, <2>1 DEF StageOk
  <2>5. answers[o] \subseteq Answers /\ "none" \notin Answers /\ "recovery" \notin Answers
    BY <1>0 DEF TypeOK, Answers
  <2>6. StageOk(p)'
    BY <1>1, <1>7, <2>1, <2>3, <2>5 DEF StageOk
  <2>7. JournalOk(o)'
    BY <1>0, <1>1, <2>2, <2>4, <2>5 DEF JournalOk
  <2> QED
    BY <1>1, <2>6, <2>7
<1> QED
  BY <1>2, <1>3, <1>4, <1>5, <1>6, <1>7 DEF Writes

LEMMA OwnCommits ==
  ASSUME IInv, NEW p \in Procs, Commits(p), NEW o \in Orders, o = order[p]
  PROVE  StageOk(p)' /\ JournalOk(o)'
<1>0. /\ TypeOK /\ StageOk(p) /\ JournalOk(o)
      /\ entered \in [Orders -> Nat] /\ answers[o] \subseteq Answers
  BY DEF IInv, StageInv, JournalInv, TypeOK
<1>1. UNCHANGED journal
  BY DEF Commits, Pin, Cas, CasUnknown, CommitFails, Unpin, Close
<1>2. CASE Pin(p) \/ CommitFails(p)
  <2>1. /\ UNCHANGED <<order, entered, answers>> /\ pc[p] \in {"look", "pin", "reread"}
        /\ o \in pins => o \in pins'
    BY <1>2 DEF Pin, CommitFails, history
  <2>2. \/ pc'[p] \in {"unlock", "unpin"} /\ outcome'[p] = "recovery"
        \/ pc[p] = "pin" /\ pc'[p] = "reread" /\ o \in pins'
    BY <1>0, <1>2, Landing DEF Pin, CommitFails
  <2>3. StageOk(p)'
    BY <1>0, <1>1, <2>1, <2>2 DEF StageOk
  <2> QED
    BY <1>0, <1>1, <2>1, <2>3 DEF JournalOk
<1>3. CASE Cas(p) \/ CasUnknown(p)
  <2>1. UNCHANGED <<order, pins, answers>> /\ pc[p] = "cas"
    BY <1>3 DEF Cas, CasUnknown
  <2>2. entered[o] = 0 /\ entered'[o] \in {0, 1} /\ (Advance(o) => entered'[o] = 1)
    <3>1. entered[o] = 0
      BY <1>0, <2>1 DEF StageOk
    <3>2. Advance(o) => entered'[o] = 1
      BY <1>0, <3>1 DEF Advance
    <3>3. Advance(o) \/ UNCHANGED entered
      BY <1>3 DEF Cas, CasUnknown
    <3> QED
      BY <3>1, <3>2, <3>3
  <2>3. \/ pc'[p] = "unpin" /\ outcome'[p] = "integrated" /\ Advance(o)
        \/ pc'[p] = "unpin" /\ outcome'[p] = "recovery"
        \/ pc'[p] = "unlock" /\ outcome'[p] \in {"conflict", "recovery"}
    BY <1>0, <1>3, Landing DEF Cas, CasUnknown
  <2>4. StageOk(p)'
    BY <1>0, <1>1, <2>1, <2>2, <2>3 DEF StageOk
  <2>5. JournalOk(o)'
    BY <1>0, <1>1, <2>1, <2>2 DEF JournalOk, StageOk
  <2> QED
    BY <2>1, <2>4, <2>5
<1>4. CASE Unpin(p)
  <2>1. UNCHANGED <<order, outcome, entered, answers>> /\ pc[p] = "unpin" /\ pc'[p] = "unlock"
    BY <1>0, <1>4, Landing DEF Unpin, history
  <2> QED
    BY <1>0, <1>1, <2>1 DEF StageOk, JournalOk
<1>5. CASE Close(p)
  <2>1. UNCHANGED <<pins, entered>> /\ pc[p] = "close" /\ pc'[p] \in {"idle", "proof"}
    BY <1>0, <1>5, Landing DEF Close, repository
  <2>2. answers'[o] = answers[o] \cup ({outcome[p]} \cap Answers)
    BY <1>0, <1>5 DEF Close, TypeOK
  <2>3. StageOk(p)'
    BY <2>1 DEF StageOk
  <2>4. JournalOk(o)'
    BY <1>0, <1>1, <2>1, <2>2 DEF JournalOk, StageOk
  <2> QED
    BY <2>3, <2>4
<1> QED
  BY <1>2, <1>3, <1>4, <1>5 DEF Commits

LEMMA StepOwner ==
  ASSUME TypeOK, OwnerInv, NEW p \in Procs, ProcStep(p), StageInv
  PROVE  OwnerInv'
<1>0. ProcessTyped /\ PlacesTyped /\ {"none", "dead"} \cap Procs = {}
  BY TypeParts, CodingAssumption
<1>1. ASSUME NEW q \in Procs \ {p}
      PROVE  /\ pc'[q] # "idle" => order'[q] \in Orders
             /\ pc'[q] \in Journaling => journalLock'[order'[q]] = q
  <2>1. pc'[q] = pc[q] /\ order'[q] = order[q]
    BY StepFrame
  <2>2. pc[q] # "idle" => order[q] \in Orders
    BY DEF OwnerInv
  <2>3. CASE pc[q] \in Journaling
    <3>1. order[q] \in Orders /\ journalLock[order[q]] = q
      BY <2>3 DEF OwnerInv, Journaling
    <3>2. ASSUME Open(p) PROVE journalLock'[order[q]] = q
      BY <1>0, <3>1, <3>2 DEF PlacesTyped, Open
    <3>3. ASSUME Close(p) PROVE journalLock'[order[q]] = q
      <4>1. pc[p] \in Journaling /\ order[p] \in Orders /\ journalLock[order[p]] = p
        BY <3>3 DEF Close, OwnerInv, Journaling, Labels
      <4> QED
        BY <1>0, <3>1, <3>3, <4>1 DEF PlacesTyped, Close
    <3>4. ASSUME Crash(p) PROVE journalLock'[order[q]] = q
      BY <1>0, <3>1, <3>4 DEF Crash
    <3>5. ASSUME UNCHANGED journalLock PROVE journalLock'[order[q]] = q
      BY <3>1, <3>5
    <3>6. Open(p) \/ Close(p) \/ Crash(p) \/ UNCHANGED journalLock
      BY DEF ProcStep, Waits, Writes, Commits, Execute, OpenTimesOut, Recover, Interrupted, Create, Passes,
         DisposeFails, Lock, LockIsHeld, Look, Reread, Unlock, UnlockFails, PutProof, RecordIntegrated,
         Replay, Repairable, Fatal, Dispose, Prepare, PrepareFails, Complete, CompleteFails,
         Pin, Cas, CasUnknown, CommitFails, Unpin
    <3>7. journalLock'[order[q]] = q
      BY <3>1, <3>2, <3>3, <3>4, <3>5, <3>6
    <3> QED
      BY <2>1, <2>2, <3>7
  <2> QED
    BY <2>1, <2>2, <2>3
<1>2. pc'[p] # "idle" => order'[p] \in Orders
  <2>1. CASE \E o \in Orders : Execute(p, o)
    BY <1>0, <2>1 DEF Execute, ProcessTyped
  <2>2. CASE Leave(p)
    BY <1>0, <2>2 DEF Leave, Decide, Goto, ProcessTyped
  <2>3. CASE UNCHANGED order /\ pc[p] # "idle"
    BY <2>3 DEF OwnerInv
  <2>4. (\E o \in Orders : Execute(p, o)) \/ Leave(p) \/ (UNCHANGED order /\ pc[p] # "idle")
    BY DEF ProcStep, Waits, Writes, Commits, Open, OpenTimesOut, Recover, Interrupted, Create, Passes,
       DisposeFails, Lock, LockIsHeld, Look, Reread, Unlock, UnlockFails, PutProof, RecordIntegrated, Crash,
       Replay, Repairable, Fatal, Dispose, Prepare, PrepareFails, Complete, CompleteFails,
       Pin, Cas, CasUnknown, CommitFails, Unpin, Close
  <2> QED
    BY <2>1, <2>2, <2>3, <2>4
<1>3. pc'[p] \in Journaling => journalLock'[order'[p]] = p
  <2>1. CASE (\E o \in Orders : Execute(p, o)) \/ Leave(p) \/ Close(p)
    <3>1. pc'[p] \in {"open", "idle", "proof"}
      BY <1>0, <2>1 DEF Execute, Leave, Close, Decide, Goto, ProcessTyped
    <3> QED
      BY <3>1 DEF Journaling
  <2>2. CASE Open(p)
    <3>1. order[p] \in Orders
      BY <2>2 DEF Open, OwnerInv
    <3> QED
      BY <1>0, <2>2, <3>1 DEF Open, PlacesTyped
  <2>3. CASE UNCHANGED <<order, journalLock>> /\ pc[p] \in Journaling
    BY <2>3 DEF OwnerInv
  <2>4. CASE PutProof(p) /\ ~Leave(p)
    BY <1>0, <2>4 DEF PutProof, Goto, ProcessTyped, Journaling
  <2>5. \/ (\E o \in Orders : Execute(p, o)) \/ Leave(p) \/ Close(p)
        \/ Open(p)
        \/ (UNCHANGED <<order, journalLock>> /\ pc[p] \in Journaling)
        \/ (PutProof(p) /\ ~Leave(p))
    <3>1. CASE Waits(p)
      BY <3>1 DEF Waits, OpenTimesOut, Recover, Interrupted, Create, Passes,
       DisposeFails, Lock, LockIsHeld, Look, Reread, Unlock, UnlockFails, RecordIntegrated, Crash,
       Journaling, Labels
    <3>2. CASE Writes(p)
      BY <3>2 DEF Writes, Replay, Repairable, Fatal, Dispose, Prepare, PrepareFails, Complete, CompleteFails,
       Journaling, Labels
    <3>3. CASE Commits(p)
      BY <3>3 DEF Commits, Pin, Cas, CasUnknown, CommitFails, Unpin, Journaling, Labels
    <3> QED
      BY <3>1, <3>2, <3>3 DEF ProcStep
  <2> QED
    BY <2>1, <2>2, <2>3, <2>4, <2>5
<1> QED
  BY <1>1, <1>2, <1>3 DEF OwnerInv

LEMMA StepHead ==
  ASSUME TypeOK, OwnerInv, HeadInv, NEW p \in Procs, ProcStep(p)
  PROVE  HeadInv'
<1>1. entered \in [Orders -> Nat]
  BY DEF TypeOK
<1>2. (Advance(order[p]) /\ order[p] \in Orders) \/ UNCHANGED <<head, entered>>
  <2>1. CASE Waits(p) \/ Writes(p)
    BY <2>1 DEF Waits, Writes, Execute, Open, OpenTimesOut, Recover, Interrupted, Create, Passes,
       DisposeFails, Lock, LockIsHeld, Look, Reread, Unlock, UnlockFails, PutProof, RecordIntegrated, Crash,
       Replay, Repairable, Fatal, Dispose, Prepare, PrepareFails, Complete, CompleteFails, repository, history
  <2>2. CASE Commits(p)
    BY <2>2 DEF Commits, Pin, Cas, CasUnknown, CommitFails, Unpin, Close, repository, history, OwnerInv
  <2> QED
    BY <2>1, <2>2 DEF ProcStep
<1> QED
  BY <1>1, <1>2 DEF HeadInv, Advance

-----------------------------------------------------------------------------
(* The invariant. *)

LEMMA InitIInv == Init => IInv
<1> SUFFICES ASSUME Init PROVE IInv
  OBVIOUS
<1>1. \A o \in Orders : /\ journal[o].failures = <<>> /\ ~journal[o].prepared /\ journal[o].completion = "none"
                         /\ journal[o] \in JournalTypes
  <2>1. <<>> \in Seq(Findings)
    OBVIOUS
  <2> QED
    BY <2>1, CodingAssumption DEF Init, JournalTypes
<1>2. ProcessTyped /\ PlacesTyped
  BY CodingAssumption DEF Init, ProcessTyped, PlacesTyped, Labels, Outcomes
<1>3. JournalsTyped
  <2>1. journal \in [Orders -> JournalTypes]
    BY <1>1 DEF Init
  <2> QED
    BY <1>1, <2>1, CodingAssumption DEF JournalsTyped
<1>4. OwnerInv
  BY DEF Init, OwnerInv, Journaling
<1>5. StageInv
  BY DEF Init, StageInv, StageOk
<1>6. JournalInv
  BY <1>1 DEF Init, JournalInv, JournalOk
<1>7. HeadInv
  BY CodingAssumption DEF Init, HeadInv
<1> QED
  BY <1>2, <1>3, <1>4, <1>5, <1>6, <1>7, TypeParts DEF IInv

LEMMA StepIInv ==
  ASSUME IInv, NEW p \in Procs, ProcStep(p)
  PROVE  IInv'
<1>0. TypeOK /\ OwnerInv /\ StageInv /\ JournalInv /\ HeadInv
  BY DEF IInv
<1>1. TypeOK'
  BY <1>0, WaitsTyped, WritesTyped, CommitsTyped DEF ProcStep
<1>2. OwnerInv' /\ HeadInv'
  BY <1>0, StepOwner, StepHead
<1>3. Waits(p) \/ order[p] \in Orders
  BY DEF IInv, OwnerInv, ProcStep, Writes, Replay, Repairable, Fatal, Dispose, Prepare, PrepareFails, Complete,
     CompleteFails, Commits, Pin, Cas, CasUnknown, CommitFails, Unpin, Close
<1>4. StageOk(p)'
  BY <1>3, OwnWaits, OwnWrites, OwnCommits DEF ProcStep
<1>5. StageInv'
  BY <1>0, <1>4, OthersStage DEF StageInv
<1>6. ASSUME NEW o \in Orders PROVE JournalOk(o)'
  <2>1. CASE Kept(o)
    BY <1>0, <2>1, KeptJournal DEF JournalInv
  <2>2. CASE o = order[p] /\ (Writes(p) \/ Commits(p))
    BY <2>2, OwnWrites, OwnCommits
  <2>3. CASE Waits(p)
    <3>1. UNCHANGED <<journal, pins, entered, answers>>
      BY <2>3 DEF Waits, Execute, Open, OpenTimesOut, Recover, Interrupted, Create, Passes, DisposeFails,
       Lock, LockIsHeld, Look, Reread, Unlock, UnlockFails, PutProof, RecordIntegrated, Crash,
       repository, history
    <3> QED
      BY <1>0, <3>1 DEF JournalInv, JournalOk
  <2> QED
    BY <1>0, <2>1, <2>2, <2>3, StepFrame DEF ProcStep
<1>7. JournalInv'
  BY <1>6 DEF JournalInv
<1> QED
  BY <1>1, <1>2, <1>5, <1>7 DEF IInv

LEMMA NextIInv == IInv /\ [Next]_vars => IInv'
<1> SUFFICES ASSUME IInv, [Next]_vars PROVE IInv'
  OBVIOUS
<1>1. CASE \E p \in Procs : ProcStep(p)
  BY <1>1, StepIInv
<1>2. CASE Move
  <2>1. TypeOK'
    BY <1>2, MoveTyped DEF IInv
  <2>2. UNCHANGED <<pc, order, outcome, journal, journalLock, pins, entered, answers>>
    BY <1>2 DEF Move, process, history
  <2>3. HeadInv'
    BY <1>2, <2>2, CodingAssumption DEF Move, HeadInv
  <2>4. OwnerInv'
    BY <2>2 DEF IInv, OwnerInv
  <2>5. StageInv'
    BY <2>2 DEF IInv, StageInv, StageOk, Exhausted, Failures, Repeated
  <2>6. JournalInv'
    BY <2>2 DEF IInv, JournalInv, JournalOk
  <2> QED
    BY <2>1, <2>3, <2>4, <2>5, <2>6 DEF IInv
<1>3. CASE UNCHANGED vars
  BY <1>3 DEF vars, process, repository, host, history, IInv, TypeOK, OwnerInv, StageInv, StageOk, JournalInv, JournalOk,
     HeadInv, Exhausted, Failures, Repeated
<1> QED
  BY <1>1, <1>2, <1>3, NextCases

LEMMA SpecIInv == Spec => []IInv
BY InitIInv, NextIInv, PTL DEF Spec

-----------------------------------------------------------------------------
(* The theorems. *)

\* Processes, journals, locks and the target keep their types, and no journal
\* holds more failures than there are attempts (CodingPipeline.execute).
THEOREM CodingTypeCorrect == Spec => []TypeOK
BY SpecIInv, PTL DEF IInv

\* An order's commit is swapped into the target at most once and never without
\* a durable intent, whichever processes execute the order, crash, repeat it
\* or move the target (CodingPipeline.execute, SingleCommitter.integrate).
THEOREM CommitsEnterOnce == Spec => []EntersOnce
<1>1. IInv => EntersOnce
  BY DEF IInv, JournalInv, JournalOk, EntersOnce, OncePerOrder, IntentFirst
<1> QED
  BY <1>1, SpecIInv, PTL

\* Executions of one order never contradict each other, and what they answer is
\* what happened to its commit (recoverIntegratedCodingResult, recordCompletion).
THEOREM AnswersTruthful == Spec => []TruthfulAnswers
<1>1. IInv => TruthfulAnswers
  <2> SUFFICES ASSUME IInv, NEW o \in Orders
               PROVE  /\ answers[o] # Answers
                      /\ "integrated" \in answers[o] \cup {journal[o].completion} => entered[o] > 0
                      /\ "conflict" \in answers[o] \cup {journal[o].completion} => o \in pins
    BY DEF TruthfulAnswers
  <2>1. JournalOk(o)
    BY DEF IInv, JournalInv
  <2> QED
    BY <2>1 DEF JournalOk, Answers
<1> QED
  BY <1>1, SpecIInv, PTL

\* No execution starts an attempt on an order with an intent on record, a
\* repeated failure or no attempt left (CodingPipeline.execute).
THEOREM StopsForGoodAlways == Spec => StopsForGood
<1>1. IInv /\ [Next]_vars =>
        [\A p \in Procs : pc[p] # "work" /\ pc'[p] = "work" =>
           ~journal[order[p]].prepared /\ ~Exhausted(order[p])]_vars
  <2> SUFFICES ASSUME IInv, Next, NEW q \in Procs, pc[q] # "work", pc'[q] = "work"
               PROVE  ~journal[order[q]].prepared /\ ~Exhausted(order[q])
    OBVIOUS
  <2>0. TypeOK /\ OwnerInv /\ StageInv
    BY DEF IInv
  <2>1. CASE Move
    BY <2>1 DEF Move, process
  <2>2. ASSUME NEW p \in Procs, ProcStep(p)
        PROVE  pc[q] = "create"
    <3>1. p = q
      BY <2>0, <2>2, StepFrame
    <3>2. CASE Waits(q)
      <4>1. CASE OpenTimesOut(q) \/ PutProof(q) \/ RecordIntegrated(q) \/ Crash(q)
        BY <2>0, <4>1, Landing DEF OpenTimesOut, PutProof, RecordIntegrated, Crash
      <4>2. CASE Recover(q) \/ Interrupted(q) \/ DisposeFails(q) \/ LockIsHeld(q) \/ Reread(q) \/ UnlockFails(q)
        BY <2>0, <4>2, Landing DEF Recover, Interrupted, DisposeFails, LockIsHeld, Reread, UnlockFails
      <4>3. CASE \E o \in Orders : Execute(q, o)
        BY <2>0, <4>3, Landing DEF Execute
      <4>4. CASE Open(q) \/ Create(q) \/ Passes(q) \/ Lock(q) \/ Look(q) \/ Unlock(q)
        BY <2>0, <4>4, Landing DEF Open, Create, Passes, Lock, Look, Unlock
      <4> QED
        BY <3>2, <4>1, <4>2, <4>3, <4>4 DEF Waits
    <3>3. CASE Writes(q)
      <4>1. CASE Replay(q)
        BY <2>0, <4>1, Landing DEF Replay
      <4>2. CASE Dispose(q)
        BY <2>0, <4>2, Landing DEF Dispose
      <4>3. CASE Fatal(q) \/ \E f \in Findings : Repairable(q, f)
        BY <2>0, <4>3, Landing DEF Fatal, Repairable
      <4>4. CASE Prepare(q) \/ PrepareFails(q) \/ Complete(q) \/ CompleteFails(q)
        BY <2>0, <4>4, Landing DEF Prepare, PrepareFails, Complete, CompleteFails
      <4> QED
        BY <3>3, <4>1, <4>2, <4>3, <4>4 DEF Writes
    <3>4. CASE Commits(q)
      BY <2>0, <3>4, Landing DEF Commits, Pin, Cas, CasUnknown, CommitFails, Unpin, Close
    <3> QED
      BY <2>2, <3>1, <3>2, <3>3, <3>4 DEF ProcStep
  <2> QED
    BY <2>0, <2>1, <2>2, NextCases DEF StageInv, StageOk
<1> QED
  BY <1>1, SpecIInv, PTL DEF Spec, StopsForGood

-----------------------------------------------------------------------------
(* The pipeline is the one integration per order of IntegrateOnce. *)

\* Who puts the proof or records the integration was answered "integrated".
HostInv ==
  \A p \in Procs : pc[p] \in {"proof", "record"} => "integrated" \in answers[order[p]]

\* No answer is taken back.
LEMMA AnswersGrow ==
  ASSUME TypeOK, NEW p \in Procs, ProcStep(p), NEW o \in Orders
  PROVE  answers[o] \subseteq answers'[o]
<1>1. CASE Close(p)
  BY <1>1 DEF Close, TypeOK
<1>2. CASE ~Close(p)
  BY <1>2 DEF ProcStep, Waits, Writes, Commits, Execute, Open, OpenTimesOut, Recover, Interrupted,
     Create, Passes, DisposeFails, Lock, LockIsHeld, Look, Reread, Unlock, UnlockFails, PutProof,
     RecordIntegrated, Crash, Replay, Repairable, Fatal, Dispose, Prepare, PrepareFails, Complete,
     CompleteFails, Pin, Cas, CasUnknown, CommitFails, Unpin, history
<1> QED
  BY <1>1, <1>2

\* The host gets to its proof from an answer, and to its record from the proof.
LEMMA ReachesHost ==
  ASSUME TypeOK, NEW p \in Procs, ProcStep(p), pc'[p] \in {"proof", "record"}
  PROVE  /\ UNCHANGED order
         /\ (Close(p) /\ outcome[p] = "integrated") \/ (PutProof(p) /\ pc[p] = "proof")
<1>1. CASE Waits(p)
  <2>1. CASE OpenTimesOut(p) \/ RecordIntegrated(p) \/ Crash(p)
    BY <2>1, Landing DEF OpenTimesOut, RecordIntegrated, Crash
  <2>2. CASE Recover(p) \/ Interrupted(p) \/ DisposeFails(p) \/ LockIsHeld(p) \/ Reread(p) \/ UnlockFails(p)
    BY <2>2, Landing DEF Recover, Interrupted, DisposeFails, LockIsHeld, Reread, UnlockFails
  <2>3. CASE (\E o \in Orders : Execute(p, o)) \/ Open(p) \/ Create(p) \/ Passes(p)
    BY <2>3, Landing DEF Execute, Open, Create, Passes
  <2>4. CASE Lock(p) \/ Look(p) \/ Unlock(p)
    BY <2>4, Landing DEF Lock, Look, Unlock
  <2>5. CASE PutProof(p)
    BY <2>5, Landing DEF PutProof
  <2> QED
    BY <1>1, <2>1, <2>2, <2>3, <2>4, <2>5 DEF Waits
<1>2. CASE Writes(p)
  <2>1. CASE Replay(p) \/ Dispose(p)
    BY <2>1, Landing DEF Replay, Dispose
  <2>2. CASE Fatal(p) \/ \E f \in Findings : Repairable(p, f)
    <3>1. pc'[p] = "dispose"
      BY <2>2, Landing DEF Fatal, Repairable
    <3> QED
      BY <3>1
  <2>3. CASE Prepare(p) \/ PrepareFails(p) \/ Complete(p) \/ CompleteFails(p)
    BY <2>3, Landing DEF Prepare, PrepareFails, Complete, CompleteFails
  <2> QED
    BY <1>2, <2>1, <2>2, <2>3 DEF Writes
<1>3. CASE Commits(p)
  <2>1. CASE Pin(p) \/ CommitFails(p) \/ Unpin(p)
    BY <2>1, Landing DEF Pin, CommitFails, Unpin
  <2>2. CASE Cas(p) \/ CasUnknown(p)
    BY <2>2, Landing DEF Cas, CasUnknown
  <2>3. CASE Close(p)
    BY <2>3, Landing DEF Close
  <2> QED
    BY <1>3, <2>1, <2>2, <2>3 DEF Commits
<1> QED
  BY <1>1, <1>2, <1>3 DEF ProcStep

LEMMA StepHost ==
  ASSUME IInv, HostInv, NEW p \in Procs, ProcStep(p)
  PROVE  HostInv'
<1>0. TypeOK /\ OwnerInv /\ StageInv
  BY DEF IInv
<1> SUFFICES ASSUME NEW q \in Procs, pc'[q] \in {"proof", "record"}
             PROVE  "integrated" \in answers'[order'[q]]
  BY DEF HostInv
<1>1. CASE q # p
  <2>1. pc'[q] = pc[q] /\ order'[q] = order[q]
    BY <1>0, <1>1, StepFrame
  <2>2. order[q] \in Orders /\ "integrated" \in answers[order[q]]
    BY <1>0, <2>1 DEF OwnerInv, HostInv
  <2> QED
    BY <1>0, <2>1, <2>2, AnswersGrow
<1>2. CASE q = p
  <2>1. UNCHANGED order /\ ((Close(p) /\ outcome[p] = "integrated") \/ (PutProof(p) /\ pc[p] = "proof"))
    BY <1>0, <1>2, ReachesHost
  <2>2. order[p] \in Orders
    BY <1>0, <2>1 DEF OwnerInv, Close
  <2>3. CASE Close(p) /\ outcome[p] = "integrated"
    BY <1>0, <1>2, <2>1, <2>2, <2>3 DEF Close, TypeOK, Answers
  <2>4. CASE PutProof(p) /\ pc[p] = "proof"
    BY <1>2, <2>1, <2>4 DEF PutProof, history, HostInv
  <2> QED
    BY <2>1, <2>3, <2>4
<1> QED
  BY <1>1, <1>2

LEMMA SpecHost == Spec => []HostInv
<1>1. Init => HostInv
  BY DEF Init, HostInv
<1>2. IInv /\ HostInv /\ [Next]_vars => HostInv'
  <2>1. IInv /\ HostInv /\ Next => HostInv'
    <3>1. HostInv /\ Move => HostInv'
      BY DEF HostInv, Move, process, history
    <3> QED
      BY <3>1, StepHost, NextCases
  <2>2. HostInv /\ UNCHANGED vars => HostInv'
    BY DEF vars, process, history, HostInv
  <2> QED
    BY <2>1, <2>2
<1> QED
  BY <1>1, <1>2, SpecIInv, PTL DEF Spec

\* What the journals say to the host.
Intended == {o \in Orders : journal[o].prepared}
Verdict == [o \in Orders |-> journal[o].completion]

\* A written record changes what the journals say of one order.
LEMMA OneRecord ==
  ASSUME TypeOK, TypeOK', NEW o \in Orders, \A b \in Orders \ {o} : journal'[b] = journal[b]
  PROVE  /\ journal'[o].prepared = journal[o].prepared => Intended' = Intended
         /\ journal'[o].prepared /\ ~journal[o].prepared =>
              Intended' = Intended \cup {o} /\ o \notin Intended
         /\ Verdict' = [Verdict EXCEPT ![o] = journal'[o].completion]
         /\ journal'[o].completion = journal[o].completion => Verdict' = Verdict
<1>1. /\ journal'[o].prepared = journal[o].prepared => Intended' = Intended
      /\ journal'[o].prepared /\ ~journal[o].prepared =>
           Intended' = Intended \cup {o} /\ o \notin Intended
  BY DEF Intended
<1>2. \A b \in Orders : Verdict'[b] = [Verdict EXCEPT ![o] = journal'[o].completion][b]
  BY DEF Verdict
<1>3. Verdict' = [Verdict EXCEPT ![o] = journal'[o].completion]
  BY <1>2 DEF Verdict
<1>4. journal'[o].completion = journal[o].completion => Verdict' = Verdict
  BY <1>3 DEF Verdict
<1> QED
  BY <1>1, <1>3, <1>4

\* A step that only waits is a stutter, or the record of an answer.
LEMMA WaitsIntegrate ==
  ASSUME IInv, HostInv, NEW p \in Procs, Waits(p)
  PROVE  Integration!Next \/ UNCHANGED Integration!vars
<1>1. UNCHANGED <<journal, entered, answers>>
  BY DEF Waits, Execute, Open, OpenTimesOut, Recover, Interrupted, Create, Passes, DisposeFails,
     Lock, LockIsHeld, Look, Reread, Unlock, UnlockFails, PutProof, RecordIntegrated, Crash, history
<1>2. CASE RecordIntegrated(p)
  <2> DEFINE o == order[p]
  <2>1. o \in Orders /\ "integrated" \in answers[o] /\ integrated' = integrated \cup {o}
    BY <1>2 DEF IInv, OwnerInv, HostInv, RecordIntegrated
  <2> HIDE DEF o
  <2>2. Integration!Record(o)
    BY <1>1, <2>1 DEF Integration!Record
  <2> QED
    BY <2>1, <2>2 DEF Integration!Next
<1>3. CASE ~RecordIntegrated(p)
  <2>1. integrated' = integrated
    BY <1>3 DEF Waits, Execute, Open, OpenTimesOut, Recover, Interrupted, Create, Passes, DisposeFails,
     Lock, LockIsHeld, Look, Reread, Unlock, UnlockFails, PutProof, Crash, host
  <2> QED
    BY <1>1, <2>1 DEF Integration!vars
<1> QED
  BY <1>2, <1>3

\* A written journal is an intent, a verdict, or says nothing new to the host.
LEMMA WritesIntegrate ==
  ASSUME IInv, IInv', NEW p \in Procs, Writes(p)
  PROVE  Integration!Next \/ UNCHANGED Integration!vars
<1>0. /\ TypeOK /\ TypeOK' /\ OwnerInv /\ StageInv /\ JournalInv /\ StageOk(p)
      /\ order[p] \in Orders /\ order' = order
  BY WritesARecord DEF IInv, StageInv, Writes, Replay, Repairable, Fatal, Dispose, Prepare, PrepareFails,
     Complete, CompleteFails
<1>1. PICK o \in Orders : o = order[p]
  BY <1>0
<1>2. UNCHANGED <<entered, answers, integrated>>
  BY DEF Writes, Replay, Repairable, Fatal, Dispose, Prepare, PrepareFails, Complete, CompleteFails,
     history, host
<1>3. \A b \in Orders \ {o} : journal'[b] = journal[b]
  <2>1. PICK r \in JournalTypes : Rewritten(o, r)
    BY <1>0, <1>1, WritesARecord
  <2> QED
    BY <2>1 DEF Rewritten
<1>4. CASE journal'[o].prepared = journal[o].prepared /\ journal'[o].completion = journal[o].completion
  BY <1>0, <1>2, <1>3, <1>4, OneRecord DEF Integration!vars, Intended, Verdict
<1>5. CASE Replay(p) \/ Dispose(p) \/ Fatal(p) \/ \E f \in Findings : Repairable(p, f)
  <2>1. \/ journal' = journal
        \/ /\ journal'[o].prepared = journal[o].prepared
           /\ journal'[o].completion = journal[o].completion
    BY <1>0, <1>1, <1>5, ReadBack DEF Replay, Dispose, Fatal, Repairable
  <2> QED
    BY <1>4, <2>1
<1>6. CASE Prepare(p) \/ PrepareFails(p)
  <2>1. journal[o].prepared = FALSE
    BY <1>0, <1>1, <1>6 DEF Prepare, PrepareFails, StageOk, TypeOK
  <2>2. journal' = journal \/ journal' = [journal EXCEPT ![o].prepared = TRUE]
    BY <1>1, <1>6 DEF Prepare, PrepareFails
  <2>3. CASE journal' = [journal EXCEPT ![o].prepared = TRUE]
    <3>1. journal'[o].prepared /\ journal'[o].completion = journal[o].completion
      BY <1>0, <2>3, ReadBack
    <3>2. Intended' = Intended \cup {o} /\ o \notin Intended /\ Verdict' = Verdict
      BY <1>0, <1>3, <2>1, <3>1, OneRecord
    <3>3. Integration!Intend(o)
      BY <1>2, <3>2 DEF Integration!Intend, Intended, Verdict
    <3> QED
      BY <3>3 DEF Integration!Next
  <2> QED
    BY <1>4, <2>2, <2>3
<1>7. CASE Complete(p) \/ CompleteFails(p)
  <2>1. /\ outcome[p] \in Answers /\ journal[o].prepared /\ journal[o].completion \in {"none", outcome[p]}
        /\ outcome[p] = "integrated" => entered[o] > 0
    BY <1>0, <1>1, <1>7 DEF Complete, CompleteFails, StageOk
  <2>2. journal' = journal \/ journal' = [journal EXCEPT ![o].completion = outcome[p]]
    BY <1>1, <1>7 DEF Complete, CompleteFails
  <2>3. CASE journal' = [journal EXCEPT ![o].completion = outcome[p]] /\ journal[o].completion = "none"
    <3>1. journal'[o].completion = outcome[p] /\ journal'[o].prepared = journal[o].prepared
      BY <1>0, <2>3, ReadBack
    <3>2. Intended' = Intended /\ Verdict' = [Verdict EXCEPT ![o] = outcome[p]]
      BY <1>0, <1>3, <3>1, OneRecord
    <3>3. o \in Intended /\ Verdict[o] = "none"
      BY <2>1, <2>3 DEF Intended, Verdict
    <3>4. Integration!Decide(o)
      BY <1>2, <2>1, <3>2, <3>3 DEF Integration!Decide, Intended, Verdict, Answers
    <3> QED
      BY <3>4 DEF Integration!Next
  <2>4. CASE journal' = [journal EXCEPT ![o].completion = outcome[p]] /\ journal[o].completion = outcome[p]
    <3>1. journal'[o].completion = outcome[p] /\ journal'[o].prepared = journal[o].prepared
      BY <1>0, <2>4, ReadBack
    <3> QED
      BY <1>4, <2>4, <3>1
  <2> QED
    BY <1>4, <2>1, <2>2, <2>3, <2>4
<1> QED
  BY <1>5, <1>6, <1>7 DEF Writes

\* A step in the repository is a landing, or an answer, or a stutter.
LEMMA CommitsIntegrate ==
  ASSUME IInv, IInv', NEW p \in Procs, Commits(p)
  PROVE  Integration!Next \/ UNCHANGED Integration!vars
<1>0. TypeOK /\ StageOk(p) /\ JournalInv /\ order[p] \in Orders
  BY DEF IInv, StageInv, OwnerInv, Commits, Pin, Cas, CasUnknown, CommitFails, Unpin, Close
<1>1. PICK o \in Orders : o = order[p]
  BY <1>0
<1>2. UNCHANGED <<journal, integrated>>
  BY DEF Commits, Pin, Cas, CasUnknown, CommitFails, Unpin, Close, host
<1>3. CASE UNCHANGED <<entered, answers>>
  BY <1>2, <1>3 DEF Integration!vars
<1>4. CASE Pin(p) \/ CommitFails(p) \/ Unpin(p)
  BY <1>3, <1>4 DEF Pin, CommitFails, Unpin, history
<1>5. CASE Cas(p) \/ CasUnknown(p)
  <2>1. /\ answers' = answers /\ entered[o] = 0 /\ journal[o].prepared
        /\ journal[o].completion = "none" /\ (Advance(o) \/ entered' = entered)
    BY <1>0, <1>1, <1>5 DEF Cas, CasUnknown, StageOk
  <2>2. CASE Advance(o)
    <3>1. entered' = [entered EXCEPT ![o] = 1]
      BY <2>1, <2>2 DEF Advance
    <3>2. Integration!Land(o)
      BY <1>2, <2>1, <3>1 DEF Integration!Land
    <3> QED
      BY <3>2 DEF Integration!Next
  <2> QED
    BY <1>3, <2>1, <2>2
<1>6. CASE Close(p)
  <2>1. entered' = entered /\ answers' = [answers EXCEPT ![o] = @ \cup ({outcome[p]} \cap Answers)]
    BY <1>1, <1>6 DEF Close
  <2>2. CASE outcome[p] \in Answers
    <3>1. journal[o].completion = outcome[p] /\ outcome[p] # "none"
      BY <1>0, <1>1, <1>6, <2>2 DEF StageOk, Close, Answers
    <3>2. answers' = [answers EXCEPT ![o] = @ \cup {journal[o].completion}]
      BY <2>1, <2>2, <3>1
    <3>3. Integration!Answer(o)
      BY <1>2, <2>1, <3>1, <3>2 DEF Integration!Answer
    <3> QED
      BY <3>3 DEF Integration!Next
  <2>3. CASE outcome[p] \notin Answers
    <3>1. answers' = answers
      BY <1>0, <2>1, <2>3 DEF TypeOK
    <3> QED
      BY <1>3, <2>1, <3>1
  <2> QED
    BY <2>2, <2>3
<1> QED
  BY <1>4, <1>5, <1>6 DEF Commits

\* The pipeline, its committer and the orchestrator's record implement
\* IntegrateOnce: through attempts, crashes, lost or landed writes, aborted
\* swaps and moves of the target, the host sees one landing behind one intent,
\* one verdict, answers that repeat it, and a record that rests on them
\* (CodingPipeline.execute, integrateAcceptedCodingTask).
THEOREM PipelineIntegratesOnce == Spec => IntegratesOnce
<1>1. Init => Integration!Init
  BY DEF Init, Integration!Init
<1>2. IInv /\ IInv' /\ HostInv /\ [Next]_vars => [Integration!Next]_(Integration!vars)
  <2>1. UNCHANGED vars => UNCHANGED Integration!vars
    BY DEF vars, host, history, Integration!vars
  <2>2. Move => UNCHANGED Integration!vars
    BY DEF Move, host, history, Integration!vars
  <2>3. ASSUME IInv, IInv', HostInv, NEW p \in Procs, ProcStep(p)
        PROVE  Integration!Next \/ UNCHANGED Integration!vars
    BY <2>3, WaitsIntegrate, WritesIntegrate, CommitsIntegrate DEF ProcStep
  <2> QED
    BY <2>1, <2>2, <2>3, NextCases
<1> QED
  BY <1>1, <1>2, SpecIInv, SpecHost, PTL DEF Spec, IntegratesOnce, Integration!Spec
=============================================================================
