--------------------------- MODULE BlackboardProofs ---------------------------
(***************************************************************************)
(* Proofs about Blackboard for every set of processes, artifacts and       *)
(* contents and every bound.  The lock file does not exclude anybody (the  *)
(* removal of an abandoned lock can hit a successor's), so nothing here    *)
(* rests on it.  What keeps the chain is the exclusive creation of the     *)
(* revision file: at most one process is between the file of the next      *)
(* revision and the head (WriterInv), and what a process saw at its check  *)
(* is stale exactly when that file exists (ChainInv, WorkInv).             *)
(***************************************************************************)
EXTENDS Blackboard, TLAPS

Publishing == {"blob", "create", "fill", "move"}
Writing == {"fill", "move"}

\* The record that Fill writes for p.
RecordOf(w) == [content |-> w.content, inputs |-> w.inputs, supersedes |-> w.expected]

\* The types that the steps need: TypeOK with the domains of the functions.
Typed ==
  /\ pc \in [Procs -> Labels]
  /\ work \in [Procs -> Works \cup {NoWork}]
  /\ \A p \in Procs : pc[p] # "idle" => work[p] \in Works
  /\ lock \in [Artifacts -> Procs \cup {"none", "dead", "torn"}]
  /\ blobs \in SUBSET Contents
  /\ heads \in [Artifacts -> 0..MaxRevision]
  /\ files \in [Artifacts -> [1..MaxRevision -> {Absent, Torn} \cup Records]]
  /\ answers \in SUBSET Refs /\ cut \in SUBSET Artifacts /\ faults \in 0..MaxFaults

\* What a publication has found at its check stays true of what it works on.
WorkInv ==
  \A p \in Procs :
    /\ pc[p] # "idle" => work[p].expected < MaxRevision
    /\ pc[p] \in Publishing =>
         /\ work[p].expected = work[p].base /\ work[p].base <= heads[work[p].artifact]
         /\ \A ref \in work[p].inputs : Readable(ref)
    /\ pc[p] \in {"create", "fill", "move"} => work[p].content \in blobs

\* Who has created a revision file works behind the present head, alone.
WriterInv ==
  /\ \A p \in Procs : pc[p] \in Writing => work[p].base = heads[work[p].artifact]
  /\ \A p \in Procs : pc[p] = "fill" => files[work[p].artifact][work[p].base + 1] = Torn
  /\ \A p \in Procs : pc[p] = "move" =>
       files[work[p].artifact][work[p].base + 1] = RecordOf(work[p])
  /\ \A p, q \in Procs :
       pc[p] \in Writing /\ pc[q] \in Writing /\ work[p].artifact = work[q].artifact => p = q

\* The revisions up to the head are whole, and at most one file follows it.
ChainInv ==
  \A a \in Artifacts, n \in 1..MaxRevision :
    /\ n <= heads[a] => files[a][n] \in Records
    /\ files[a][n] # Absent => n <= heads[a] + 1

\* A whole revision names contents and inputs that can be read, and the
\* revision before it.
RecordInv ==
  \A a \in Artifacts, n \in 1..MaxRevision :
    files[a][n] \in Records =>
      /\ files[a][n].content \in blobs /\ files[a][n].supersedes = n - 1
      /\ \A ref \in files[a][n].inputs : Readable(ref)

IInv ==
  /\ Typed /\ WorkInv /\ WriterInv /\ ChainInv /\ RecordInv
  /\ AnswersStay /\ BlockedOnlyWhenCut

-----------------------------------------------------------------------------
(* Lemmas about the files. *)

\* A revision file is missing, torn or whole: a record is neither mark.
LEMMA MarksAreNoRecords ==
  Absent # Torn /\ Absent \notin Records /\ Torn \notin Records /\ NoWork \notin Works
<1>1. Absent # Torn
  BY DEF Absent, Torn
<1>2. \A r \in Records : "supersedes" \in DOMAIN r
  BY DEF Records
<1>3. "supersedes" \notin DOMAIN Absent /\ "supersedes" \notin DOMAIN Torn
  BY DEF Absent, Torn
<1>4. \A w \in Works : "base" \in DOMAIN w
  BY DEF Works
<1>5. "base" \notin DOMAIN NoWork
  BY DEF NoWork
<1> QED
  BY <1>1, <1>2, <1>3, <1>4, <1>5

\* A file that exists under a name of the chain is whole exactly as a record.
LEMMA CompleteIsRecord ==
  ASSUME Typed, NEW a \in Artifacts, NEW n \in Int
  PROVE  Complete(a, n) <=> n \in 1..MaxRevision /\ files[a][n] \in Records
BY MarksAreNoRecords DEF Typed, Complete

\* What a head names is a reference.
LEMMA HeadIsRef ==
  ASSUME Typed, NEW a \in Artifacts, NEW n \in 1..MaxRevision, files[a][n] \in Records
  PROVE  Ref(a, n) \in Refs
BY DEF Ref, Refs, Records

\* Replacing one file of one artifact keeps the type of the files.
LEMMA EntryTyped ==
  ASSUME NEW A, NEW S, NEW V, NEW f \in [A -> [S -> V]], NEW a \in A, NEW n \in S, NEW v \in V
  PROVE  [f EXCEPT ![a][n] = v] \in [A -> [S -> V]]
<1>1. [f[a] EXCEPT ![n] = v] \in [S -> V]
  OBVIOUS
<1>2. [f EXCEPT ![a] = [f[a] EXCEPT ![n] = v]] \in [A -> [S -> V]]
  BY <1>1
<1> QED
  BY <1>2

\* ... and leaves the others as they were.
LEMMA EntryAlone ==
  ASSUME NEW A, NEW S, NEW V, NEW f \in [A -> [S -> V]], NEW a \in A, NEW n \in S, NEW v,
         NEW b \in A, NEW m \in S
  PROVE  [f EXCEPT ![a][n] = v][b][m] = f[b][m] \/ (b = a /\ m = n)
<1>1. CASE b # a
  BY <1>1
<1>2. CASE b = a
  <2>1. [f EXCEPT ![a][n] = v][b] = [f[a] EXCEPT ![n] = v] /\ f[a] \in [S -> V]
    BY <1>2
  <2> QED
    BY <1>2, <2>1
<1> QED
  BY <1>1, <1>2

\* No step takes anything away from a reader: blobs and whole revisions stay.
Kept ==
  /\ blobs \subseteq blobs'
  /\ \A a \in Artifacts, n \in 1..MaxRevision :
       files[a][n] \in Records => files'[a][n] = files[a][n]

\* What was readable stays readable.
LEMMA ReadableStays ==
  ASSUME Typed, Typed', Kept, NEW ref \in Refs, Readable(ref)
  PROVE  Readable(ref)'
<1>1. ref.artifact \in Artifacts /\ ref.revision \in 1..MaxRevision /\ ref.revision \in Int
  BY DEF Refs
<1>2. files[ref.artifact][ref.revision] \in Records
  BY <1>1, CompleteIsRecord DEF Readable
<1>3. files'[ref.artifact][ref.revision] = files[ref.artifact][ref.revision]
  BY <1>1, <1>2 DEF Kept
<1>4. Complete(ref.artifact, ref.revision)'
  BY <1>1, <1>2, <1>3, MarksAreNoRecords DEF Complete, Typed
<1> QED
  BY <1>3, <1>4 DEF Readable, Kept

\* While the files and blobs are as they were, so is what can be read.
LEMMA SameReadable ==
  ASSUME UNCHANGED <<blobs, files>>
  PROVE  /\ \A ref : Readable(ref)' <=> Readable(ref)
         /\ \A a, n : Ref(a, n)' = Ref(a, n)
BY DEF Readable, Complete, Ref

-----------------------------------------------------------------------------
(* Types. *)

\* The steps of one process.
StepOf(p) ==
  \/ \E a \in Artifacts, c \in Contents : Publish(p, a, c)
  \/ Lock(p) \/ Judge(p) \/ Unlink(p) \/ TimesOut(p) \/ Release(p) \/ Remove(p)
  \/ Check(p) \/ PutBlob(p) \/ Create(p) \/ Fill(p) \/ MoveHead(p)
  \/ Fails(p) \/ Crash(p)

\* Every step of a process keeps the types.
LEMMA StepTyped ==
  ASSUME IInv, NEW p \in Procs, StepOf(p)
  PROVE  Typed'
<1> DEFINE w == work[p]
<1>0. Typed /\ MaxRevision \in Nat \ {0} /\ MaxFaults \in Nat
  BY BlackboardAssumption DEF IInv
<1>1. pc[p] # "idle" => /\ w \in Works /\ w.artifact \in Artifacts /\ w.content \in Contents
                        /\ w.base \in 0..MaxRevision /\ w.expected \in 0..MaxRevision
                        /\ w.inputs \in SUBSET Refs
  BY <1>0 DEF Typed, Works
<1>2. pc[p] \in Publishing => w.base + 1 \in 1..MaxRevision
  BY <1>0, <1>1 DEF IInv, WorkInv, Publishing
<1>3. \A a \in Artifacts : heads[a] \in 0..MaxRevision
  BY <1>0 DEF Typed
<1>4. \A a \in Artifacts : heads[a] > 0 =>
        heads[a] \in 1..MaxRevision /\ files[a][heads[a]] \in Records /\ Ref(a, heads[a]) \in Refs
  <2> TAKE a \in Artifacts
  <2> HAVE heads[a] > 0
  <2>1. heads[a] \in 1..MaxRevision
    BY <1>3, <1>0
  <2>2. files[a][heads[a]] \in Records
    BY <2>1 DEF IInv, ChainInv
  <2> QED
    BY <1>0, <2>1, <2>2, HeadIsRef
<1>5. ASSUME NEW a \in Artifacts, NEW c \in Contents, Publish(p, a, c) PROVE Typed'
  <2>1. PICK expected \in {0, heads[a]},
             inputs \in {{}} \cup {{Ref(b, heads[b])} : b \in {d \in Artifacts \ {a} : heads[d] > 0}} :
          work' = [work EXCEPT ![p] = [artifact |-> a, content |-> c, inputs |-> inputs,
                                       expected |-> expected, base |-> 0]]
    BY <1>5 DEF Publish
  <2>2. inputs \in SUBSET Refs
    BY <1>4
  <2>3. [artifact |-> a, content |-> c, inputs |-> inputs, expected |-> expected, base |-> 0] \in Works
    BY <2>2, <1>3, <1>0 DEF Works
  <2> QED
    BY <1>0, <1>5, <2>1, <2>3 DEF Typed, Publish, Goto, board, history, Labels
<1>6. CASE Lock(p)
  BY <1>0, <1>6 DEF Typed, Lock, Goto, board, history, Labels
<1>7. CASE Judge(p)
  BY <1>0, <1>7 DEF Typed, Judge, Goto, board, history, Labels
<1>8. CASE Unlink(p)
  BY <1>0, <1>8 DEF Typed, Unlink, Goto, board, history, Labels
<1>9. CASE TimesOut(p)
  BY <1>0, <1>9 DEF Typed, TimesOut, End, Goto, board, history, Labels
<1>10. CASE Release(p)
  BY <1>0, <1>10 DEF Typed, Release, End, Goto, board, history, Labels
<1>11. CASE Remove(p)
  BY <1>0, <1>11 DEF Typed, Remove, End, Goto, board, history, Labels
<1>12. CASE Check(p)
  <2>1. w.artifact \in Artifacts /\ w \in Works
    BY <1>1, <1>12 DEF Check
  <2>2. answers' \in SUBSET Refs
    BY <2>1, <1>0, <1>4, <1>12 DEF Check, Typed
  <2>3. work' = work \/ work' = [work EXCEPT ![p].base = heads[w.artifact]]
    BY <1>12 DEF Check
  <2>4. [w EXCEPT !.base = heads[w.artifact]] \in Works
    BY <2>1, <1>3 DEF Works
  <2>5. work' \in [Procs -> Works \cup {NoWork}] /\ (\A q \in Procs : pc'[q] # "idle" => work'[q] \in Works)
    BY <2>1, <2>3, <2>4, <1>0, <1>12 DEF Typed, Check, Goto
  <2>6. pc' \in [Procs -> Labels]
    BY <1>0, <1>12 DEF Typed, Check, Goto, Labels
  <2> QED
    BY <1>0, <1>12, <2>2, <2>5, <2>6 DEF Typed, Check, board
<1>13. CASE PutBlob(p)
  BY <1>0, <1>1, <1>13 DEF Typed, PutBlob, Goto, history, Labels
<1>14. CASE Create(p)
  <2>1. files' \in [Artifacts -> [1..MaxRevision -> {Absent, Torn} \cup Records]]
    <3> DEFINE Files == {Absent, Torn} \cup Records
    <3>1. w.artifact \in Artifacts /\ w.base + 1 \in 1..MaxRevision
      BY <1>1, <1>2, <1>14 DEF Create, Publishing
    <3>2. files \in [Artifacts -> [1..MaxRevision -> Files]] /\ Torn \in Files
      BY <1>0 DEF Typed
    <3>3. files' = files \/ files' = [files EXCEPT ![w.artifact][w.base + 1] = Torn]
      BY <1>14 DEF Create
    <3> HIDE DEF w, Files
    <3>4. [files EXCEPT ![w.artifact][w.base + 1] = Torn] \in [Artifacts -> [1..MaxRevision -> Files]]
      BY <3>1, <3>2, EntryTyped, Zenon
    <3>5. files' \in [Artifacts -> [1..MaxRevision -> Files]]
      BY <3>2, <3>3, <3>4
    <3> QED
      BY <3>5 DEF Files
  <2> QED
    BY <1>0, <1>14, <2>1 DEF Typed, Create, Goto, history, Labels
<1>15. CASE Fill(p)
  <2>1. [content |-> w.content, inputs |-> w.inputs, supersedes |-> w.expected] \in Records
    BY <1>1, <1>15 DEF Fill, Records
  <2> QED
    BY <1>0, <1>1, <1>2, <1>15, <2>1 DEF Typed, Fill, Goto, history, Labels, Publishing
<1>16. CASE MoveHead(p)
  <2>1. files[w.artifact][w.base + 1] \in Records
    <3>1. files[w.artifact][w.base + 1] = RecordOf(w)
      BY <1>16 DEF IInv, WriterInv, MoveHead
    <3> QED
      BY <3>1, <1>1, <1>16 DEF RecordOf, Records, MoveHead
  <2>2. Ref(w.artifact, w.base + 1) \in Refs
    BY <2>1, <1>0, <1>1, <1>2, <1>16, HeadIsRef DEF MoveHead, Publishing
  <2> QED
    BY <1>0, <1>1, <1>2, <1>16, <2>2 DEF Typed, MoveHead, Goto, history, Labels, Publishing
<1>17. CASE Fails(p)
  <2>1. cut' \in SUBSET Artifacts
    BY <1>0, <1>1, <1>17 DEF Typed, Fails, Interrupts
  <2>2. heads' \in [Artifacts -> 0..MaxRevision]
    <3>1. CASE heads' = heads
      BY <1>0, <3>1 DEF Typed
    <3>2. CASE pc[p] = "move" /\ heads' = [heads EXCEPT ![w.artifact] = w.base + 1]
      <4>1. w.artifact \in Artifacts /\ w.base + 1 \in 0..MaxRevision
        BY <1>0, <1>1, <1>2, <3>2 DEF Publishing
      <4> QED
        BY <1>0, <3>2, <4>1 DEF Typed
    <3> QED
      BY <1>17, <3>1, <3>2 DEF Fails
  <2> QED
    BY <1>0, <1>17, <2>1, <2>2 DEF Typed, Fails, Fault, Goto, Labels
<1>18. CASE Crash(p)
  <2>1. cut' \in SUBSET Artifacts
    BY <1>0, <1>1, <1>18 DEF Typed, Crash, Interrupts
  <2>2. lock' \in [Artifacts -> Procs \cup {"none", "dead", "torn"}]
    BY <1>0, <1>1, <1>18 DEF Typed, Crash
  <2> QED
    BY <1>0, <1>18, <2>1, <2>2 DEF Typed, Crash, Fault, End, Goto, Labels, board
<1> QED
  BY <1>5, <1>6, <1>7, <1>8, <1>9, <1>10, <1>11, <1>12, <1>13, <1>14, <1>15, <1>16, <1>17, <1>18
     DEF StepOf

-----------------------------------------------------------------------------
(* The invariant. *)

Preserved == WorkInv' /\ WriterInv' /\ ChainInv' /\ RecordInv' /\ AnswersStay' /\ BlockedOnlyWhenCut'

\* The others are where they were.
OthersStay(p) == \A q \in Procs \ {p} : pc'[q] = pc[q] /\ work'[q] = work[q]

\* A step that touches no file, and after which p is not publishing, keeps the
\* invariant: if p was behind the revision file, the publication is cut.
LEMMA QuietStep ==
  ASSUME IInv, Typed', NEW p \in Procs, OthersStay(p), UNCHANGED board,
         \A ref \in answers' \ answers : Readable(ref) /\ ref.revision <= heads[ref.artifact],
         pc'[p] \notin Publishing, pc'[p] # "idle" => work'[p].expected < MaxRevision,
         cut \subseteq cut', pc[p] \in Writing => work[p].artifact \in cut'
  PROVE  Preserved
<1>0. blobs' = blobs /\ files' = files /\ heads' = heads
  BY DEF board
<1>1. \A ref : Readable(ref)' <=> Readable(ref)
  BY <1>0, SameReadable
<1>2. WorkInv'
  BY <1>0, <1>1 DEF IInv, WorkInv, OthersStay, Publishing
<1>3. WriterInv'
  BY <1>0 DEF IInv, WriterInv, OthersStay, Publishing, Writing, RecordOf
<1>4. ChainInv'
  BY <1>0 DEF IInv, ChainInv
<1>5. RecordInv'
  BY <1>0, <1>1 DEF IInv, RecordInv
<1>6. AnswersStay'
  BY <1>0, <1>1 DEF IInv, AnswersStay
<1>7. BlockedOnlyWhenCut'
  BY <1>0 DEF IInv, BlockedOnlyWhenCut, OthersStay, Writing
<1> QED
  BY <1>2, <1>3, <1>4, <1>5, <1>6, <1>7 DEF Preserved

\* A step with no files, no answers and the same history keeps what it keeps.
LEMMA WaitingKeepsInv ==
  ASSUME IInv, Typed', NEW p \in Procs,
         \/ \E a \in Artifacts, c \in Contents : Publish(p, a, c)
         \/ Lock(p) \/ Judge(p) \/ Unlink(p) \/ TimesOut(p) \/ Release(p) \/ Remove(p)
  PROVE  Preserved
<1>0. Typed /\ MaxRevision \in Nat \ {0}
  BY BlackboardAssumption DEF IInv
<1>1. UNCHANGED board /\ UNCHANGED history
  BY DEF Publish, Lock, Judge, Unlink, TimesOut, Release, Remove
<1>2. OthersStay(p) /\ pc'[p] \notin Publishing /\ pc[p] \notin Writing
  BY <1>0 DEF Publish, Lock, Judge, Unlink, TimesOut, Release, Remove, End, Goto, OthersStay,
     Typed, Publishing, Writing
<1>3. pc'[p] # "idle" => work'[p].expected < MaxRevision
  <2>1. ASSUME NEW a \in Artifacts, NEW c \in Contents, Publish(p, a, c)
        PROVE  work'[p].expected < MaxRevision
    BY <1>0, <2>1 DEF Publish, Typed
  <2>2. CASE Lock(p) \/ Judge(p) \/ Unlink(p) \/ TimesOut(p) \/ Release(p) \/ Remove(p)
    BY <1>0, <2>2 DEF IInv, WorkInv, Lock, Judge, Unlink, TimesOut, Release, Remove, End, Goto, Typed
  <2> QED
    BY <2>1, <2>2
<1> QED
  BY <1>1, <1>2, <1>3, QuietStep DEF history

\* The check: the answer is the present head, or the publication goes on with
\* what it expected and found, which can be read.
LEMMA CheckKeepsInv ==
  ASSUME IInv, Typed', NEW p \in Procs, Check(p)
  PROVE  Preserved
<1> DEFINE a == work[p].artifact
<1>0. /\ Typed /\ MaxRevision \in Nat \ {0} /\ pc[p] = "check"
      /\ UNCHANGED board /\ cut' = cut /\ work[p] \in Works /\ a \in Artifacts
      /\ OthersStay(p) /\ heads[a] \in 0..MaxRevision
  BY BlackboardAssumption DEF IInv, Check, OthersStay, Goto, Typed, Works
<1>1. work[p].expected < MaxRevision
  BY <1>0 DEF IInv, WorkInv
<1>2. CASE pc'[p] \notin Publishing
  <2>1. \A ref \in answers' \ answers : Readable(ref) /\ ref.revision <= heads[ref.artifact]
    <3> SUFFICES ASSUME heads[a] > 0
                 PROVE  /\ Readable(Ref(a, heads[a]))
                        /\ Ref(a, heads[a]).revision <= heads[Ref(a, heads[a]).artifact]
      BY DEF Check
    <3>1. heads[a] \in 1..MaxRevision
      BY <1>0
    <3>2. files[a][heads[a]] \in Records
      BY <1>0, <3>1 DEF IInv, ChainInv
    <3>3. Complete(a, heads[a]) /\ files[a][heads[a]].content \in blobs
      BY <1>0, <3>1, <3>2, CompleteIsRecord DEF IInv, RecordInv
    <3> QED
      BY <1>0, <3>1, <3>3 DEF Ref, Readable
  <2>2. work'[p].expected = work[p].expected
    BY <1>0 DEF Check, Typed, Works
  <2> QED
    BY <1>0, <1>1, <1>2, <2>1, <2>2, QuietStep DEF Writing
<1>3. CASE pc'[p] \in Publishing
  <2>1. /\ heads[a] = work[p].expected /\ work' = [work EXCEPT ![p].base = heads[a]]
        /\ pc'[p] = "blob" /\ answers' = answers /\ \A ref \in work[p].inputs : Readable(ref)
    BY <1>0, <1>3 DEF Check, Goto, Typed, Publishing
  <2>2. /\ work'[p].artifact = a /\ work'[p].expected = work[p].expected
        /\ work'[p].inputs = work[p].inputs /\ work'[p].base = heads[a]
    BY <1>0, <2>1 DEF Typed, Works
  <2>3. blobs' = blobs /\ files' = files /\ heads' = heads /\ \A ref : Readable(ref)' <=> Readable(ref)
    BY <1>0, SameReadable DEF board
  <2>4. WorkInv'
    BY <1>0, <1>1, <2>1, <2>2, <2>3 DEF IInv, WorkInv, OthersStay, Publishing
  <2>5. WriterInv'
    BY <1>0, <2>1, <2>3 DEF IInv, WriterInv, OthersStay, Writing, RecordOf
  <2>6. ChainInv' /\ RecordInv'
    BY <2>3 DEF IInv, ChainInv, RecordInv
  <2>7. AnswersStay'
    BY <2>1, <2>3 DEF IInv, AnswersStay
  <2>8. BlockedOnlyWhenCut'
    BY <1>0, <2>3 DEF IInv, BlockedOnlyWhenCut, OthersStay
  <2> QED
    BY <2>4, <2>5, <2>6, <2>7, <2>8 DEF Preserved
<1> QED
  BY <1>2, <1>3

\* While everything that could be read still can, the inputs of publications
\* and of whole revisions can be read, and so can the answers.
LEMMA InputsStay ==
  ASSUME IInv, Typed', Kept
  PROVE  /\ \A p \in Procs : pc[p] \in Publishing => \A ref \in work[p].inputs : Readable(ref)'
         /\ \A a \in Artifacts, n \in 1..MaxRevision : files[a][n] \in Records =>
              \A ref \in files[a][n].inputs : Readable(ref)'
         /\ \A ref \in answers : Readable(ref)'
<1>0. Typed
  BY DEF IInv
<1>1. \A ref \in Refs : Readable(ref) => Readable(ref)'
  BY <1>0, ReadableStays
<1>2. ASSUME NEW p \in Procs, pc[p] \in Publishing, NEW ref \in work[p].inputs
      PROVE  Readable(ref)'
  <2>1. ref \in Refs
    BY <1>0, <1>2 DEF Typed, Works, Publishing
  <2>2. Readable(ref)
    BY <1>2 DEF IInv, WorkInv
  <2> QED
    BY <1>1, <2>1, <2>2
<1>3. ASSUME NEW a \in Artifacts, NEW n \in 1..MaxRevision, files[a][n] \in Records,
             NEW ref \in files[a][n].inputs
      PROVE  Readable(ref)'
  <2>1. ref \in Refs
    BY <1>3 DEF Records
  <2>2. Readable(ref)
    BY <1>3 DEF IInv, RecordInv
  <2> QED
    BY <1>1, <2>1, <2>2
<1>4. ASSUME NEW ref \in answers PROVE Readable(ref)'
  <2>1. ref \in Refs /\ Readable(ref)
    BY <1>0, <1>4 DEF Typed, IInv, AnswersStay
  <2> QED
    BY <1>1, <2>1
<1> QED
  BY <1>2, <1>3, <1>4

\* The blob is there before the revision file.
LEMMA PutBlobKeepsInv ==
  ASSUME IInv, Typed', NEW p \in Procs, PutBlob(p)
  PROVE  Preserved
<1>0. /\ Typed /\ pc[p] = "blob" /\ pc' = [pc EXCEPT ![p] = "create"] /\ work' = work
      /\ files' = files /\ heads' = heads /\ answers' = answers /\ cut' = cut
      /\ blobs' = blobs \cup {work[p].content} /\ pc \in [Procs -> Labels]
  BY DEF IInv, PutBlob, Goto, history, Typed
<1>1. Kept
  BY <1>0 DEF Kept
<1>2. WorkInv'
  BY <1>0, <1>1, InputsStay DEF IInv, WorkInv, Publishing
<1>3. WriterInv'
  BY <1>0 DEF IInv, WriterInv, Writing, RecordOf
<1>4. ChainInv'
  BY <1>0 DEF IInv, ChainInv
<1>5. RecordInv'
  BY <1>0, <1>1, InputsStay DEF IInv, RecordInv
<1>6. AnswersStay'
  BY <1>0, <1>1, InputsStay DEF IInv, AnswersStay
<1>7. BlockedOnlyWhenCut'
  BY <1>0 DEF IInv, BlockedOnlyWhenCut, Writing
<1> QED
  BY <1>2, <1>3, <1>4, <1>5, <1>6, <1>7 DEF Preserved

\* The exclusive creation: where the file was absent, the base of p is still
\* the head and nobody else has created a file behind it.
LEMMA CreateKeepsInv ==
  ASSUME IInv, Typed', NEW p \in Procs, Create(p)
  PROVE  Preserved
<1> DEFINE a == work[p].artifact  n == work[p].base + 1
<1>0. /\ Typed /\ MaxRevision \in Nat \ {0} /\ pc[p] = "create" /\ OthersStay(p)
      /\ UNCHANGED <<work, blobs, heads, answers, cut>>
  BY BlackboardAssumption DEF IInv, Create, OthersStay, Goto, history, Typed
<1>1. /\ a \in Artifacts /\ work[p].base \in 0..MaxRevision /\ heads[a] \in 0..MaxRevision
      /\ work[p].expected = work[p].base /\ work[p].expected < MaxRevision
      /\ work[p].base <= heads[a] /\ work[p].content \in blobs
      /\ n \in 1..MaxRevision
  BY <1>0 DEF IInv, Typed, WorkInv, Works, Publishing
<1>2. CASE files[a][n] # Absent
  <2>1. files' = files /\ pc'[p] = "release"
    BY <1>0, <1>2 DEF Create, Goto, Typed
  <2> QED
    BY <1>0, <1>1, <2>1, QuietStep DEF Publishing, Writing, board
<1>3. CASE files[a][n] = Absent
  <2>1. /\ files' = [files EXCEPT ![a][n] = Torn] /\ pc' = [pc EXCEPT ![p] = "fill"]
        /\ pc'[p] = "fill"
    BY <1>0, <1>3 DEF Create, Goto, Typed
  <2>2. /\ files'[a][n] = Torn
        /\ \A b \in Artifacts, m \in 1..MaxRevision :
             ~(b = a /\ m = n) => files'[b][m] = files[b][m]
    BY <1>0, <1>1, <2>1 DEF Typed
  <2>3. Kept
    BY <1>0, <1>3, <2>2, MarksAreNoRecords DEF Kept
  <2>4. work[p].base = heads[a]
    <3>1. ~(n <= heads[a])
      BY <1>1, <1>3, MarksAreNoRecords DEF IInv, ChainInv
    <3> QED
      BY <1>1, <3>1
  <2>5. \A q \in Procs : pc[q] \in Writing /\ work[q].artifact = a => FALSE
    <3> SUFFICES ASSUME NEW q \in Procs, pc[q] \in Writing, work[q].artifact = a PROVE FALSE
      OBVIOUS
    <3>1. work[q].base = heads[a]
      BY DEF IInv, WriterInv
    <3>2. files[a][n] = Torn \/ files[a][n] = RecordOf(work[q])
      BY <2>4, <3>1 DEF IInv, WriterInv, Writing
    <3>3. RecordOf(work[q]) \in Records
      BY <1>0 DEF RecordOf, Records, Typed, Works, Writing
    <3> QED
      BY <1>3, <3>2, <3>3, MarksAreNoRecords
  <2>6. WorkInv'
    BY <1>0, <1>1, <2>1, <2>3, InputsStay DEF IInv, WorkInv, Publishing, OthersStay
  <2>7. WriterInv'
    <3>1. \A q \in Procs : pc'[q] \in Writing => work'[q].base = heads'[work'[q].artifact]
      BY <1>0, <2>1, <2>4 DEF IInv, WriterInv, OthersStay
    <3>2. \A q \in Procs : pc'[q] \in Writing => q = p \/ work[q].artifact # a
      BY <1>0, <2>5 DEF OthersStay
    <3>3. \A q \in Procs : pc'[q] \in Writing => work[q].artifact \in Artifacts /\ work[q].base + 1 \in 1..MaxRevision
      BY <1>0, <1>1 DEF IInv, Typed, WorkInv, Works, Publishing, Writing, OthersStay
    <3>4. \A q \in Procs \ {p} : pc'[q] \in Writing =>
            files'[work[q].artifact][work[q].base + 1] = files[work[q].artifact][work[q].base + 1]
      BY <2>2, <3>2, <3>3
    <3>5. \A q \in Procs : pc'[q] = "fill" => files'[work[q].artifact][work[q].base + 1] = Torn
      BY <1>0, <2>2, <3>4 DEF IInv, WriterInv, Writing, OthersStay
    <3>6. \A q \in Procs : pc'[q] = "move" =>
            files'[work[q].artifact][work[q].base + 1] = RecordOf(work[q])
      BY <1>0, <2>1, <3>4 DEF IInv, WriterInv, Writing, OthersStay
    <3>7. \A q, r \in Procs : pc'[q] \in Writing /\ pc'[r] \in Writing
                              /\ work[q].artifact = work[r].artifact => q = r
      BY <1>0, <3>2 DEF IInv, WriterInv, OthersStay
    <3> QED
      BY <1>0, <3>1, <3>5, <3>6, <3>7 DEF WriterInv, RecordOf
  <2>8. ChainInv'
    BY <1>0, <1>1, <1>3, <2>2, <2>4, MarksAreNoRecords DEF IInv, ChainInv
  <2>9. RecordInv'
    BY <1>0, <1>1, <2>2, <2>3, InputsStay, MarksAreNoRecords DEF IInv, RecordInv
  <2>10. AnswersStay'
    BY <1>0, <2>3, InputsStay DEF IInv, AnswersStay
  <2>11. BlockedOnlyWhenCut'
    <3> SUFFICES ASSUME NEW b \in Artifacts, heads[b] < MaxRevision, files'[b][heads[b] + 1] # Absent
                 PROVE  b \in cut \/ \E q \in Procs : pc'[q] \in Writing /\ work[q].artifact = b
      BY <1>0 DEF BlockedOnlyWhenCut, Writing
    <3>1. CASE b = a
      BY <2>1, <3>1 DEF Writing
    <3>2. CASE b # a
      <4>1. files'[b][heads[b] + 1] = files[b][heads[b] + 1]
        BY <1>0, <2>2, <3>2 DEF Typed
      <4> QED
        BY <1>0, <4>1 DEF IInv, BlockedOnlyWhenCut, Writing, OthersStay
    <3> QED
      BY <3>1, <3>2
  <2> QED
    BY <2>6, <2>7, <2>8, <2>9, <2>10, <2>11 DEF Preserved
<1> QED
  BY <1>2, <1>3

\* The record replaces the mark that p has made, and its blob and inputs are
\* there.
LEMMA FillKeepsInv ==
  ASSUME IInv, Typed', NEW p \in Procs, Fill(p)
  PROVE  Preserved
<1> DEFINE a == work[p].artifact  n == work[p].base + 1
<1>0. /\ Typed /\ MaxRevision \in Nat \ {0} /\ pc[p] = "fill" /\ OthersStay(p) /\ pc'[p] = "move"
      /\ UNCHANGED <<work, blobs, heads, answers, cut>>
      /\ files' = [files EXCEPT ![a][n] = RecordOf(work[p])]
  BY BlackboardAssumption DEF IInv, Fill, OthersStay, Goto, history, Typed, RecordOf
<1>1. /\ work[p] \in Works /\ a \in Artifacts /\ work[p].base \in 0..MaxRevision
      /\ work[p].expected = work[p].base /\ work[p].base < MaxRevision
      /\ work[p].content \in blobs /\ n \in 1..MaxRevision
      /\ work[p].base = heads[a] /\ files[a][n] = Torn
  BY <1>0 DEF IInv, Typed, WorkInv, WriterInv, Works, Publishing, Writing
<1>2. /\ files'[a][n] = RecordOf(work[p]) /\ RecordOf(work[p]) \in Records
      /\ \A b \in Artifacts, m \in 1..MaxRevision : ~(b = a /\ m = n) => files'[b][m] = files[b][m]
  BY <1>0, <1>1 DEF Typed, RecordOf, Records, Works
<1>3. Kept
  BY <1>0, <1>1, <1>2, MarksAreNoRecords DEF Kept
<1>4. WorkInv'
  BY <1>0, <1>3, InputsStay DEF IInv, WorkInv, Publishing, OthersStay
<1>5. WriterInv'
  <2>1. \A q \in Procs : pc'[q] \in Writing => q = p \/ work[q].artifact # a
    BY <1>0 DEF IInv, WriterInv, OthersStay, Writing
  <2>2. \A q \in Procs : pc'[q] \in Writing =>
          work[q].artifact \in Artifacts /\ work[q].base + 1 \in 1..MaxRevision
    BY <1>0, <1>1 DEF IInv, Typed, WorkInv, Works, Publishing, Writing, OthersStay
  <2>3. \A q \in Procs \ {p} : pc'[q] \in Writing =>
          files'[work[q].artifact][work[q].base + 1] = files[work[q].artifact][work[q].base + 1]
    BY <1>2, <2>1, <2>2
  <2>4. \A q \in Procs : pc'[q] = "fill" => files'[work[q].artifact][work[q].base + 1] = Torn
    BY <1>0, <2>3 DEF IInv, WriterInv, Writing, OthersStay
  <2>5. \A q \in Procs : pc'[q] = "move" =>
          files'[work[q].artifact][work[q].base + 1] = RecordOf(work[q])
    BY <1>0, <1>2, <2>3 DEF IInv, WriterInv, Writing, OthersStay
  <2>6. \A q \in Procs : pc'[q] \in Writing => work[q].base = heads[work[q].artifact]
    BY <1>0, <1>1 DEF IInv, WriterInv, OthersStay
  <2> QED
    BY <1>0, <2>1, <2>4, <2>5, <2>6 DEF IInv, WriterInv, RecordOf, OthersStay
<1>6. ChainInv'
  BY <1>0, <1>1, <1>2, <1>3, MarksAreNoRecords DEF IInv, ChainInv, Kept
<1>7. RecordInv'
  <2> SUFFICES ASSUME NEW b \in Artifacts, NEW m \in 1..MaxRevision, files'[b][m] \in Records
               PROVE  /\ files'[b][m].content \in blobs' /\ files'[b][m].supersedes = m - 1
                      /\ \A ref \in files'[b][m].inputs : Readable(ref)'
    BY DEF RecordInv
  <2>1. CASE b = a /\ m = n
    <3>1. files'[b][m] = RecordOf(work[p])
      BY <1>2, <2>1
    <3>2. \A ref \in work[p].inputs : Readable(ref)'
      BY <1>0, <1>3, InputsStay DEF Publishing
    <3> QED
      BY <1>0, <1>1, <2>1, <3>1, <3>2 DEF RecordOf
  <2>2. CASE ~(b = a /\ m = n)
    BY <1>0, <1>2, <1>3, <2>2, InputsStay DEF IInv, RecordInv
  <2> QED
    BY <2>1, <2>2
<1>8. AnswersStay'
  BY <1>0, <1>3, InputsStay DEF IInv, AnswersStay
<1>9. BlockedOnlyWhenCut'
  <2> SUFFICES ASSUME NEW b \in Artifacts, heads[b] < MaxRevision, files'[b][heads[b] + 1] # Absent
               PROVE  b \in cut \/ \E q \in Procs : pc'[q] \in Writing /\ work[q].artifact = b
    BY <1>0 DEF BlockedOnlyWhenCut, Writing
  <2>1. CASE b = a
    BY <1>0, <2>1 DEF Writing
  <2>2. CASE b # a
    <3>1. files'[b][heads[b] + 1] = files[b][heads[b] + 1]
      BY <1>0, <1>2, <2>2 DEF Typed
    <3> QED
      BY <1>0, <3>1 DEF IInv, BlockedOnlyWhenCut, Writing, OthersStay
  <2> QED
    BY <2>1, <2>2
<1> QED
  BY <1>4, <1>5, <1>6, <1>7, <1>8, <1>9 DEF Preserved

\* The head moves to the revision that p has written, which nobody follows yet.
LEMMA HeadMoveKeepsInv ==
  ASSUME IInv, Typed', NEW p \in Procs, pc[p] = "move", pc' = [pc EXCEPT ![p] = "release"],
         heads' = [heads EXCEPT ![work[p].artifact] = work[p].base + 1],
         answers' \subseteq answers \cup {Ref(work[p].artifact, work[p].base + 1)},
         UNCHANGED <<work, blobs, files, cut>>
  PROVE  Preserved
<1> DEFINE a == work[p].artifact  n == work[p].base + 1
<1>0. Typed /\ MaxRevision \in Nat \ {0} /\ OthersStay(p) /\ pc'[p] = "release"
  BY BlackboardAssumption DEF IInv, OthersStay, Typed
<1>1. /\ work[p] \in Works /\ a \in Artifacts /\ n \in 1..MaxRevision
      /\ work[p].base = heads[a] /\ files[a][n] = RecordOf(work[p])
      /\ heads[a] \in 0..MaxRevision
  BY <1>0 DEF IInv, Typed, WorkInv, WriterInv, Works, Publishing, Writing
<1>2. files[a][n] \in Records
  BY <1>1 DEF RecordOf, Records, Works
<1>3. /\ heads'[a] = n /\ n = heads[a] + 1
      /\ \A b \in Artifacts : b # a => heads'[b] = heads[b]
      /\ \A b \in Artifacts : heads'[b] \in 0..MaxRevision /\ heads[b] \in 0..MaxRevision
                              /\ heads[b] <= heads'[b]
  BY <1>0, <1>1 DEF Typed
<1>4. \A ref : Readable(ref)' <=> Readable(ref)
  BY SameReadable
<1>5. \A q \in Procs : pc'[q] \in Writing => work[q].artifact # a
  BY <1>0 DEF IInv, WriterInv, OthersStay, Writing
<1>6. WorkInv'
  <2>1. \A q \in Procs : pc[q] # "idle" => work[q].artifact \in Artifacts /\ work[q].base \in 0..MaxRevision
    BY <1>0 DEF Typed, Works
  <2>2. \A q \in Procs : pc'[q] \in Publishing => work[q].base <= heads'[work[q].artifact]
    BY <1>0, <1>3, <2>1 DEF IInv, WorkInv, OthersStay, Publishing
  <2> QED
    BY <1>0, <1>4, <2>2 DEF IInv, WorkInv, OthersStay, Publishing
<1>7. WriterInv'
  <2>1. \A q \in Procs : pc'[q] \in Writing => work[q].base = heads'[work[q].artifact]
    BY <1>0, <1>3, <1>5 DEF IInv, WriterInv, OthersStay, Typed, Works, Writing
  <2> QED
    BY <1>0, <2>1 DEF IInv, WriterInv, OthersStay, Writing, RecordOf
<1>8. ChainInv'
  BY <1>2, <1>3 DEF IInv, ChainInv
<1>9. RecordInv'
  BY <1>4 DEF IInv, RecordInv
<1>10. AnswersStay'
  <2>1. Readable(Ref(a, n)) /\ Ref(a, n).artifact = a /\ Ref(a, n).revision = n
    <3>1. Complete(a, n) /\ files[a][n].content \in blobs
      BY <1>0, <1>1, <1>2, CompleteIsRecord DEF IInv, RecordInv
    <3> QED
      BY <3>1 DEF Readable, Ref
  <2>2. \A ref \in answers : ref.revision <= heads'[ref.artifact]
    BY <1>0, <1>3 DEF IInv, AnswersStay, Typed, Refs
  <2>3. ASSUME NEW ref \in answers' PROVE Readable(ref) /\ ref.revision <= heads'[ref.artifact]
    <3>1. CASE ref \in answers
      BY <2>2, <3>1 DEF IInv, AnswersStay
    <3>2. CASE ref = Ref(a, n)
      <4>1. Readable(ref) /\ ref.artifact = a /\ ref.revision = n
        BY <2>1, <3>2
      <4>2. n <= n /\ heads'[a] = n
        BY <1>1, <1>3
      <4> QED
        BY <4>1, <4>2
    <3> QED
      BY <3>1, <3>2
  <2> QED
    BY <1>4, <2>3 DEF AnswersStay
<1>11. BlockedOnlyWhenCut'
  <2> SUFFICES ASSUME NEW b \in Artifacts, heads'[b] < MaxRevision, files[b][heads'[b] + 1] # Absent
               PROVE  b \in cut \/ \E q \in Procs : pc'[q] \in Writing /\ work[q].artifact = b
    BY DEF BlockedOnlyWhenCut, Writing
  <2>1. CASE b = a
    <3>1. n + 1 \in 1..MaxRevision /\ files[a][n + 1] # Absent
      BY <1>0, <1>1, <1>3, <2>1
    <3>2. n + 1 <= heads[a] + 1
      BY <1>1, <3>1 DEF IInv, ChainInv
    <3> QED
      BY <1>1, <1>3, <3>2
  <2>2. CASE b # a
    BY <1>0, <1>1, <1>3, <2>2 DEF IInv, BlockedOnlyWhenCut, Writing, OthersStay
  <2> QED
    BY <2>1, <2>2
<1> QED
  BY <1>6, <1>7, <1>8, <1>9, <1>10, <1>11 DEF Preserved

\* A publication that breaks off behind its revision file is cut.
LEMMA FaultKeepsInv ==
  ASSUME IInv, Typed', NEW p \in Procs, Fails(p) \/ Crash(p)
  PROVE  Preserved
<1>0. Typed
  BY DEF IInv
<1>1. CASE Fails(p) /\ cut' = Interrupts(p) /\ UNCHANGED heads
  BY <1>0, <1>1, QuietStep
     DEF IInv, WorkInv, Fails, Fault, Interrupts, Goto, OthersStay, Typed, Publishing, Writing, board
<1>2. CASE Fails(p) /\ pc[p] = "move" /\ UNCHANGED cut
           /\ heads' = [heads EXCEPT ![work[p].artifact] = work[p].base + 1]
  BY <1>2, HeadMoveKeepsInv DEF Fails, Goto
<1>3. CASE Crash(p)
  BY <1>0, <1>3, QuietStep
     DEF Crash, Fault, End, Interrupts, Goto, OthersStay, Typed, Publishing, Writing, board
<1> QED
  BY <1>1, <1>2, <1>3 DEF Fails

LEMMA InitIInv == Init => IInv
<1> SUFFICES ASSUME Init PROVE IInv
  OBVIOUS
<1>0. MaxRevision \in Nat \ {0} /\ MaxFaults \in Nat
  BY BlackboardAssumption
<1>1. Typed
  BY <1>0 DEF Init, Typed, Labels
<1>2. WorkInv /\ WriterInv
  BY DEF Init, WorkInv, WriterInv, Publishing, Writing
<1>3. ChainInv
  BY <1>0 DEF Init, ChainInv
<1>4. RecordInv
  BY <1>0, MarksAreNoRecords DEF Init, RecordInv
<1>5. AnswersStay /\ BlockedOnlyWhenCut
  BY <1>0 DEF Init, AnswersStay, BlockedOnlyWhenCut
<1> QED
  BY <1>1, <1>2, <1>3, <1>4, <1>5 DEF IInv

\* Every step keeps the invariant.
LEMMA NextIInv == IInv /\ [Next]_vars => IInv'
<1> SUFFICES ASSUME IInv, [Next]_vars PROVE IInv'
  OBVIOUS
<1>1. CASE Next
  <2>1. PICK p \in Procs : StepOf(p)
    BY <1>1 DEF Next, StepOf
  <2>2. Typed'
    BY <2>1, StepTyped
  <2>3. ASSUME MoveHead(p) PROVE Preserved
    BY <2>2, <2>3, HeadMoveKeepsInv DEF MoveHead, Goto
  <2>4. Preserved
    BY <2>1, <2>2, <2>3, WaitingKeepsInv, CheckKeepsInv, PutBlobKeepsInv, CreateKeepsInv,
       FillKeepsInv, FaultKeepsInv DEF StepOf
  <2> QED
    BY <2>2, <2>4 DEF IInv, Preserved
<1>2. CASE UNCHANGED vars
  BY <1>2 DEF vars, board, history, IInv, Typed, WorkInv, WriterInv, ChainInv, RecordInv,
     AnswersStay, BlockedOnlyWhenCut, Readable, Complete
<1> QED
  BY <1>1, <1>2

LEMMA SpecIInv == Spec => []IInv
  BY InitIInv, NextIInv, PTL DEF Spec

-----------------------------------------------------------------------------
(* What no step does. *)

Immutable == Kept /\ \A a \in Artifacts : heads[a] <= heads'[a]

\* No step changes a whole revision file, removes a blob or moves a head back.
LEMMA StepImmutable ==
  ASSUME IInv, IInv', NEW p \in Procs, StepOf(p)
  PROVE  Immutable
<1>0. Typed /\ Typed' /\ MaxRevision \in Nat \ {0}
  BY BlackboardAssumption DEF IInv
<1>1. \A a \in Artifacts : heads[a] <= heads'[a]
  <2>0. \A a \in Artifacts : heads[a] \in 0..MaxRevision
    BY <1>0 DEF Typed
  <2>1. CASE heads' = heads
    BY <2>0, <2>1
  <2>2. CASE pc[p] = "move" /\ heads' = [heads EXCEPT ![work[p].artifact] = work[p].base + 1]
    <3>1. work[p].artifact \in Artifacts /\ work[p].base = heads[work[p].artifact]
      BY <1>0, <2>2 DEF IInv, Typed, Works, WriterInv, Writing
    <3> QED
      BY <1>0, <2>0, <2>2, <3>1 DEF Typed
  <2> QED
    BY <2>1, <2>2 DEF StepOf, Publish, Lock, Judge, Unlink, TimesOut, Release, Remove, Check,
       PutBlob, Create, Fill, MoveHead, Fails, Crash, board
<1>2. CASE UNCHANGED <<blobs, files>>
  BY <1>1, <1>2 DEF Immutable, Kept
<1>3. CASE PutBlob(p)
  BY <1>1, <1>3 DEF PutBlob, Immutable, Kept
<1>4. CASE Create(p) \/ Fill(p)
  <2>1. /\ blobs' = blobs /\ work[p].artifact \in Artifacts /\ work[p].base + 1 \in 1..MaxRevision
    BY <1>0, <1>4 DEF IInv, Typed, Works, WorkInv, Publishing, Create, Fill
  <2>2. files' = files \/ files[work[p].artifact][work[p].base + 1] \in {Absent, Torn}
    BY <1>4 DEF Create, Fill, IInv, WriterInv
  <2>3. \A a \in Artifacts, n \in 1..MaxRevision :
          files'[a][n] = files[a][n] \/ (a = work[p].artifact /\ n = work[p].base + 1)
    <3> DEFINE Files == {Absent, Torn} \cup Records
               S == 1..MaxRevision
               b == work[p].artifact
               m == work[p].base + 1
    <3>1. PICK v : files' = files \/ files' = [files EXCEPT ![b][m] = v]
      BY <1>4 DEF Create, Fill
    <3>2. files \in [Artifacts -> [S -> Files]] /\ b \in Artifacts /\ m \in S
      BY <1>0, <2>1 DEF Typed
    <3> HIDE DEF Files, S, b, m
    <3>3. \A a \in Artifacts, n \in S :
            [files EXCEPT ![b][m] = v][a][n] = files[a][n] \/ (a = b /\ n = m)
      BY <3>2, EntryAlone
    <3>4. \A a \in Artifacts, n \in S : files'[a][n] = files[a][n] \/ (a = b /\ n = m)
      BY <3>1, <3>3
    <3> QED
      BY <3>4 DEF S, b, m
  <2>4. Kept
    BY <2>1, <2>2, <2>3, MarksAreNoRecords DEF Kept
  <2> QED
    BY <1>1, <2>4 DEF Immutable
<1> QED
  BY <1>2, <1>3, <1>4 DEF StepOf, Publish, Lock, Judge, Unlink, TimesOut, Release, Remove, Check,
     MoveHead, Fails, Crash, board

-----------------------------------------------------------------------------
(* Theorems. *)

\* The state of the board, its locks and its publishers keeps its types.
THEOREM BoardTypeCorrect == Spec => []TypeOK
<1>1. IInv => TypeOK
  <2> SUFFICES ASSUME IInv PROVE TypeOK
    OBVIOUS
  <2>1. Typed
    BY DEF IInv
  <2>2. \A p \in Procs : pc[p] \in Publishing => work[p].base < MaxRevision
    BY <2>1 DEF IInv, WorkInv, Publishing, Typed, Works
  <2>3. \A a \in Artifacts, n \in 1..MaxRevision : Complete(a, n) => files[a][n] \in Records
    BY <2>1, CompleteIsRecord
  <2> QED
    BY <2>1, <2>2, <2>3 DEF Typed, TypeOK, Publishing
<1>2. QED
  BY <1>1, SpecIInv, PTL

\* Whoever reads the head of an artifact (readHead, read: blackboard.ts:302-347),
\* or uses what publish returned (blackboard.ts:176-180), gets a whole revision
\* whose blob and inputs are there, after any faults and interleavings.
THEOREM PublishedIsReadable == Spec => []PublishedReadable
<1>1. IInv => PublishedReadable
  <2> SUFFICES ASSUME IInv PROVE HeadsReadable
    BY DEF IInv, PublishedReadable
  <2> SUFFICES ASSUME NEW a \in Artifacts, heads[a] > 0
               PROVE  /\ Complete(a, heads[a]) /\ Readable(Ref(a, heads[a]))
                      /\ \A ref \in files[a][heads[a]].inputs : Readable(ref)
    BY DEF HeadsReadable
  <2>1. Typed /\ heads[a] \in 1..MaxRevision
    BY BlackboardAssumption DEF IInv, Typed
  <2>2. files[a][heads[a]] \in Records
    BY <2>1 DEF IInv, ChainInv
  <2>3. Complete(a, heads[a])
    BY <2>1, <2>2, CompleteIsRecord
  <2> QED
    BY <2>1, <2>2, <2>3 DEF IInv, RecordInv, Readable, Ref
<1>2. QED
  BY <1>1, SpecIInv, PTL

\* No revision is lost to a publisher that looked too early: each one names the
\* revision right before it as the one its author saw (blackboard.ts:130-147),
\* also when two processes were inside one lock.
THEOREM NoPublicationLost == Spec => []SupersedesWhatItSaw
<1>1. IInv => SupersedesWhatItSaw
  BY CompleteIsRecord DEF IInv, SupersedesWhatItSaw, RecordInv
<1>2. QED
  BY <1>1, SpecIInv, PTL

\* The file of the next revision is in the way only while its writer is at work
\* or when a writer broke off behind it (blackboard.ts:173-180).
THEOREM BlockedOnlyByWriters == Spec => []BlockedOnlyWhenCut
<1>1. IInv => BlockedOnlyWhenCut
  BY DEF IInv
<1>2. QED
  BY <1>1, SpecIInv, PTL

\* Published revisions are immutable and the head never goes back: no step, of
\* however many processes inside one lock, changes a whole revision file,
\* removes a blob or moves a head to an earlier revision
\* (blackboard.ts:160-180).
THEOREM PublicationsImmutable == Spec => [][Immutable]_vars
<1>1. IInv /\ IInv' /\ [Next]_vars => [Immutable]_vars
  BY StepImmutable DEF Next, StepOf
<1>2. QED
  BY <1>1, SpecIInv, PTL DEF Spec

-----------------------------------------------------------------------------
(* The heads are the chains of RevisionChains. *)

\* Whatever a caller names as an input was published when it looked.
SeenInv ==
  \A p \in Procs : pc[p] # "idle" =>
    \A ref \in work[p].inputs : Readable(ref) /\ ref.revision <= heads[ref.artifact]

\* The heads that a caller reads are published, and publications stay.
LEMMA StepSeen ==
  ASSUME IInv, IInv', SeenInv, NEW p \in Procs, StepOf(p)
  PROVE  SeenInv'
<1>0. Typed /\ Typed' /\ MaxRevision \in Nat \ {0} /\ Immutable
  BY StepImmutable, BlackboardAssumption DEF IInv
<1>1. ASSUME NEW ref \in Refs, Readable(ref), ref.revision <= heads[ref.artifact]
      PROVE  Readable(ref)' /\ ref.revision <= heads'[ref.artifact]
  <2>1. Readable(ref)'
    BY <1>0, <1>1, ReadableStays DEF Immutable
  <2>2. /\ ref.artifact \in Artifacts /\ ref.revision \in 1..MaxRevision
        /\ heads[ref.artifact] \in 0..MaxRevision /\ heads'[ref.artifact] \in 0..MaxRevision
        /\ heads[ref.artifact] <= heads'[ref.artifact]
    BY <1>0 DEF Refs, Typed, Immutable
  <2> QED
    BY <1>1, <2>1, <2>2
<1>2. \A q \in Procs : pc[q] # "idle" => work[q].inputs \in SUBSET Refs
  BY <1>0 DEF Typed, Works
<1>3. ASSUME NEW q \in Procs, pc[q] # "idle", work'[q].inputs = work[q].inputs,
             NEW ref \in work'[q].inputs
      PROVE  Readable(ref)' /\ ref.revision <= heads'[ref.artifact]
  BY <1>1, <1>2, <1>3 DEF SeenInv
<1>4. ASSUME NEW a \in Artifacts, NEW c \in Contents, Publish(p, a, c) PROVE SeenInv'
  <2>1. PICK expected \in {0, heads[a]},
             inputs \in {{}} \cup {{Ref(b, heads[b])} : b \in {d \in Artifacts \ {a} : heads[d] > 0}} :
          work' = [work EXCEPT ![p] = [artifact |-> a, content |-> c, inputs |-> inputs,
                                       expected |-> expected, base |-> 0]]
    BY <1>4 DEF Publish
  <2>2. \A b \in Artifacts : heads[b] > 0 =>
          /\ Ref(b, heads[b]) \in Refs /\ Readable(Ref(b, heads[b]))
          /\ Ref(b, heads[b]).revision <= heads[Ref(b, heads[b]).artifact]
    <3> SUFFICES ASSUME NEW b \in Artifacts, heads[b] > 0
                 PROVE  /\ Ref(b, heads[b]) \in Refs /\ Readable(Ref(b, heads[b]))
                        /\ Ref(b, heads[b]).revision <= heads[Ref(b, heads[b]).artifact]
      OBVIOUS
    <3>1. heads[b] \in 1..MaxRevision /\ files[b][heads[b]] \in Records
      BY <1>0 DEF Typed, IInv, ChainInv
    <3>2. Complete(b, heads[b]) /\ files[b][heads[b]].content \in blobs
      BY <1>0, <3>1, CompleteIsRecord DEF IInv, RecordInv
    <3> QED
      BY <1>0, <3>1, <3>2, HeadIsRef DEF Readable, Ref
  <2>3. \A ref \in inputs : Readable(ref)' /\ ref.revision <= heads'[ref.artifact]
    BY <1>1, <2>2
  <2>4. work'[p].inputs = inputs /\ OthersStay(p)
    BY <1>0, <1>4, <2>1 DEF Typed, Publish, Goto, OthersStay
  <2>5. \A q \in Procs \ {p} : pc'[q] # "idle" => pc[q] # "idle" /\ work'[q].inputs = work[q].inputs
    BY <2>4 DEF OthersStay
  <2> QED
    BY <1>3, <2>3, <2>4, <2>5 DEF SeenInv
<1>5. ASSUME ~\E a \in Artifacts, c \in Contents : Publish(p, a, c)
      PROVE  \A q \in Procs : pc'[q] # "idle" => pc[q] # "idle" /\ work'[q].inputs = work[q].inputs
  <2>1. CASE UNCHANGED work
    BY <1>0, <1>5, <2>1 DEF StepOf, Lock, Judge, Unlink, TimesOut, Release, Remove, Check, PutBlob,
       Create, Fill, MoveHead, Fails, Crash, End, Goto, Typed
  <2>2. CASE work' = [work EXCEPT ![p] = NoWork] /\ pc' = [pc EXCEPT ![p] = "idle"]
    BY <1>0, <2>2 DEF Typed
  <2>3. CASE Check(p) /\ work' = [work EXCEPT ![p].base = heads[work[p].artifact]]
    <3>1. work'[p] = [work[p] EXCEPT !.base = heads[work[p].artifact]] /\ work[p] \in Works
      BY <1>0, <2>3 DEF Typed, Check
    <3> QED
      BY <1>0, <2>3, <3>1 DEF Typed, Works, Check, Goto
  <2> QED
    BY <1>5, <2>1, <2>2, <2>3 DEF StepOf, Lock, Judge, Unlink, TimesOut, Release, Remove, Check,
       PutBlob, Create, Fill, MoveHead, Fails, Crash, End, Goto
<1>6. CASE ~\E a \in Artifacts, c \in Contents : Publish(p, a, c)
  BY <1>3, <1>5, <1>6 DEF SeenInv
<1> QED
  BY <1>4, <1>6

LEMMA SpecSeen == Spec => []SeenInv
<1>1. Init => SeenInv
  BY DEF Init, SeenInv
<1>2. IInv /\ IInv' /\ SeenInv /\ [Next]_vars => SeenInv'
  <2>1. IInv /\ IInv' /\ SeenInv /\ Next => SeenInv'
    BY StepSeen DEF Next, StepOf
  <2>2. SeenInv /\ UNCHANGED vars => SeenInv'
    BY DEF vars, board, history, SeenInv, Readable, Complete
  <2> QED
    BY <2>1, <2>2
<1> QED
  BY <1>1, <1>2, SpecIInv, PTL DEF Spec

\* The chain that the head of an artifact names.
ChainOf(a) == [n \in 1..heads[a] |-> files[a][n]]

\* It is a sequence of as many records as the head says.
LEMMA ChainIsSeq ==
  ASSUME IInv, NEW a \in Artifacts
  PROVE  ChainOf(a) \in Seq(Records) /\ Len(ChainOf(a)) = heads[a] /\ heads[a] \in Nat
<1>1. heads[a] \in 0..MaxRevision /\ MaxRevision \in Nat
  BY BlackboardAssumption DEF IInv, Typed
<1>2. ChainOf(a) \in [1..heads[a] -> Records]
  BY <1>1 DEF ChainOf, IInv, ChainInv
<1> QED
  BY <1>1, <1>2 DEF ChainOf

\* Until its head moves an artifact has the same chain.
LEMMA ChainStays ==
  ASSUME IInv, Kept, NEW a \in Artifacts, heads'[a] = heads[a]
  PROVE  ChainOf(a)' = ChainOf(a)
<1>1. \A n \in 1..heads[a] : n \in 1..MaxRevision /\ files[a][n] \in Records
  BY BlackboardAssumption DEF IInv, Typed, ChainInv
<1>2. \A n \in 1..heads[a] : files'[a][n] = files[a][n]
  BY <1>1 DEF Kept
<1> QED
  BY <1>2 DEF ChainOf

\* A sequence with one more element.
LEMMA OneMore ==
  ASSUME NEW S, NEW k \in Nat, NEW f, \A n \in 1..(k + 1) : f[n] \in S
  PROVE  [n \in 1..(k + 1) |-> f[n]] = Append([n \in 1..k |-> f[n]], f[k + 1])
<1> DEFINE s == [n \in 1..k |-> f[n]]
<1>1. s \in [1..k -> S]
  OBVIOUS
<1>2. s \in Seq(S) /\ Len(s) = k
  BY <1>1
<1>3. /\ Append(s, f[k + 1]) \in Seq(S) /\ Len(Append(s, f[k + 1])) = k + 1
      /\ Append(s, f[k + 1])[k + 1] = f[k + 1]
      /\ \A n \in 1..k : Append(s, f[k + 1])[n] = s[n]
  BY <1>2
<1>4. Append(s, f[k + 1]) = [n \in 1..Len(Append(s, f[k + 1])) |-> Append(s, f[k + 1])[n]]
  BY <1>3
<1>5. \A n \in 1..(k + 1) : Append(s, f[k + 1])[n] = f[n]
  BY <1>3
<1> QED
  BY <1>3, <1>4, <1>5

\* What is readable and not ahead of the head is published.
LEMMA ReadableIsPublished ==
  ASSUME IInv, NEW ref \in Refs, Readable(ref), ref.revision <= heads[ref.artifact]
  PROVE  ref \in Chains!Published
<1> DEFINE a == ref.artifact  n == ref.revision
<1>1. a \in Artifacts /\ n \in 1..MaxRevision /\ heads[a] \in 0..MaxRevision
  BY DEF Refs, IInv, Typed
<1>2. n \in 1..heads[a] /\ ref = [artifact |-> a, revision |-> n, content |-> files[a][n].content]
  BY <1>1 DEF Refs, Readable
<1>3. n \in 1..Len(ChainOf(a)) /\ ChainOf(a)[n] = files[a][n]
  BY <1>1, <1>2, ChainIsSeq DEF ChainOf
<1>4. ref = Chains!Ref(a, n)
  BY <1>1, <1>2, <1>3 DEF Chains!Ref, ChainOf
<1> QED
  BY <1>1, <1>3, <1>4 DEF Chains!Published, ChainOf

\* A moved head is a publication.
LEMMA HeadMovePublishes ==
  ASSUME IInv, SeenInv, Kept, NEW p \in Procs, pc[p] = "move", UNCHANGED work,
         heads' = [heads EXCEPT ![work[p].artifact] = work[p].base + 1],
         answers' \in {answers, answers \cup {Ref(work[p].artifact, work[p].base + 1)}}
  PROVE  \E a \in Artifacts : Chains!Publish(a)
<1> DEFINE w == work[p]  a == work[p].artifact  n == work[p].base + 1
           chain == [b \in Artifacts |-> ChainOf(b)]
<1>0. /\ Typed /\ MaxRevision \in Nat \ {0} /\ w \in Works /\ a \in Artifacts
      /\ w.inputs \in SUBSET Refs /\ w.content \in Contents /\ w.expected = w.base
      /\ w.base = heads[a] /\ n \in 1..MaxRevision /\ n = heads[a] + 1
      /\ files[a][n] = RecordOf(w) /\ heads[a] \in Nat
  BY BlackboardAssumption DEF IInv, Typed, WorkInv, WriterInv, Works, Publishing, Writing
<1>1. w.inputs \in SUBSET Chains!Published
  BY <1>0, ReadableIsPublished DEF SeenInv
<1>2. \A b \in Artifacts : b # a => ChainOf(b)' = ChainOf(b)
  BY <1>0, ChainStays DEF Typed
<1>3. ChainOf(a)' = Append(ChainOf(a), RecordOf(w))
  <2>1. RecordOf(w) \in Records /\ heads'[a] = n
    BY <1>0 DEF RecordOf, Records, Works, Typed
  <2>2. \A m \in 1..n : files[a][m] \in Records /\ files'[a][m] = files[a][m]
    BY <1>0, <2>1 DEF IInv, ChainInv, Kept
  <2>3. [m \in 1..(heads[a] + 1) |-> files[a][m]]
          = Append([m \in 1..heads[a] |-> files[a][m]], files[a][heads[a] + 1])
    BY <1>0, <2>2, OneMore
  <2>4. ChainOf(a)' = [m \in 1..(heads[a] + 1) |-> files[a][m]]
    <3>1. ChainOf(a)' = [m \in 1..(heads[a] + 1) |-> files'[a][m]]
      BY <1>0, <2>1 DEF ChainOf
    <3> QED
      BY <1>0, <2>2, <3>1
  <2> QED
    BY <1>0, <2>3, <2>4 DEF ChainOf
<1>4. RecordOf(w) = Chains!Revision(w.content, w.inputs, Len(ChainOf(a)))
  BY <1>0, ChainIsSeq DEF RecordOf, Chains!Revision
<1>5. chain' = [chain EXCEPT ![a] =
                  Append(chain[a], Chains!Revision(w.content, w.inputs, Len(chain[a])))]
  <2>1. \A b \in Artifacts : chain'[b] = ChainOf(b)' /\ chain[b] = ChainOf(b)
    OBVIOUS
  <2>2. chain' = [b \in Artifacts |-> chain'[b]]
    OBVIOUS
  <2> QED
    BY <1>0, <1>2, <1>3, <1>4, <2>1, <2>2
<1>6. Ref(a, n) = [artifact |-> a, revision |-> Len(chain[a]) + 1, content |-> w.content]
  BY <1>0, ChainIsSeq DEF Ref, RecordOf
<1> QED
  BY <1>0, <1>1, <1>5, <1>6 DEF Chains!Publish, ChainOf

\* The blackboard implements RevisionChains: taken together, the steps of the
\* publishers under their unreliable locks, their faults and their crashes are
\* atomic publications of whole revisions that supersede the last one and are
\* made from published ones, and every answer is a published revision
\* (publish and its callers: blackboard.ts:113-184).
THEOREM BoardPublishesAtomically == Spec => PublishesAtomically
<1> DEFINE chain == [a \in Artifacts |-> ChainOf(a)]
<1>1. Init => Chains!Init
  <2>1. Init => \A a \in Artifacts : ChainOf(a) = <<>>
    BY DEF Init, ChainOf
  <2> QED
    BY <2>1 DEF Init, Chains!Init, ChainOf
<1>2. IInv /\ IInv' /\ SeenInv /\ [Next]_vars => [Chains!Next]_(Chains!vars)
  <2>1. UNCHANGED vars => UNCHANGED Chains!vars
    BY DEF vars, board, history, Chains!vars
  <2>2. ASSUME IInv, IInv', SeenInv, NEW p \in Procs, StepOf(p)
        PROVE  Chains!Next \/ UNCHANGED Chains!vars
    <3>0. Typed /\ Immutable /\ Kept
      BY <2>2, StepImmutable DEF IInv, Immutable
    <3>1. heads' = heads => chain' = chain
      BY <2>2, <3>0, ChainStays
    <3>2. CASE heads' = heads /\ answers' = answers
      BY <3>1, <3>2 DEF Chains!vars, ChainOf
    <3>3. CASE Check(p) /\ answers' # answers
      <4> DEFINE a == work[p].artifact
      <4>1. /\ a \in Artifacts /\ heads[a] > 0 /\ heads[a] \in 0..MaxRevision
            /\ answers' = answers \cup {Ref(a, heads[a])} /\ heads' = heads
        BY <3>0, <3>3 DEF Check, Typed, Works, board
      <4>2. files[a][heads[a]] \in Records /\ Ref(a, heads[a]) \in Refs
        BY <2>2, <3>0, <4>1, HeadIsRef DEF IInv, ChainInv
      <4>3. Complete(a, heads[a]) /\ files[a][heads[a]].content \in blobs
        BY <2>2, <3>0, <4>1, <4>2, CompleteIsRecord DEF IInv, RecordInv
      <4>4. Readable(Ref(a, heads[a])) /\ Ref(a, heads[a]).revision <= heads[Ref(a, heads[a]).artifact]
        BY <4>1, <4>3 DEF Readable, Ref
      <4>5. Ref(a, heads[a]) \in Chains!Published
        BY <2>2, <4>2, <4>4, ReadableIsPublished
      <4> QED
        BY <3>1, <4>1, <4>5 DEF Chains!Next, Chains!Return, ChainOf
    <3>4. CASE MoveHead(p) \/ (Fails(p) /\ heads' # heads)
      <4>1. /\ pc[p] = "move" /\ UNCHANGED work
            /\ heads' = [heads EXCEPT ![work[p].artifact] = work[p].base + 1]
            /\ answers' \in {answers, answers \cup {Ref(work[p].artifact, work[p].base + 1)}}
        BY <3>4 DEF MoveHead, Fails
      <4>2. \E a \in Artifacts : Chains!Publish(a)
        BY <2>2, <3>0, <4>1, HeadMovePublishes
      <4> QED
        BY <4>2 DEF Chains!Next
    <3> QED
      BY <2>2, <3>2, <3>3, <3>4 DEF StepOf, Publish, Lock, Judge, Unlink, TimesOut, Release, Remove,
         Check, PutBlob, Create, Fill, MoveHead, Fails, Crash, board, history
  <2> QED
    BY <2>1, <2>2 DEF Next, StepOf
<1> QED
  BY <1>1, <1>2, SpecIInv, SpecSeen, PTL DEF Spec, PublishesAtomically, Chains!Spec
=============================================================================
