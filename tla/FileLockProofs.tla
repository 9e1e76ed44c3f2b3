--------------------------- MODULE FileLockProofs ---------------------------
(***************************************************************************)
(* Exclusion of the lock files for any number of processes and attempts.   *)
(* The invariant says what a process inside relies on: as long as no       *)
(* recovery was mistaken, the file is its own, and every recovery that is  *)
(* about to unlink has judged a file whose creator is dead.                *)
(***************************************************************************)
EXTENDS FileLock, TLAPS

Inside == {"created", "holding", "releasing"}

\* Absent, or left by a process that died.
Left(f) == f = NoFile \/ (f.pid \in Processes /\ At(f.pid, "dead"))

FileInv == file # NoFile => file.pid \in Processes
AgeInv == aged => Left(file)
Viewed(p) ==
  /\ view[p].file # NoFile => view[p].file.pid \in Processes
  /\ view[p].old => Left(view[p].file)
  /\ pc[p] \in {"comparing", "unlinking"} => Left(view[p].file)
ViewInv == \A p \in Processes : Viewed(p)
OwnInv == ~mistaken => \A p \in Processes : pc[p] \in Inside => Own(p)

IInv == TypeOK /\ FileInv /\ AgeInv /\ ViewInv /\ OwnInv

LEMMA NothingTyped ==
  /\ NoFile \in Files /\ ~NoFile.full /\ NoFile.pid = NoOne
  /\ NoView \in [file : Files, old : BOOLEAN] /\ NoView.file = NoFile /\ NoView.old = FALSE
<1>1. NoFile \in Files /\ ~NoFile.full /\ NoFile.pid = NoOne
  BY DEF NoFile, Files
<1>2. QED
  BY <1>1 DEF NoView

LEMMA InitIInv == Init => IInv
<1> SUFFICES ASSUME Init PROVE IInv
  OBVIOUS
<1>1. file \in Files /\ view \in [Processes -> [file : Files, old : BOOLEAN]]
  BY DEF Init, Files, NoFile, NoView
<1>2. pc \in [Processes -> Labels]
  BY DEF Init, Labels
<1>3. attempt \in [Processes -> Nat] /\ removed \in [Processes -> Nat]
  BY DEF Init
<1>4. aged \in BOOLEAN /\ mistaken \in BOOLEAN /\ protocol \in Protocols
  BY Zenon DEF Init
<1>5. TypeOK
  BY <1>1, <1>2, <1>3, <1>4 DEF Init, TypeOK
<1>6. FileInv /\ AgeInv /\ ViewInv /\ OwnInv
  BY DEF Init, FileInv, AgeInv, ViewInv, Viewed, OwnInv, NoFile, NoView, Inside
<1>7. QED
  BY <1>5, <1>6 DEF IInv

Moves(p) ==
  \/ CreateFile(p) \/ FindBusy(p) \/ WriteRecord(p)
  \/ ReadFile(p) \/ JudgeStale(p) \/ JudgeLive(p) \/ CompareText(p) \/ RemoveStale(p)
  \/ Leave(p) \/ RemoveOwn(p) \/ Begin(p) \/ Crash(p)

\* Every step keeps the types.
LEMMA TypeStep ==
  ASSUME TypeOK, AgeInv, [Next]_vars
  PROVE  TypeOK'
<1>1. ASSUME NEW p \in Processes, Moves(p)
      PROVE  TypeOK'
  <2>1. file' \in Files
    <3>1. CASE CreateFile(p)
      BY <3>1 DEF CreateFile, TypeOK, Files
    <3>2. CASE WriteRecord(p)
      BY <3>2 DEF WriteRecord, TypeOK, Files
    <3>3. CASE RemoveStale(p) \/ RemoveOwn(p)
      BY <3>3, NothingTyped DEF RemoveStale, RemoveOwn
    <3>4. CASE file' = file
      BY <3>4 DEF TypeOK
    <3>5. QED
      BY <1>1, <3>1, <3>2, <3>3, <3>4 DEF Moves, FindBusy, ReadFile, JudgeStale, JudgeLive,
        CompareText, Leave, Begin, Crash
  <2>2. pc' \in [Processes -> Labels]
    <3>1. \E l \in Labels : Goto(p, l)
      BY <1>1 DEF Moves, CreateFile, FindBusy, WriteRecord, ReadFile, JudgeStale, JudgeLive,
        CompareText, RemoveStale, Leave, RemoveOwn, Begin, Crash, Labels
    <3>2. QED
      BY <3>1 DEF TypeOK, Goto
  <2>3. view' \in [Processes -> [file : Files, old : BOOLEAN]]
    <3>1. CASE ReadFile(p)
      <4>1. CASE aged \/ file = NoFile
        <5>1. view' = view \/ view' = [view EXCEPT ![p] = [file |-> file, old |-> TRUE]]
          BY <3>1, <4>1 DEF ReadFile
        <5>2. [file |-> file, old |-> TRUE] \in [file : Files, old : BOOLEAN]
          BY DEF TypeOK
        <5>3. QED
          BY <5>1, <5>2 DEF TypeOK
      <4>2. CASE ~(aged \/ file = NoFile)
        BY <3>1, <4>2 DEF ReadFile, TypeOK
      <4>3. QED
        BY <4>1, <4>2
    <3>2. CASE view' = view \/ view' = [view EXCEPT ![p] = NoView]
      BY <3>2, NothingTyped DEF TypeOK
    <3>3. QED
      BY <1>1, <3>1, <3>2 DEF Moves, CreateFile, FindBusy, WriteRecord, JudgeStale, JudgeLive,
        CompareText, RemoveStale, Leave, RemoveOwn, Begin, Crash
  <2>4. attempt' \in [Processes -> Nat] /\ removed' \in [Processes -> Nat]
    BY <1>1 DEF TypeOK, Moves, CreateFile, FindBusy, WriteRecord, ReadFile, JudgeStale, JudgeLive,
      CompareText, RemoveStale, Leave, RemoveOwn, Begin, Crash
  <2>5. aged' \in BOOLEAN /\ mistaken' \in BOOLEAN /\ protocol' \in Protocols
    BY <1>1, Zenon DEF TypeOK, Moves, CreateFile, FindBusy, WriteRecord, ReadFile, JudgeStale, JudgeLive,
      CompareText, RemoveStale, Leave, RemoveOwn, Begin, Crash
  <2>6. aged' => file' # NoFile /\ ~file'.full
    <3>1. CASE WriteRecord(p)
      <4>1. ~(aged /\ Own(p))
        BY <3>1 DEF WriteRecord, Own, At, AgeInv, Left, TypeOK
      <4>2. file' = file \/ ~aged
        BY <3>1, <4>1 DEF WriteRecord
      <4>3. QED
        BY <3>1, <4>2 DEF WriteRecord, TypeOK
    <3>2. CASE aged' = FALSE \/ (file' = file /\ aged' = aged)
      BY <3>2 DEF TypeOK
    <3>3. QED
      BY <1>1, <3>1, <3>2 DEF Moves, CreateFile, FindBusy, ReadFile, JudgeStale, JudgeLive,
        CompareText, RemoveStale, Leave, RemoveOwn, Begin, Crash
  <2>7. QED
    BY <2>1, <2>2, <2>3, <2>4, <2>5, <2>6 DEF TypeOK
<1>2. CASE Age
  BY <1>2 DEF Age, TypeOK
<1>3. CASE UNCHANGED vars
  BY <1>3 DEF vars, TypeOK
<1>4. QED
  BY <1>1, <1>2, <1>3 DEF Next, Step, Moves

LEMMA NextMoves ==
  /\ [Next]_vars <=> Age \/ UNCHANGED vars \/ \E p \in Processes : Moves(p)
  /\ \A p \in Processes : Moves(p) => [Next]_vars
BY DEF Next, Step, Moves

\* The dead stay dead, so what a process has left behind stays left behind.
LEMMA DeadStay ==
  ASSUME TypeOK, [Next]_vars
  PROVE  \A q \in Processes : pc[q] = "dead" => pc'[q] = "dead"
BY DEF TypeOK, Next, vars, Step, Begin, CreateFile, FindBusy, WriteRecord, ReadFile, JudgeStale,
  JudgeLive, CompareText, RemoveStale, Leave, RemoveOwn, Crash, Age, Goto, At

\* What waiters have read stays true.
LEMMA ViewStep ==
  ASSUME IInv, NEW p \in Processes, Moves(p)
  PROVE  ViewInv'
<1>1. TypeOK /\ FileInv /\ AgeInv /\ ViewInv
  BY DEF IInv
<1>2. \A q \in Processes : pc[q] = "dead" => pc'[q] = "dead"
  BY <1>1, DeadStay, NextMoves
<1>3. ASSUME NEW q \in Processes, view'[q] = view[q],
             pc'[q] \in {"comparing", "unlinking"} => Left(view[q].file)
      PROVE  Viewed(q)'
  BY <1>1, <1>2, <1>3 DEF ViewInv, Viewed, Left, At
<1>4. ASSUME NEW q \in Processes, view'[q] = NoView,
             pc'[q] \notin {"comparing", "unlinking"}
      PROVE  Viewed(q)'
  BY <1>4, NothingTyped DEF Viewed
<1>5. ASSUME NEW q \in Processes \ {p}
      PROVE  Viewed(q)'
  <2>1. view'[q] = view[q] /\ pc'[q] = pc[q]
    BY <1>1 DEF TypeOK, Moves, CreateFile, FindBusy, WriteRecord, ReadFile, JudgeStale, JudgeLive,
      CompareText, RemoveStale, Leave, RemoveOwn, Begin, Crash, Goto
  <2>2. QED
    BY <1>1, <1>3, <2>1 DEF ViewInv, Viewed
<1>6. Viewed(p)'
  <2>1. CASE CreateFile(p) \/ FindBusy(p) \/ WriteRecord(p) \/ Leave(p) \/ RemoveOwn(p) \/ Begin(p)
    <3>1. view' = view /\ pc'[p] \notin {"comparing", "unlinking"}
      BY <1>1, <2>1 DEF TypeOK, CreateFile, FindBusy, WriteRecord, Leave, RemoveOwn, Begin, Goto
    <3>2. QED
      BY <1>3, <3>1
  <2>2. CASE JudgeLive(p) \/ RemoveStale(p) \/ Crash(p)
    <3>1. view'[p] = NoView /\ pc'[p] \notin {"comparing", "unlinking"}
      BY <1>1, <2>2 DEF TypeOK, JudgeLive, RemoveStale, Crash, Goto
    <3>2. QED
      BY <1>4, <3>1
  <2>3. CASE CompareText(p)
    <3>1. \/ view' = view /\ pc[p] = "comparing"
          \/ view'[p] = NoView /\ pc'[p] = "trying"
      BY <1>1, <2>3 DEF TypeOK, CompareText, Goto, At
    <3>2. QED
      BY <1>1, <1>3, <1>4, <3>1 DEF ViewInv, Viewed
  <2>4. CASE JudgeStale(p)
    <3>1. view' = view
      BY <2>4 DEF JudgeStale
    <3>2. Left(view[p].file)
      BY <1>1, <2>4, NothingTyped DEF JudgeStale, Stale, ViewInv, Viewed, Left
    <3>3. QED
      BY <1>3, <3>1, <3>2
  <2>5. CASE ReadFile(p)
    <3>1. CASE view' = view
      <4>1. pc'[p] \notin {"comparing", "unlinking"}
        BY <1>1, <2>5 DEF ReadFile, TypeOK, Goto
      <4>2. QED
        BY <1>3, <3>1, <4>1
    <3>2. CASE view'[p].file = file /\ (view'[p].old => aged \/ file = NoFile)
      <4>1. pc'[p] \notin {"comparing", "unlinking"}
        BY <1>1, <2>5 DEF ReadFile, TypeOK, Goto
      <4>2. view'[p].old => file = NoFile \/ (file.pid \in Processes /\ pc'[file.pid] = "dead")
        BY <1>1, <1>2, <3>2 DEF AgeInv, Left, At
      <4>3. QED
        BY <1>1, <3>2, <4>1, <4>2 DEF Viewed, FileInv, Left, At
    <3>3. QED
      BY <1>1, <2>5, <3>1, <3>2 DEF ReadFile, TypeOK
  <2>6. QED
    BY <2>1, <2>2, <2>3, <2>4, <2>5 DEF Moves
<1>7. QED
  BY <1>5, <1>6 DEF ViewInv

\* The file and its age.
LEMMA FilesStep ==
  ASSUME IInv, NEW p \in Processes, Moves(p)
  PROVE  FileInv' /\ AgeInv'
<1>1. TypeOK /\ FileInv /\ AgeInv
  BY DEF IInv
<1>2. \A q \in Processes : pc[q] = "dead" => pc'[q] = "dead"
  BY <1>1, DeadStay, NextMoves
<1>3. CASE CreateFile(p)
  BY <1>3 DEF CreateFile, FileInv, AgeInv
<1>4. CASE RemoveStale(p) \/ RemoveOwn(p)
  BY <1>4 DEF RemoveStale, RemoveOwn, FileInv, AgeInv
<1>5. CASE file' = file /\ aged' = aged
  BY <1>1, <1>2, <1>5 DEF FileInv, AgeInv, Left, At
<1>6. CASE WriteRecord(p)
  <2>1. file'.pid = file.pid /\ (Own(p) => file.pid = p)
    BY <1>1, <1>6 DEF WriteRecord, TypeOK, Files, Own
  <2>2. aged' = aged /\ (aged => ~Own(p))
    BY <1>1, <1>6, <2>1 DEF WriteRecord, AgeInv, Left, At, TypeOK
  <2>3. Own(p) => file # NoFile
    BY <2>1, NothingTyped, LockAssumption
  <2>4. QED
    BY <1>1, <1>2, <1>6, <2>1, <2>2, <2>3 DEF WriteRecord, FileInv, AgeInv, Left, At
<1>7. QED
  BY <1>3, <1>4, <1>5, <1>6 DEF Moves, FindBusy, ReadFile, JudgeStale, JudgeLive, CompareText,
    Leave, Begin, Crash

\* Nobody loses the file it relies on.
LEMMA OwnStep ==
  ASSUME IInv, NEW p \in Processes, Moves(p)
  PROVE  OwnInv'
<1>1. TypeOK /\ FileInv /\ ViewInv /\ OwnInv
  BY DEF IInv
<1>2. SUFFICES ASSUME ~mistaken', NEW q \in Processes, pc'[q] \in Inside
               PROVE  Own(q)'
  BY DEF OwnInv
<1>3. ~mistaken
  BY <1>2 DEF Moves, CreateFile, FindBusy, WriteRecord, ReadFile, JudgeStale, JudgeLive,
    CompareText, RemoveStale, Leave, RemoveOwn, Begin, Crash
<1>4. CASE CreateFile(p)
  <2>1. q # p => pc[q] \in Inside
    BY <1>1, <1>2, <1>4 DEF CreateFile, Goto, TypeOK
  <2>2. q = p
    BY <1>1, <1>3, <1>4, <2>1, NothingTyped, LockAssumption DEF CreateFile, OwnInv, Own
  <2>3. QED
    BY <1>4, <2>2 DEF CreateFile, Own
<1>5. CASE RemoveStale(p)
  <2>1. q # p /\ pc[q] \in Inside /\ pc[q] = pc'[q]
    BY <1>1, <1>2, <1>5 DEF RemoveStale, Goto, TypeOK, Inside
  <2>2. file.pid = q /\ file # NoFile
    BY <1>1, <1>3, <2>1, NothingTyped, LockAssumption DEF OwnInv, Own
  <2>3. file = view[p].file
    BY <1>2, <1>5, <2>2 DEF RemoveStale
  <2>4. pc[q] = "dead"
    BY <1>1, <1>5, <2>2, <2>3 DEF RemoveStale, ViewInv, Viewed, Left, At
  <2>5. QED
    BY <2>1, <2>4 DEF Inside
<1>6. CASE RemoveOwn(p)
  <2>1. q # p /\ pc[q] \in Inside
    BY <1>1, <1>2, <1>6 DEF RemoveOwn, Goto, TypeOK, Inside
  <2>2. pc[p] \in Inside
    BY <1>6 DEF RemoveOwn, At, Inside
  <2>3. QED
    BY <1>1, <1>3, <2>1, <2>2 DEF OwnInv, Own
<1>7. CASE WriteRecord(p)
  <2>1. pc[q] \in Inside
    BY <1>1, <1>2, <1>7 DEF WriteRecord, Goto, At, TypeOK, Inside
  <2>2. Own(q) /\ attempt' = attempt
    BY <1>1, <1>3, <1>7, <2>1 DEF OwnInv, WriteRecord
  <2>3. file'.pid = file.pid /\ file'.n = file.n
    BY <1>1, <1>7 DEF WriteRecord, TypeOK, Files
  <2>4. QED
    BY <2>2, <2>3 DEF Own
<1>8. CASE Begin(p)
  <2>1. q # p /\ pc[q] \in Inside
    BY <1>1, <1>2, <1>8 DEF Begin, Goto, TypeOK, Inside
  <2>2. QED
    BY <1>1, <1>3, <1>8, <2>1 DEF Begin, OwnInv, Own, TypeOK
<1>9. CASE FindBusy(p) \/ ReadFile(p) \/ JudgeStale(p) \/ JudgeLive(p) \/ CompareText(p)
           \/ Leave(p) \/ Crash(p)
  <2>1. pc[q] \in Inside
    BY <1>1, <1>2, <1>9 DEF FindBusy, ReadFile, JudgeStale, JudgeLive, CompareText, Leave, Crash,
      Goto, At, TypeOK, Inside
  <2>2. file' = file /\ attempt' = attempt
    BY <1>9 DEF FindBusy, ReadFile, JudgeStale, JudgeLive, CompareText, Leave, Crash
  <2>3. QED
    BY <1>1, <1>3, <2>1, <2>2 DEF OwnInv, Own
<1>10. QED
  BY <1>4, <1>5, <1>6, <1>7, <1>8, <1>9 DEF Moves

LEMMA NextIInv == IInv /\ [Next]_vars => IInv'
<1> SUFFICES ASSUME IInv, [Next]_vars PROVE IInv'
  OBVIOUS
<1>1. TypeOK'
  BY TypeStep DEF IInv
<1>2. CASE \E p \in Processes : Moves(p)
  BY <1>1, <1>2, ViewStep, FilesStep, OwnStep DEF IInv
<1>3. CASE Age
  <2>1. file' = file /\ pc' = pc /\ view' = view /\ attempt' = attempt /\ mistaken' = mistaken
    BY <1>3 DEF Age
  <2>2. FileInv' /\ ViewInv' /\ OwnInv'
    BY <2>1 DEF IInv, FileInv, ViewInv, Viewed, OwnInv, Own, Left, At
  <2>3. AgeInv'
    BY <1>3, <2>1 DEF IInv, FileInv, Age, AgeInv, Left, At
  <2>4. QED
    BY <1>1, <2>2, <2>3 DEF IInv
<1>4. CASE UNCHANGED vars
  BY <1>1, <1>4 DEF vars, IInv, FileInv, AgeInv, ViewInv, Viewed, OwnInv, Own, Left, At
<1>5. QED
  BY <1>2, <1>3, <1>4, NextMoves

LEMMA SpecIInv == Spec => []IInv
BY InitIInv, NextIInv, PTL DEF Spec

\* The states of a lock file and of its users are the typed ones, and the age
\* of a file never outlives it (withStateFileLock, acquireExecutionLease).
THEOREM LockTypeCorrect == Spec => []TypeOK
<1>1. IInv => TypeOK
  BY DEF IInv
<1>2. QED
  BY <1>1, SpecIInv, PTL

\* Under both protocols, with any number of processes dying at any step, two
\* processes are inside only after a recovery removed a file it had not judged.
THEOREM LockExclusion == Spec => []ExclusionUnlessMistaken
<1>1. IInv => ExclusionUnlessMistaken
  <2> SUFFICES ASSUME IInv, ~mistaken, NEW p \in Processes, NEW q \in Processes,
                      At(p, "holding"), At(q, "holding")
               PROVE  p = q
    BY DEF ExclusionUnlessMistaken, Exclusion
  <2>1. Own(p) /\ Own(q)
    BY DEF IInv, OwnInv, At, Inside
  <2>2. QED
    BY <2>1 DEF Own
<1>2. QED
  BY <1>1, SpecIInv, PTL
=============================================================================
