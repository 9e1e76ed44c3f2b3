------------------------------ MODULE FileLock ------------------------------
(***************************************************************************)
(* The lock files of a run directory (src/src/store.ts).  Two protocols    *)
(* share them: "lock" is withStateFileLock and withCommandFileLock         *)
(* (state.lock, commands.lock), "lease" is acquireExecutionLease           *)
(* (execution.lock).  A process creates the file exclusively and then      *)
(* writes its record [pid, token] into it; a waiter removes the file of a  *)
(* dead process, or one that stayed without a record for too long.         *)
(*                                                                         *)
(* A pid is a process that dies at most once and is not reused.  Creating  *)
(* the file, writing the record, reading, comparing and unlinking are      *)
(* steps of their own, since each is an awaited system call.               *)
(***************************************************************************)
EXTENDS Naturals

CONSTANTS Processes,
          NoOne,        \* the pid in an absent file
          Protocols,    \* subset of {"lock", "lease"}: what is being locked
          MaxAttempts   \* bound: acquisitions one process starts

ASSUME LockAssumption ==
  /\ NoOne \notin Processes
  /\ Protocols \subseteq {"lock", "lease"}
  /\ MaxAttempts \in Nat

VARIABLES
  protocol,  \* the protocol of this file
  file,      \* [pid, n, full]: its creator, the attempt (token), record written
  aged,      \* an unfinished file is older than the stale bound
  pc,        \* pc[p]: where p stands in the protocol
  view,      \* view[p]: the file as p read it, and whether it was old then
  attempt,   \* attempt[p]: acquisitions p has started
  removed,   \* removed[p]: stale files this acquisition has removed
  mistaken   \* a recovery has removed a file other than the one it judged

vars == <<protocol, file, aged, pc, view, attempt, removed, mistaken>>

NoFile == [pid |-> NoOne, n |-> 0, full |-> FALSE]
NoView == [file |-> NoFile, old |-> FALSE]
Files == [pid : Processes \cup {NoOne}, n : Nat, full : BOOLEAN]
Labels == {"idle", "trying", "reading", "judging", "comparing", "unlinking",
           "created", "holding", "releasing", "dead"}

TypeOK ==
  /\ protocol \in Protocols
  /\ file \in Files /\ aged \in BOOLEAN
  /\ pc \in [Processes -> Labels]
  /\ view \in [Processes -> [file : Files, old : BOOLEAN]]
  /\ attempt \in [Processes -> Nat] /\ removed \in [Processes -> Nat]
  /\ mistaken \in BOOLEAN
  /\ aged => file # NoFile /\ ~file.full

Init ==
  /\ protocol \in Protocols
  /\ file = NoFile /\ aged = FALSE
  /\ pc = [p \in Processes |-> "idle"]
  /\ view = [p \in Processes |-> NoView]
  /\ attempt = [p \in Processes |-> 0]
  /\ removed = [p \in Processes |-> 0]
  /\ mistaken = FALSE

At(p, label) == pc[p] = label
Goto(p, label) == pc' = [pc EXCEPT ![p] = label]
Own(p) == file.pid = p /\ file.n = attempt[p]
SameText(f, g) == f.full = g.full /\ (f.full => f.pid = g.pid /\ f.n = g.n)

-----------------------------------------------------------------------------
(* Acquiring. *)

Begin(p) ==
  /\ At(p, "idle") /\ attempt[p] < MaxAttempts
  /\ attempt' = [attempt EXCEPT ![p] = @ + 1]
  /\ removed' = [removed EXCEPT ![p] = 0]
  /\ Goto(p, "trying")
  /\ UNCHANGED <<protocol, file, aged, view, mistaken>>

\* open(path, "wx") succeeds.
CreateFile(p) ==
  /\ At(p, "trying") /\ file = NoFile
  /\ file' = [pid |-> p, n |-> attempt[p], full |-> FALSE]
  /\ aged' = FALSE
  /\ Goto(p, "created")
  /\ UNCHANGED <<protocol, view, attempt, removed, mistaken>>

\* EEXIST.
FindBusy(p) ==
  /\ At(p, "trying") /\ file # NoFile
  /\ Goto(p, "reading")
  /\ UNCHANGED <<protocol, file, aged, view, attempt, removed, mistaken>>

\* The record goes to the created inode, even when its name is gone.
WriteRecord(p) ==
  /\ At(p, "created")
  /\ file' = IF Own(p) THEN [file EXCEPT !.full = TRUE] ELSE file
  /\ Goto(p, "holding")
  /\ UNCHANGED <<protocol, aged, view, attempt, removed, mistaken>>

-----------------------------------------------------------------------------
(* Recovering the file of another process. *)

\* readFile and stat; a file that is gone lets the lock try again at once,
\* the lease takes it for a stale one.
ReadFile(p) ==
  /\ At(p, "reading")
  /\ IF file = NoFile /\ protocol = "lock"
     THEN Goto(p, "trying") /\ UNCHANGED view
     ELSE /\ view' = [view EXCEPT ![p] = [file |-> file, old |-> aged \/ file = NoFile]]
          /\ Goto(p, "judging")
  /\ UNCHANGED <<protocol, file, aged, attempt, removed, mistaken>>

AnyUnfinished(p) ==  \* (mutated form: however young)
  view[p].file.full => At(view[p].file.pid, "dead")
Stale(p) == IF view[p].file.full THEN At(view[p].file.pid, "dead") ELSE view[p].old

JudgeStale(p) ==
  /\ At(p, "judging") /\ Stale(p)
  /\ Goto(p, IF protocol = "lock" THEN "comparing" ELSE "unlinking")
  /\ UNCHANGED <<protocol, file, aged, view, attempt, removed, mistaken>>

\* The lock waits and tries again until its deadline, the lease is refused.
JudgeLive(p) ==
  /\ At(p, "judging") /\ ~Stale(p)
  /\ \E next \in IF protocol = "lock" THEN {"trying", "idle"} ELSE {"idle"} : Goto(p, next)
  /\ view' = [view EXCEPT ![p] = NoView]
  /\ UNCHANGED <<protocol, file, aged, attempt, removed, mistaken>>

\* The second read of recoverStaleStateLock and recoverStaleCommandLock.
CompareText(p) ==
  /\ At(p, "comparing")
  /\ IF file # NoFile /\ SameText(file, view[p].file)
     THEN Goto(p, "unlinking") /\ UNCHANGED view
     ELSE Goto(p, "trying") /\ view' = [view EXCEPT ![p] = NoView]
  /\ UNCHANGED <<protocol, file, aged, attempt, removed, mistaken>>

StopAfterUnlink(p) ==  \* (mutated form: the waiter never tries again)
  /\ At(p, "unlinking")
  /\ mistaken' = (mistaken \/ file \notin {NoFile, view[p].file})
  /\ UNCHANGED <<protocol, file, aged, pc, view, attempt, removed>>

RemoveKeepingAge(p) ==  \* (mutated form: the next file inherits the age)
  /\ At(p, "unlinking")
  /\ mistaken' = (mistaken \/ file \notin {NoFile, view[p].file})
  /\ file' = NoFile /\ UNCHANGED aged
  /\ view' = [view EXCEPT ![p] = NoView]
  /\ Goto(p, "trying")
  /\ UNCHANGED <<protocol, removed, attempt>>

\* unlink; the lease gives up after removing two files.
RemoveStale(p) ==
  /\ At(p, "unlinking")
  /\ mistaken' = (mistaken \/ file \notin {NoFile, view[p].file})
  /\ file' = NoFile /\ aged' = FALSE
  /\ view' = [view EXCEPT ![p] = NoView]
  /\ IF protocol = "lock"
     THEN Goto(p, "trying") /\ UNCHANGED removed
     ELSE /\ removed' = [removed EXCEPT ![p] = @ + 1]
          /\ Goto(p, IF removed[p] = 1 THEN "idle" ELSE "trying")
  /\ UNCHANGED <<protocol, attempt>>

-----------------------------------------------------------------------------
(* Releasing, dying, and the passing of time. *)

\* The operation is over: the token is read and compared, ...
Leave(p) ==
  /\ At(p, "holding")
  /\ Goto(p, IF Own(p) THEN "releasing" ELSE "idle")
  /\ UNCHANGED <<protocol, file, aged, view, attempt, removed, mistaken>>

\* ... and the file is unlinked by name.
RemoveOwn(p) ==
  /\ At(p, "releasing")
  /\ file' = NoFile /\ aged' = FALSE
  /\ Goto(p, "idle")
  /\ UNCHANGED <<protocol, view, attempt, removed, mistaken>>

Crash(p) ==
  /\ ~At(p, "dead")
  /\ Goto(p, "dead")
  /\ view' = [view EXCEPT ![p] = NoView]
  /\ UNCHANGED <<protocol, file, aged, attempt, removed, mistaken>>

\* The stale bound (5 minutes, 5 seconds for the lease) passes.  A live
\* creator writes its record before that.
Age ==
  /\ file # NoFile /\ ~file.full /\ ~aged /\ At(file.pid, "dead")
  /\ aged' = TRUE
  /\ UNCHANGED <<protocol, file, pc, view, attempt, removed, mistaken>>

-----------------------------------------------------------------------------
Step(p) ==
  \/ CreateFile(p) \/ FindBusy(p) \/ WriteRecord(p)
  \/ ReadFile(p) \/ JudgeStale(p) \/ JudgeLive(p) \/ CompareText(p) \/ RemoveStale(p)
  \/ Leave(p) \/ RemoveOwn(p)

Next == Age \/ \E p \in Processes : Step(p) \/ Begin(p) \/ Crash(p)

Spec == Init /\ [][Next]_vars

\* A call that has begun runs on, and clocks advance; nobody has to call.
FairSpec == Spec /\ WF_vars(Age) /\ \A p \in Processes : WF_vars(Step(p))

-----------------------------------------------------------------------------
(* Properties. *)

\* One process at a time is inside the locked section: recovery re-reads the
\* file "so a freshly acquired successor is not mistaken for the abandoned
\* owner observed above" (src/src/store.ts:771), and "an execution lease blocks
\* concurrent owners" (src/test/unit/store.test.ts:274).
Exclusion == \A p, q \in Processes : At(p, "holding") /\ At(q, "holding") => p = q

\* The one way to lose exclusion is a recovery whose unlink hits a file created
\* after the one it judged (recoverStaleStateLock, acquireExecutionLease):
\* crashes, records never written and releases by token are all survived.
ExclusionUnlessMistaken == mistaken \/ Exclusion

\* Nobody alive will ever release it.
Abandoned == file # NoFile /\ At(file.pid, "dead")

\* A lock left by a dead process, with or without a record in it, is removed as
\* long as somebody goes on waiting for it (recoverStaleStateLock and the loop
\* around it).
AbandonedLockIsTaken ==
  \A p \in Processes :
    (pc[p] \in {"trying", "reading"} /\ Abandoned) ~> (~Abandoned \/ pc[p] \in {"idle", "dead"})
=============================================================================
