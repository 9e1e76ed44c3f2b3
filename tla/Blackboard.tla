------------------------------ MODULE Blackboard ------------------------------
(***************************************************************************)
(* The blackboard of a run (src/src/harness-v2/blackboard.ts): artifacts are *)
(* chains of immutable revision files, a head file names the last revision,  *)
(* contents are blobs under their hash, and publish works under a lock file  *)
(* per artifact.  Callers read the head, and publish what supersedes it.     *)
(*                                                                         *)
(* The removal of an abandoned lock is not atomic and can hit a successor's  *)
(* lock: two processes may then be inside.  A revision file is created and   *)
(* filled in two steps; blobs (link) and heads (rename) change in one.       *)
(***************************************************************************)
EXTENDS Integers, FiniteSets, Sequences

CONSTANTS Procs, Artifacts, Contents,
          MaxRevision, MaxFaults   \* bounds on revisions and on faults and crashes

ASSUME BlackboardAssumption ==
  /\ {"none", "dead", "torn"} \cap Procs = {}
  /\ MaxRevision \in Nat \ {0} /\ MaxFaults \in Nat

VARIABLES
  pc, work,    \* work[p]: what p publishes, what it saw, what it found under the lock
  lock,        \* lock[a]: its owner, "dead" after a crash, "torn" without an owner's record
  blobs,       \* contents under their hash
  files,       \* files[a][n]: Absent, Torn or the record of revision n
  heads,       \* heads[a]: the revision the head file names, 0 without one
  answers,     \* references that publish has returned (history)
  cut,         \* artifacts whose publication broke off behind the revision file (history)
  faults

board == <<blobs, files, heads>>
history == <<answers, cut>>
vars == <<pc, work, lock, board, history, faults>>

Labels == {"idle", "lock", "unlink", "check", "blob", "create", "fill", "move", "release", "remove"}

Refs == [artifact: Artifacts, revision: 1..MaxRevision, content: Contents]
Records == [content: Contents, inputs: SUBSET Refs, supersedes: 0..MaxRevision]
Absent == [content |-> "absent"]
Torn == [content |-> "torn"]
Complete(a, n) == n \in DOMAIN files[a] /\ files[a][n] \notin {Absent, Torn}
Works == [artifact: Artifacts, content: Contents, inputs: SUBSET Refs,
          expected: 0..MaxRevision, base: 0..MaxRevision]

TypeOK ==
  /\ pc \in [Procs -> Labels]
  /\ \A p \in Procs : pc[p] # "idle" => work[p] \in Works
  /\ \A p \in Procs : pc[p] \in {"blob", "create", "fill", "move"} => work[p].base < MaxRevision
  /\ lock \in [Artifacts -> Procs \cup {"none", "dead", "torn"}]
  /\ blobs \subseteq Contents /\ heads \in [Artifacts -> 0..MaxRevision]
  /\ \A a \in Artifacts : DOMAIN files[a] = 1..MaxRevision
  /\ \A a \in Artifacts, n \in 1..MaxRevision : Complete(a, n) => files[a][n] \in Records
  /\ answers \subseteq Refs /\ cut \subseteq Artifacts /\ faults \in 0..MaxFaults

NoWork == [artifact |-> "none"]
Init ==
  /\ pc = [p \in Procs |-> "idle"] /\ work = [p \in Procs |-> NoWork]
  /\ lock = [a \in Artifacts |-> "none"]
  /\ blobs = {} /\ heads = [a \in Artifacts |-> 0]
  /\ files = [a \in Artifacts |-> [n \in 1..MaxRevision |-> Absent]]
  /\ answers = {} /\ cut = {} /\ faults = 0

Goto(p, label) == pc' = [pc EXCEPT ![p] = label]
End(p) == Goto(p, "idle") /\ work' = [work EXCEPT ![p] = NoWork]
Fault == faults < MaxFaults /\ faults' = faults + 1
Ref(a, n) == [artifact |-> a, revision |-> n, content |-> files[a][n].content]

\* read: the record is whole and its content is in the blob of its hash.
Readable(ref) ==
  /\ Complete(ref.artifact, ref.revision)
  /\ files[ref.artifact][ref.revision].content = ref.content /\ ref.content \in blobs

-----------------------------------------------------------------------------
(* A caller and the lock. *)

\* A caller has read the head, or expects that there is none, and the heads
\* of other artifacts, which it names as inputs.
Publish(p, a, c) ==
  /\ pc[p] = "idle" /\ heads[a] < MaxRevision
  /\ \E expected \in {0, heads[a]},
        inputs \in {{}} \cup {{Ref(b, heads[b])} : b \in {d \in Artifacts \ {a} : heads[d] > 0}} :
       work' = [work EXCEPT ![p] = [artifact |-> a, content |-> c, inputs |-> inputs,
                                    expected |-> expected, base |-> 0]]
  /\ Goto(p, "lock")
  /\ UNCHANGED <<lock, board, history, faults>>

Lock(p) ==
  LET a == work[p].artifact IN
  /\ pc[p] = "lock" /\ lock[a] = "none" /\ lock' = [lock EXCEPT ![a] = p]
  /\ Goto(p, "check")
  /\ UNCHANGED <<work, board, history, faults>>

\* The owner is dead, or no owner was written for five minutes.
Judge(p) ==
  /\ pc[p] = "lock" /\ lock[work[p].artifact] \in {"dead", "torn"}
  /\ Goto(p, "unlink")
  /\ UNCHANGED <<work, lock, board, history, faults>>

\* The file is removed without another look at it.
Unlink(p) ==
  /\ pc[p] = "unlink" /\ lock' = [lock EXCEPT ![work[p].artifact] = "none"]
  /\ Goto(p, "lock")
  /\ UNCHANGED <<work, board, history, faults>>

\* LOCK_TIMEOUT_MS is over.
TimesOut(p) ==
  /\ pc[p] = "lock" /\ lock[work[p].artifact] # "none"
  /\ End(p)
  /\ UNCHANGED <<lock, board, history, faults>>

\* The lock is read again, and removed when it was found to be this process's.
Release(p) ==
  /\ pc[p] = "release"
  /\ IF lock[work[p].artifact] = p THEN Goto(p, "remove") /\ UNCHANGED work ELSE End(p)
  /\ UNCHANGED <<lock, board, history, faults>>

Remove(p) ==
  /\ pc[p] = "remove" /\ lock' = [lock EXCEPT ![work[p].artifact] = "none"]
  /\ End(p)
  /\ UNCHANGED <<board, history, faults>>

-----------------------------------------------------------------------------
(* publish, under the lock. *)

\* isIdempotentSubmission
Same(p) ==
  LET w == work[p]  record == files[w.artifact][heads[w.artifact]] IN
  record.content = w.content /\ record.inputs = w.inputs

CheckNothing(p) ==  \* (mutated form: the expected head is not compared)
  LET a == work[p].artifact IN
  /\ pc[p] = "check"
  /\ work' = [work EXCEPT ![p].base = heads[a]]
  /\ Goto(p, "blob")
  /\ UNCHANGED <<lock, board, history, faults>>

\* The head under the lock: this submission itself, not the one the caller
\* expects (a conflict), or the one to be superseded.
Check(p) ==
  LET a == work[p].artifact IN
  /\ pc[p] = "check"
  /\ \/ heads[a] > 0 /\ Same(p)
        /\ answers' = answers \cup {Ref(a, heads[a])}
        /\ Goto(p, "release") /\ UNCHANGED work
     \/ ~(heads[a] > 0 /\ Same(p)) /\ heads[a] # work[p].expected
        /\ Goto(p, "release") /\ UNCHANGED <<work, answers>>
     \/ ~(heads[a] > 0 /\ Same(p)) /\ heads[a] = work[p].expected
        /\ work' = [work EXCEPT ![p].base = heads[a]]
        /\ Goto(p, IF \A ref \in work[p].inputs : Readable(ref) THEN "blob" ELSE "release")
        /\ UNCHANGED answers
  /\ UNCHANGED <<lock, board, cut, faults>>

PutBlob(p) ==
  /\ pc[p] = "blob" /\ blobs' = blobs \cup {work[p].content}
  /\ Goto(p, "create")
  /\ UNCHANGED <<work, lock, files, heads, history, faults>>

CreateOver(p) ==  \* (mutated form: an existing revision file is truncated)
  LET a == work[p].artifact  n == work[p].base + 1 IN
  /\ pc[p] = "create" /\ files' = [files EXCEPT ![a][n] = Torn] /\ Goto(p, "fill")
  /\ UNCHANGED <<work, lock, blobs, heads, history, faults>>

\* The revision file is created exclusively: where one exists publish fails.
Create(p) ==
  LET a == work[p].artifact  n == work[p].base + 1 IN
  /\ pc[p] = "create"
  /\ \/ files[a][n] = Absent /\ files' = [files EXCEPT ![a][n] = Torn] /\ Goto(p, "fill")
     \/ files[a][n] # Absent /\ Goto(p, "release") /\ UNCHANGED files
  /\ UNCHANGED <<work, lock, blobs, heads, history, faults>>

Fill(p) ==
  LET w == work[p] IN
  /\ pc[p] = "fill"
  /\ files' = [files EXCEPT ![w.artifact][w.base + 1] =
       [content |-> w.content, inputs |-> w.inputs, supersedes |-> w.expected]]
  /\ Goto(p, "move")
  /\ UNCHANGED <<work, lock, blobs, heads, history, faults>>

MoveHeadIfOwner(p) ==  \* (mutated form: a process that lost its lock leaves the head alone)
  LET a == work[p].artifact  n == work[p].base + 1 IN
  /\ pc[p] = "move" /\ Goto(p, "release")
  /\ \/ lock[a] = p /\ heads' = [heads EXCEPT ![a] = n] /\ answers' = answers \cup {Ref(a, n)}
     \/ lock[a] # p /\ UNCHANGED <<heads, answers>>
  /\ UNCHANGED <<work, lock, blobs, files, cut, faults>>

\* writeHead replaces the head file, and publish returns the record.
MoveHead(p) ==
  LET a == work[p].artifact  n == work[p].base + 1 IN
  /\ pc[p] = "move" /\ Goto(p, "release")
  /\ heads' = [heads EXCEPT ![a] = n] /\ answers' = answers \cup {Ref(a, n)}
  /\ UNCHANGED <<work, lock, blobs, files, cut, faults>>

-----------------------------------------------------------------------------
(* Faults. *)

Interrupts(p) == IF pc[p] \in {"fill", "move"} THEN cut \cup {work[p].artifact} ELSE cut

\* An I/O error, which the head may have moved before: the lock is released.
Fails(p) ==
  /\ pc[p] \in {"check", "blob", "create", "fill", "move"} /\ Fault
  /\ Goto(p, "release")
  /\ \/ cut' = Interrupts(p) /\ UNCHANGED heads
     \/ pc[p] = "move" /\ heads' = [heads EXCEPT ![work[p].artifact] = work[p].base + 1]
        /\ UNCHANGED cut
  /\ UNCHANGED <<work, lock, blobs, files, answers>>

\* Its locks are left behind, as is a lock file it was creating.
Crash(p) ==
  /\ pc[p] # "idle" /\ Fault
  /\ cut' = Interrupts(p) /\ End(p)
  /\ \/ lock' = [a \in Artifacts |-> IF lock[a] = p THEN "dead" ELSE lock[a]]
     \/ /\ pc[p] = "lock" /\ lock[work[p].artifact] = "none"
        /\ lock' = [lock EXCEPT ![work[p].artifact] = "torn"]
  /\ UNCHANGED <<board, answers>>

Next ==
  \E p \in Procs :
    \/ \E a \in Artifacts, c \in Contents : Publish(p, a, c)
    \/ Lock(p) \/ Judge(p) \/ Unlink(p) \/ TimesOut(p) \/ Release(p) \/ Remove(p)
    \/ Check(p) \/ PutBlob(p) \/ Create(p) \/ Fill(p) \/ MoveHead(p)
    \/ Fails(p) \/ Crash(p)

Spec == Init /\ [][Next]_vars

-----------------------------------------------------------------------------
(* Properties. *)

\* Whoever reads a head, without a lock, at any moment and after any crash,
\* gets a whole revision with its blob, and can read everything it was made
\* from (blackboard.ts:302-347).
HeadsReadable ==
  \A a \in Artifacts : heads[a] > 0 =>
    /\ Complete(a, heads[a]) /\ Readable(Ref(a, heads[a]))
    /\ \A ref \in files[a][heads[a]].inputs : Readable(ref)

\* What publish has returned can be read from then on, and is never behind the
\* head, even when two processes were inside one lock (blackboard.ts:176-180).
AnswersStay == \A ref \in answers : Readable(ref) /\ ref.revision <= heads[ref.artifact]

\* What has been published stays readable.
PublishedReadable == HeadsReadable /\ AnswersStay

\* No update is lost: the author of a revision had seen the very revision
\* that came before it, although it looked before it had the lock
\* (blackboard.ts:130-147).
SupersedesWhatItSaw ==
  \A a \in Artifacts, n \in 1..MaxRevision :
    Complete(a, n) => files[a][n].supersedes = n - 1

\* The next revision of an artifact can be created unless somebody is about to
\* name it in the head, or broke off before doing so (blackboard.ts:173-180):
\* a publication that ends otherwise leaves nothing in the way.
BlockedOnlyWhenCut ==
  \A a \in Artifacts : heads[a] < MaxRevision /\ files[a][heads[a] + 1] # Absent =>
    a \in cut \/ \E p \in Procs : pc[p] \in {"fill", "move"} /\ work[p].artifact = a

\* Publications are atomic to whoever reads: with the locks, files, faults and
\* crashes taken away, the heads are chains that only publications extend, each
\* by a whole revision that supersedes the last one, made from published ones
\* (blackboard.ts:113-184).
Chains == INSTANCE RevisionChains WITH
            chain <- [a \in Artifacts |-> [n \in 1..heads[a] |-> files[a][n]]],
            returned <- answers
PublishesAtomically == Chains!Spec
=============================================================================
