------------------------------ MODULE RunStore ------------------------------
(***************************************************************************)
(* The durable run store: AtomicRunStore (src/src/store.ts), its           *)
(* transition journal and event outbox                                     *)
(* (src/src/runtime/run-transition-journal.ts) and the commit protocol of  *)
(* the orchestrator (src/src/runtime/run-state-transition.ts).             *)
(*                                                                         *)
(* Several processes work on one run directory: the runner, and the CLI or *)
(* UI processes that load the run while it executes.  Every file write is  *)
(* a step of its own; a write may fail, and a process may crash between    *)
(* any two of them.  The state lock is taken here as an exclusive lock     *)
(* that a dead holder loses (module FileLock models how it is built).      *)
(* A record is identified by its sequence number, which stands for the     *)
(* pair (sequence, hash) of the code, and carries the one effect that      *)
(* RunPersistenceCoordinator.commit attaches to it.                        *)
(***************************************************************************)
EXTENDS Integers, Sequences, FiniteSets

CONSTANTS Processes,   \* processes that open the run
          NoOne,       \* the state lock is free
          MaxRev,      \* bound: no state revision above it is written
          MaxFaults,   \* bound: crashes and failing writes together
          MaxPlain,    \* bound: events appended outside the outbox
          CutTails     \* what an interrupted event append can leave behind

ASSUME StoreAssumption ==
  /\ NoOne \notin Processes
  /\ MaxRev \in Nat /\ MaxFaults \in Nat /\ MaxPlain \in Nat
  /\ CutTails \subseteq {"torn", "bare"}

VARIABLES
  claimed,     \* the run directory and its manifest exist
  journal,     \* transitions.jsonl: complete records [seq, rev]
  torn,        \* the last line of transitions.jsonl is cut short
  snapshot,    \* state.json: [rev, seq]; rev = -1 when the file is absent
  checkpoint,  \* transitions.checkpoint.json: its sequence, 0 when absent
  cursor,      \* transitions.outbox.applied.json: its sequence, 0 when absent
  log,         \* readable effect events of events.jsonl, in file order
  tail,        \* the end of events.jsonl, see Tails
  lock,        \* holder of state.lock
  op,          \* the holder's operation: [kind, pc, target]
  known,       \* known[p]: the store object of p holds the generation
  lastRev,     \* lastRev[p]: lastRevision of the store object of p
  mem,         \* mem[p]: revision of the RunState p keeps in memory
  faults, plain

disk == <<claimed, journal, torn, snapshot, checkpoint, cursor, log, tail>>
procs == <<known, lastRev, mem>>
vars == <<disk, lock, op, procs, faults, plain>>

\* "torn": a partial line, not JSON.  "bare...": a complete line whose newline
\* is missing; it is readable until something is appended to the same line.
Tails == {"clean", "torn", "bareEffect", "barePlain"}
Kinds == {"none", "save", "commit", "compact", "load"}
Writes == {"append", "snapshot", "event", "cursor", "checkpoint", "truncate"}
Idle == [kind |-> "none", pc |-> "idle", target |-> [rev |-> -1, seq |-> 0]]

TypeOK ==
  /\ claimed \in BOOLEAN /\ torn \in BOOLEAN
  /\ journal \in Seq([seq : Nat, rev : Nat])
  /\ snapshot \in [rev : Nat \cup {-1}, seq : Nat]
  /\ checkpoint \in Nat /\ cursor \in Nat
  /\ log \in Seq(Nat) /\ tail \in Tails
  /\ lock \in Processes \cup {NoOne}
  /\ op \in [kind : Kinds, pc : Writes \cup {"idle", "done", "failed"},
             target : [rev : Nat \cup {-1}, seq : Nat]]
  /\ known \in [Processes -> BOOLEAN]
  /\ lastRev \in [Processes -> Nat \cup {-1}]
  /\ mem \in [Processes -> Nat \cup {-1}]
  /\ faults \in Nat /\ plain \in Nat
  /\ lock = NoOne <=> op = Idle

Init ==
  /\ claimed = FALSE /\ journal = <<>> /\ torn = FALSE
  /\ snapshot = [rev |-> -1, seq |-> 0] /\ checkpoint = 0 /\ cursor = 0
  /\ log = <<>> /\ tail = "clean"
  /\ lock = NoOne /\ op = Idle
  /\ known = [p \in Processes |-> FALSE]
  /\ lastRev = [p \in Processes |-> -1]
  /\ mem = [p \in Processes |-> -1]
  /\ faults = 0 /\ plain = 0

-----------------------------------------------------------------------------
(* Reading the journal. *)

LastSeq == journal[Len(journal)].seq
Seqs == {journal[i].seq : i \in DOMAIN journal}
Published == {log[i] : i \in DOMAIN log}

\* readSuffix() accepts the files: the journal ends with a newline and its
\* records chain from genesis or from the checkpoint.
JournalReads ==
  /\ ~torn
  /\ LET start == IF journal # <<>> /\ journal[1].seq = 1 THEN 0 ELSE checkpoint
     IN  \A i \in DOMAIN journal : journal[i].seq = start + i
  /\ journal # <<>> /\ journal[1].seq <= checkpoint => checkpoint \in Seqs

\* readSuffix(head of the snapshot) accepts them too: the head is found.
Readable == JournalReads /\ snapshot.seq \in Seqs \cup {checkpoint}

\* The snapshot lacks a record of the journal.
HasSuffix == journal # <<>> /\ LastSeq > snapshot.seq

\* suffix.at(-1) ?? snapshot: the state that counts.
Latest == IF HasSuffix THEN [rev |-> journal[Len(journal)].rev, seq |-> LastSeq]
          ELSE snapshot

\* Records that projectOutbox has still to handle; it takes them in order.
Pending == {s \in Seqs : s > checkpoint /\ s > cursor}
NewestEffect == CHOOSE s \in Pending : \A t \in Pending : t <= s  \* (mutated form)
NextEffect == CHOOSE s \in Pending : \A t \in Pending : s <= t

-----------------------------------------------------------------------------
(* Taking the state lock and validating, one action per operation. *)

Start(p, kind, pc, target) ==
  /\ lock = NoOne
  /\ lock' = p
  /\ op' = [kind |-> kind, pc |-> pc, target |-> target]
  /\ UNCHANGED <<disk, faults, plain>>

\* create: claims a run id nobody has used.
Create(p) ==
  /\ ~claimed /\ ~known[p]
  /\ claimed' = TRUE
  /\ known' = [known EXCEPT ![p] = TRUE]
  /\ lastRev' = [lastRev EXCEPT ![p] = -1]
  /\ UNCHANGED <<journal, torn, snapshot, checkpoint, cursor, log, tail,
                 lock, op, mem, faults, plain>>

\* save: refused while the journal is ahead of the snapshot, when another
\* process wrote the snapshot, or when the revision would not grow.
BeginSave(p) ==
  /\ known[p] /\ mem[p] < MaxRev
  /\ snapshot.rev >= 0 => Readable /\ ~HasSuffix
  /\ lastRev[p] = snapshot.rev
  /\ mem[p] + 1 > snapshot.rev
  /\ Start(p, "save", "snapshot", [rev |-> mem[p] + 1, seq |-> snapshot.seq])
  /\ UNCHANGED procs

CommitUnlessMoved(p) ==  \* (mutated form: trusts the process's own revision alone)
  /\ known[p] /\ mem[p] < MaxRev
  /\ snapshot.rev >= 0 /\ Readable
  /\ lastRev[p] = mem[p]
  /\ Start(p, "commit", "append", [rev |-> mem[p] + 1, seq |-> Latest.seq + 1])
  /\ UNCHANGED procs

\* commitTransition: only on the revision the process holds in memory.
BeginCommit(p) ==
  /\ known[p] /\ mem[p] < MaxRev
  /\ snapshot.rev >= 0 /\ Readable
  /\ Latest.rev = mem[p] /\ lastRev[p] = mem[p]
  /\ Start(p, "commit", "append", [rev |-> mem[p] + 1, seq |-> Latest.seq + 1])
  /\ UNCHANGED procs

CompactWithoutSnapshot(p) ==  \* (mutated form)
  /\ known[p]
  /\ snapshot.rev >= 0 /\ Readable
  /\ Start(p, "compact", "event", Latest)
  /\ UNCHANGED procs

\* compactTransitions: does not look at lastRevision.
BeginCompact(p) ==
  /\ known[p]
  /\ snapshot.rev >= 0 /\ Readable
  /\ Start(p, "compact", "snapshot", Latest)
  /\ UNCHANGED procs

\* load: rewrites the snapshot only when the journal is ahead of it.  The
\* generation is known as soon as the manifest has been read.
BeginLoad(p) ==
  /\ snapshot.rev >= 0 /\ Readable
  /\ known' = [known EXCEPT ![p] = TRUE]
  /\ Start(p, "load", IF HasSuffix THEN "snapshot" ELSE "event", Latest)
  /\ UNCHANGED <<lastRev, mem>>

LoadRefused(p) ==
  /\ lock = NoOne /\ snapshot.rev >= 0 /\ ~Readable
  /\ known' = [known EXCEPT ![p] = TRUE]
  /\ UNCHANGED <<disk, lock, op, lastRev, mem, faults, plain>>

-----------------------------------------------------------------------------
(* The writes of the operation that holds the lock, one action per write. *)

At(p, pc) == lock = p /\ op.pc = pc
Goto(pc) == op' = [op EXCEPT !.pc = pc] /\ UNCHANGED <<lock, procs, faults, plain>>

AppendRecord(p) ==
  /\ At(p, "append")
  /\ journal' = Append(journal, [seq |-> op.target.seq, rev |-> op.target.rev])
  /\ Goto("snapshot")
  /\ UNCHANGED <<claimed, torn, snapshot, checkpoint, cursor, log, tail>>

CompactWithoutOutbox(p) ==  \* (mutated form: the projection is forgotten)
  /\ At(p, "snapshot")
  /\ snapshot' = op.target
  /\ Goto(CASE op.kind = "save" -> "done" [] op.kind = "compact" -> "checkpoint"
            [] OTHER -> "event")
  /\ UNCHANGED <<claimed, journal, torn, checkpoint, cursor, log, tail>>

WriteSnapshot(p) ==
  /\ At(p, "snapshot")
  /\ snapshot' = op.target
  /\ Goto(IF op.kind = "save" THEN "done" ELSE "event")
  /\ UNCHANGED <<claimed, journal, torn, checkpoint, cursor, log, tail>>

ProjectBlindly(p) ==  \* (mutated form: hasEvent is not asked)
  /\ At(p, "event") /\ Pending # {}
  /\ log' = Append(log, NextEffect) /\ tail' = "clean"
  /\ Goto("cursor")
  /\ UNCHANGED <<claimed, journal, torn, snapshot, checkpoint, cursor>>

\* projectOutbox: an event found in events.jsonl is not appended again; an
\* appended event first ends a line that was cut short (eventLinePrefix).
ProjectEvent(p) ==
  /\ At(p, "event") /\ Pending # {}
  /\ IF NextEffect \in Published
     THEN UNCHANGED <<log, tail>>
     ELSE log' = Append(log, NextEffect) /\ tail' = "clean"
  /\ Goto("cursor")
  /\ UNCHANGED <<claimed, journal, torn, snapshot, checkpoint, cursor>>

WriteCursor(p) ==
  /\ At(p, "cursor")
  /\ cursor' = NextEffect
  /\ Goto("event")
  /\ UNCHANGED <<claimed, journal, torn, snapshot, checkpoint, log, tail>>

OutboxDrained(p) ==
  /\ At(p, "event") /\ Pending = {}
  /\ Goto(IF op.kind = "compact" THEN "checkpoint" ELSE "done")
  /\ UNCHANGED disk

WriteCheckpoint(p) ==
  /\ At(p, "checkpoint")
  /\ checkpoint' = op.target.seq
  /\ Goto("truncate")
  /\ UNCHANGED <<claimed, journal, torn, snapshot, cursor, log, tail>>

Truncate(p) ==
  /\ At(p, "truncate")
  /\ journal' = <<>>
  /\ Goto("done")
  /\ UNCHANGED <<claimed, torn, snapshot, checkpoint, cursor, log, tail>>

KeepOperation == lock' = NoOne /\ UNCHANGED op  \* (mutated form)
Release == lock' = NoOne /\ op' = Idle

\* The operation resolves: the store remembers the revision, and the caller
\* replaces its in-memory state (compaction returns no state).
Finish(p) ==
  /\ At(p, "done")
  /\ lastRev' = [lastRev EXCEPT ![p] = op.target.rev]
  /\ mem' = IF op.kind = "compact" THEN mem ELSE [mem EXCEPT ![p] = op.target.rev]
  /\ Release
  /\ UNCHANGED <<disk, known, faults, plain>>

AbandonHolding(p) ==  \* (mutated form: the lock is not released on the error path)
  /\ At(p, "failed")
  /\ op' = [op EXCEPT !.pc = "idle"]
  /\ UNCHANGED <<disk, lock, procs, faults, plain>>

\* The operation rejects: nothing the process remembers changes.
Abandon(p) ==
  /\ At(p, "failed")
  /\ Release
  /\ UNCHANGED <<disk, procs, faults, plain>>

-----------------------------------------------------------------------------
(* Events outside the outbox, failing writes and crashes. *)

Projecting(p) == lock = p /\ op.pc \in {"event", "cursor"}

\* Something is appended to events.jsonl without ending the last line first:
\* a complete line that lacked its newline becomes unreadable.
LoseBareLine == log' = IF tail = "bareEffect" THEN SubSeq(log, 1, Len(log) - 1) ELSE log

\* appendEvent: no repair of the tail; excluded by eventsMutex while the same
\* process projects.
PlainEvent(p) ==
  /\ claimed /\ plain < MaxPlain /\ ~Projecting(p)
  /\ LoseBareLine /\ tail' = "clean"
  /\ plain' = plain + 1
  /\ UNCHANGED <<claimed, journal, torn, snapshot, checkpoint, cursor,
                 lock, op, procs, faults>>

Fault == faults < MaxFaults /\ faults' = faults + 1

\* appendEvent is cut short by a failing write.
TearPlain(p) ==
  /\ claimed /\ ~Projecting(p) /\ Fault
  /\ LoseBareLine
  /\ tail' \in IF tail = "clean"
               THEN {IF c = "torn" THEN c ELSE "barePlain" : c \in CutTails}
               ELSE {"torn"}
  /\ UNCHANGED <<claimed, journal, torn, snapshot, checkpoint, cursor,
                 lock, op, procs, plain>>

SwallowCommit == op' = [op EXCEPT !.pc =  \* (mutated form: every failure of a commit)
  IF op.kind = "commit" THEN "done" ELSE "failed"]

\* A commit swallows a failure of the projection, other operations reject.
FailTo == op' = [op EXCEPT !.pc = IF op.kind = "commit" /\ op.pc \in {"event", "cursor"}
                                  THEN "done" ELSE "failed"]

\* A write throws, before or after an atomic replacement took effect.
IoError(p) ==
  /\ lock = p /\ op.pc \in Writes /\ Fault
  /\ op.pc = "event" => Pending # {}
  /\ FailTo
  /\ \/ UNCHANGED <<journal, snapshot, cursor>>
     \/ op.pc = "snapshot" /\ snapshot' = op.target /\ UNCHANGED <<journal, cursor>>
     \/ op.pc = "cursor" /\ cursor' = NextEffect /\ UNCHANGED <<journal, snapshot>>
     \/ op.pc = "truncate" /\ journal' = <<>> /\ UNCHANGED <<snapshot, cursor>>
  /\ UNCHANGED <<claimed, torn, checkpoint, log, tail, lock, procs, plain>>

\* The append of a journal record is cut short.
TearRecord(p) ==
  /\ At(p, "append") /\ Fault /\ FailTo
  /\ torn' = TRUE
  /\ UNCHANGED <<claimed, journal, snapshot, checkpoint, cursor, log, tail,
                 lock, procs, plain>>

\* The append of an effect event is cut short (the tail was ended first).
TearEvent(p) ==
  /\ At(p, "event") /\ Pending # {} /\ NextEffect \notin Published
  /\ Fault /\ FailTo
  /\ \E cut \in CutTails :
       /\ tail' = IF cut = "torn" THEN "torn" ELSE "bareEffect"
       /\ log' = IF cut = "torn" THEN log ELSE Append(log, NextEffect)
  /\ UNCHANGED <<claimed, journal, torn, snapshot, checkpoint, cursor,
                 lock, procs, plain>>

\* The process dies and is started again with an empty memory.
Crash(p) ==
  /\ Fault
  /\ known[p] \/ lock = p
  /\ known' = [known EXCEPT ![p] = FALSE]
  /\ lastRev' = [lastRev EXCEPT ![p] = -1]
  /\ mem' = [mem EXCEPT ![p] = -1]
  /\ IF lock = p THEN Release ELSE UNCHANGED <<lock, op>>
  /\ UNCHANGED <<disk, plain>>

-----------------------------------------------------------------------------
Step(p) ==
  \/ AppendRecord(p) \/ WriteSnapshot(p) \/ ProjectEvent(p) \/ WriteCursor(p)
  \/ OutboxDrained(p) \/ WriteCheckpoint(p) \/ Truncate(p)
  \/ Finish(p) \/ Abandon(p)

Begin(p) ==
  \/ Create(p) \/ BeginSave(p) \/ BeginCommit(p) \/ BeginCompact(p)
  \/ BeginLoad(p) \/ LoadRefused(p)

Environment(p) ==
  \/ PlainEvent(p) \/ TearPlain(p) \/ IoError(p) \/ TearRecord(p)
  \/ TearEvent(p) \/ Crash(p)

Next == \E p \in Processes : Step(p) \/ Begin(p) \/ Environment(p)

Spec == Init /\ [][Next]_vars

\* A started operation is driven to its end by the promise chain of its call.
FairSpec == Spec /\ \A p \in Processes : WF_vars(Step(p))
-----------------------------------------------------------------------------
(* Properties. *)

\* Transitions that count: those in the journal and those compacted away.
HeadSeq == IF journal = <<>> THEN checkpoint ELSE LastSeq

\* The event of every transition is published once and in commit order, never
\* before its transition is durable, and the outbox cursor never runs ahead of
\* the events file (projectOutbox, across crashes between its two writes).
EffectsOnceInOrder ==
  /\ \A i \in DOMAIN log : log[i] = i
  /\ cursor <= Len(log) /\ Len(log) <= HeadSeq

\* A state a caller was given or told is committed is durable: no process holds
\* a revision in memory that a load would not return (commitTransition writes
\* the journal before it resolves; run-state-transition.ts replaces the memory
\* state only then).
MemoryIsDurable == \A p \in Processes : mem[p] <= Latest.rev /\ lastRev[p] <= Latest.rev

\* The authoritative state advances by one revision at a time, and only on top
\* of the state its writer holds: a stale writer overwrites nothing (the
\* expectedRevision checks of commitTransition and save).
NoLostUpdate ==
  [][Latest.rev' # Latest.rev =>
       /\ lock # NoOne /\ mem[lock] = Latest.rev /\ lastRev[lock] = Latest.rev
       /\ Latest.rev' = Latest.rev + 1]_vars

\* Records leave the journal only when the snapshot and the events file hold
\* all they say (the order of the writes in compactTransitions).
CompactionLosesNothing ==
  [][Len(journal') < Len(journal) =>
       snapshot.seq = HeadSeq /\ checkpoint = HeadSeq /\ Len(log) = HeadSeq]_vars

\* A load or a compaction that resolves leaves no transition unpublished and no
\* record missing from the snapshot, whatever crashed before it.
LoadSettles ==
  op.kind \in {"load", "compact"} /\ op.pc = "done" =>
    Len(log) = HeadSeq /\ snapshot.seq = HeadSeq /\ Pending = {}

\* A compaction stopped between its two writes after an earlier compaction.
HalfCompacted == journal # <<>> /\ journal[1].seq > 1 /\ checkpoint >= journal[1].seq

\* Reading the run fails for two reasons only: a journal line cut short and a
\* half-done compaction that is not the first (readSuffix).
UnreadableOnlyWhenCut == ~Readable <=> torn \/ HalfCompacted

\* A crash or a failing write never leaves the run unreadable unless it cut a
\* journal line short: "The journal is authoritative: snapshot and event
\* projection can be replayed after a crash." (src/src/store.ts:232)
CrashRecoverable == ~torn => Readable

\* Every operation that takes the state lock releases it.
OperationsEnd == \A p \in Processes : lock = p ~> lock # p

\* The store implements its abstract promise.
Promise == INSTANCE DurableRun WITH rev <- Latest.rev, committed <- HeadSeq
KeepsPromise == Promise!Spec
=============================================================================
