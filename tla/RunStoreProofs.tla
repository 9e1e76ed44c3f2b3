--------------------------- MODULE RunStoreProofs ---------------------------
(***************************************************************************)
(* Proofs about RunStore for every set of processes and every bound.  The  *)
(* safety properties are not inductive: they follow from how the three     *)
(* files journal, snapshot and checkpoint overlap (ChainInv, HeadInv,      *)
(* CursorInv) and from what the operation that holds the lock has already  *)
(* written (OpInv).                                                        *)
(***************************************************************************)
EXTENDS RunStore, SequenceTheorems, TLAPS

\* Before the run is claimed nothing is known and nothing is written.
ClaimInv == ~claimed => lock = NoOne /\ snapshot.rev = -1 /\ \A p \in Processes : ~known[p]

\* The journal is contiguous, starts no later than the record after the
\* checkpoint and reaches at least the checkpoint.
ChainInv ==
  journal # <<>> =>
    /\ 1 <= journal[1].seq /\ journal[1].seq <= checkpoint + 1
    /\ checkpoint <= LastSeq
    /\ \A i \in DOMAIN journal : journal[i].seq = journal[1].seq + (i - 1)

\* The snapshot lies between the checkpoint and the head.
HeadInv ==
  /\ checkpoint <= snapshot.seq /\ snapshot.seq <= HeadSeq
  /\ snapshot.rev = -1 => journal = <<>>

\* The outbox has passed everything that was compacted away.
CursorInv == checkpoint <= cursor /\ cursor <= HeadSeq

\* The holder of the lock works on the authoritative state.
HolderOwns == mem[lock] = Latest.rev /\ lastRev[lock] = Latest.rev

\* What is on disk at each point of the operation that holds the lock.
OpInv ==
  lock # NoOne =>
    /\ op.kind # "none" /\ op.pc # "idle"
    /\ op.pc = "append" =>
         /\ op.kind = "commit" /\ snapshot.rev >= 0 /\ HolderOwns
         /\ op.target = [rev |-> Latest.rev + 1, seq |-> HeadSeq + 1]
    /\ op.pc = "snapshot" /\ op.kind = "save" =>
         /\ snapshot.seq = HeadSeq /\ HolderOwns
         /\ op.target = [rev |-> Latest.rev + 1, seq |-> HeadSeq]
    /\ op.pc = "snapshot" /\ op.kind # "save" =>
         op.target = Latest /\ snapshot.rev >= 0
    /\ op.pc \in {"event", "cursor", "checkpoint", "truncate", "done"} =>
         op.target = snapshot /\ snapshot.seq = HeadSeq /\ snapshot.rev >= 0
    /\ op.pc \in {"append", "event", "cursor", "checkpoint", "truncate"} => op.kind # "save"
    /\ op.pc = "cursor" => cursor < HeadSeq
    /\ op.pc \in {"checkpoint", "truncate"} => cursor = HeadSeq
    /\ op.pc = "done" /\ op.kind \in {"load", "compact"} => cursor = HeadSeq
    /\ op.pc = "truncate" => checkpoint = HeadSeq

IInv ==
  /\ TypeOK /\ ClaimInv /\ ChainInv /\ HeadInv /\ CursorInv
  /\ MemoryIsDurable /\ OpInv

-----------------------------------------------------------------------------
(* Lemmas about the files. *)

\* The last journal record, the head and the authoritative state are typed.
LEMMA HeadTyped ==
  ASSUME TypeOK
  PROVE  /\ HeadSeq \in Nat
         /\ Latest \in [rev : Nat \cup {-1}, seq : Nat]
         /\ journal # <<>> => Len(journal) \in DOMAIN journal /\ 1 \in DOMAIN journal
         /\ \A i \in DOMAIN journal : journal[i] \in [seq : Nat, rev : Nat]
         /\ Len(journal) \in Nat /\ DOMAIN journal = 1..Len(journal)
<1> DEFINE Records == [seq : Nat, rev : Nat]
<1>0. journal \in Seq(Records)
  BY DEF TypeOK
<1>1. /\ Len(journal) \in Nat /\ DOMAIN journal = 1..Len(journal)
      /\ \A i \in DOMAIN journal : journal[i] \in [seq : Nat, rev : Nat]
      /\ journal # <<>> => Len(journal) \in DOMAIN journal /\ 1 \in DOMAIN journal
  <2> HIDE DEF Records
  <2>1. Len(journal) \in Nat /\ DOMAIN journal = 1..Len(journal)
    BY <1>0
  <2>2. journal # <<>> => Len(journal) > 0
    BY <1>0, EmptySeq
  <2>3. \A i \in DOMAIN journal : journal[i] \in Records
    BY <1>0
  <2>4. QED
    BY <2>1, <2>2, <2>3 DEF Records
<1>2. QED
  BY <1>1 DEF TypeOK, HeadSeq, Latest, LastSeq, HasSuffix

\* The sequence of the authoritative state is the head; once the snapshot has
\* reached the head it is the authoritative state.
LEMMA LatestIsHead ==
  ASSUME TypeOK, HeadInv
  PROVE  /\ Latest.seq = HeadSeq
         /\ snapshot.seq = HeadSeq => Latest = snapshot
         /\ ~HasSuffix => snapshot.seq = HeadSeq
         /\ snapshot.rev >= 0 => Latest.rev >= 0
  BY HeadTyped DEF TypeOK, HeadInv, HeadSeq, Latest, LastSeq, HasSuffix

\* The journal holds the interval of sequences between its ends.
LEMMA SeqsInterval ==
  ASSUME TypeOK, ChainInv, journal # <<>>
  PROVE  Seqs = journal[1].seq .. LastSeq
<1>1. \A s \in Seqs : s \in journal[1].seq .. LastSeq
  BY HeadTyped DEF ChainInv, Seqs, LastSeq
<1>2. ASSUME NEW s \in journal[1].seq .. LastSeq
      PROVE  s \in Seqs
  <2>1. s - journal[1].seq + 1 \in DOMAIN journal
    BY HeadTyped DEF ChainInv, LastSeq
  <2>2. journal[s - journal[1].seq + 1].seq = s
    BY <2>1, HeadTyped DEF ChainInv
  <2>3. QED
    BY <2>1, <2>2 DEF Seqs
<1>3. QED
  BY <1>1, <1>2

\* The outbox has work exactly when the cursor is behind the head, and then the
\* next effect is the one after the cursor.
LEMMA NextEffectFollows ==
  ASSUME TypeOK, ChainInv, CursorInv
  PROVE  /\ Pending # {} <=> cursor < HeadSeq
         /\ Pending # {} => NextEffect = cursor + 1
<1>1. CASE journal = <<>>
  <2>1. Seqs = {} /\ HeadSeq = checkpoint
    BY <1>1 DEF Seqs, HeadSeq
  <2>2. QED
    BY <2>1 DEF Pending, CursorInv, TypeOK
<1>2. CASE journal # <<>>
  <2>1. Seqs = journal[1].seq .. LastSeq /\ HeadSeq = LastSeq
    BY <1>2, SeqsInterval DEF HeadSeq
  <2>2. journal[1].seq \in Nat /\ LastSeq \in Nat /\ cursor \in Nat /\ checkpoint \in Nat
    BY <1>2, HeadTyped DEF TypeOK, LastSeq
  <2>3. Pending # {} <=> cursor < HeadSeq
    <3>1. cursor < LastSeq => LastSeq \in Pending
      BY <1>2, <2>1, <2>2 DEF Pending, CursorInv, ChainInv
    <3>2. ASSUME NEW s \in Pending PROVE cursor < LastSeq
      BY <2>1, <2>2 DEF Pending
    <3>3. QED
      BY <2>1, <3>1, <3>2
  <2>4. ASSUME Pending # {} PROVE NextEffect = cursor + 1
    <3>1. cursor + 1 \in Pending
      BY <1>2, <2>1, <2>2, <2>3, <2>4 DEF Pending, CursorInv, ChainInv
    <3>2. \A s \in Pending : cursor + 1 <= s
      BY <2>1, <2>2 DEF Pending
    <3>3. \A s \in Pending : s \in Nat
      BY <2>1, <2>2 DEF Pending
    <3>4. \A s \in Pending : (\A t \in Pending : s <= t) => s = cursor + 1
      BY <3>1, <3>2, <3>3, <2>2
    <3>5. QED
      BY <3>1, <3>2, <3>4 DEF NextEffect
  <2>5. QED
    BY <2>3, <2>4
<1>3. QED
  BY <1>1, <1>2

\* Head and authoritative state depend on three files only.
LEMMA SameFiles ==
  ASSUME UNCHANGED <<journal, snapshot, checkpoint>>
  PROVE  HeadSeq' = HeadSeq /\ Latest' = Latest /\ LastSeq' = LastSeq
  BY DEF HeadSeq, Latest, LastSeq, HasSuffix

-----------------------------------------------------------------------------
(* Every action preserves the invariant. *)

LEMMA InitIInv == Init => IInv
<1> SUFFICES ASSUME Init PROVE IInv
  OBVIOUS
<1>1. TypeOK
  <2>1. journal \in Seq([seq : Nat, rev : Nat]) /\ log \in Seq(Nat)
    BY EmptySeq DEF Init
  <2>2. op \in [kind : Kinds, pc : Writes \cup {"idle", "done", "failed"},
                target : [rev : Nat \cup {-1}, seq : Nat]]
    BY DEF Init, Idle, Kinds
  <2>3. QED
    BY <2>1, <2>2 DEF Init, TypeOK, Tails
<1>2. HeadSeq = 0 /\ Latest = [rev |-> -1, seq |-> 0]
  BY DEF Init, HeadSeq, Latest, HasSuffix
<1>3. QED
  BY <1>1, <1>2 DEF Init, IInv, ClaimInv, ChainInv, HeadInv, CursorInv,
    MemoryIsDurable, OpInv

LEMMA CreateStep ==
  ASSUME IInv, NEW p \in Processes, Create(p)
  PROVE  IInv'
<1>1. HeadSeq' = HeadSeq /\ Latest' = Latest /\ LastSeq' = LastSeq
  BY SameFiles DEF Create
<1>2. TypeOK'
  BY DEF IInv, TypeOK, Create
<1>3. Latest.rev \in Nat \cup {-1}
  BY HeadTyped DEF IInv
<1>4. QED
  BY <1>1, <1>2, <1>3 DEF IInv, Create, TypeOK, ClaimInv, ChainInv, HeadInv, CursorInv,
    MemoryIsDurable, OpInv

\* Taking the lock leaves the files alone; what remains is what OpInv says of
\* the new operation.
LEMMA StartStep ==
  ASSUME IInv, NEW p \in Processes, NEW kind \in Kinds, NEW pc \in Writes,
         NEW target \in [rev : Nat \cup {-1}, seq : Nat],
         Start(p, kind, pc, target), claimed,
         lastRev' = lastRev, mem' = mem, known' \in [Processes -> BOOLEAN],
         OpInv'
  PROVE  IInv'
<1>1. HeadSeq' = HeadSeq /\ Latest' = Latest /\ LastSeq' = LastSeq
  BY SameFiles DEF Start, disk
<1>2. pc # "idle"
  BY DEF Writes
<1>3. TypeOK'
  BY <1>2, StoreAssumption DEF IInv, TypeOK, Start, disk, Idle
<1>4. ClaimInv' /\ ChainInv' /\ HeadInv' /\ CursorInv' /\ MemoryIsDurable'
  BY <1>1 DEF IInv, Start, disk, ClaimInv, ChainInv, HeadInv, CursorInv, MemoryIsDurable
<1>5. QED
  BY <1>3, <1>4 DEF IInv

LEMMA BeginSaveStep ==
  ASSUME IInv, NEW p \in Processes, BeginSave(p)
  PROVE  IInv'
<1> DEFINE target == [rev |-> mem[p] + 1, seq |-> snapshot.seq]
<1>1. HeadSeq' = HeadSeq /\ Latest' = Latest
  BY SameFiles DEF BeginSave, Start, disk
<1>2. claimed /\ mem[p] \in Nat \cup {-1} /\ target \in [rev : Nat \cup {-1}, seq : Nat]
  BY DEF IInv, TypeOK, ClaimInv, BeginSave
<1>3. snapshot.seq = HeadSeq /\ Latest = snapshot
  <2>1. ~HasSuffix
    BY DEF BeginSave, IInv, HeadInv, HasSuffix, TypeOK
  <2>2. QED
    BY <2>1, LatestIsHead DEF IInv
<1>4. mem[p] = Latest.rev /\ lastRev[p] = Latest.rev
  BY <1>2, <1>3, HeadTyped DEF IInv, MemoryIsDurable, BeginSave
<1>5. OpInv'
  BY <1>1, <1>3, <1>4 DEF BeginSave, Start, disk, procs, OpInv, HolderOwns
<1>6. QED
  BY <1>2, <1>5, StartStep DEF BeginSave, Kinds, Writes, procs, IInv, TypeOK

LEMMA BeginCommitStep ==
  ASSUME IInv, NEW p \in Processes, BeginCommit(p)
  PROVE  IInv'
<1> DEFINE target == [rev |-> mem[p] + 1, seq |-> Latest.seq + 1]
<1>1. HeadSeq' = HeadSeq /\ Latest' = Latest
  BY SameFiles DEF BeginCommit, Start, disk
<1>2. claimed /\ target \in [rev : Nat \cup {-1}, seq : Nat]
  BY HeadTyped DEF IInv, TypeOK, ClaimInv, BeginCommit
<1>3. Latest.seq = HeadSeq
  BY LatestIsHead DEF IInv
<1>4. OpInv'
  BY <1>1, <1>3 DEF BeginCommit, Start, disk, procs, OpInv, HolderOwns
<1>5. QED
  BY <1>2, <1>4, StartStep DEF BeginCommit, Kinds, Writes, procs, IInv, TypeOK

LEMMA BeginCompactStep ==
  ASSUME IInv, NEW p \in Processes, BeginCompact(p)
  PROVE  IInv'
<1>1. HeadSeq' = HeadSeq /\ Latest' = Latest
  BY SameFiles DEF BeginCompact, Start, disk
<1>2. claimed /\ Latest \in [rev : Nat \cup {-1}, seq : Nat]
  BY HeadTyped DEF IInv, TypeOK, ClaimInv, BeginCompact
<1>3. OpInv'
  BY <1>1 DEF BeginCompact, Start, disk, procs, OpInv
<1>4. QED
  BY <1>2, <1>3, StartStep DEF BeginCompact, Kinds, Writes, procs, IInv, TypeOK

LEMMA BeginLoadStep ==
  ASSUME IInv, NEW p \in Processes, BeginLoad(p)
  PROVE  IInv'
<1> DEFINE pc == IF HasSuffix THEN "snapshot" ELSE "event"
<1>1. HeadSeq' = HeadSeq /\ Latest' = Latest
  BY SameFiles DEF BeginLoad, Start, disk
<1>2. claimed /\ Latest \in [rev : Nat \cup {-1}, seq : Nat]
  BY HeadTyped DEF IInv, TypeOK, ClaimInv, BeginLoad
<1>3. ~HasSuffix => snapshot.seq = HeadSeq /\ Latest = snapshot
  BY LatestIsHead DEF IInv
<1>4. OpInv'
  BY <1>1, <1>3 DEF BeginLoad, Start, disk, OpInv
<1>5. QED
  BY <1>2, <1>4, StartStep DEF BeginLoad, Kinds, Writes, IInv, TypeOK

LEMMA LoadRefusedStep ==
  ASSUME IInv, NEW p \in Processes, LoadRefused(p)
  PROVE  IInv'
<1>1. HeadSeq' = HeadSeq /\ Latest' = Latest /\ LastSeq' = LastSeq
  BY SameFiles DEF LoadRefused, disk
<1>2. QED
  BY <1>1 DEF LoadRefused, disk, IInv, TypeOK, ClaimInv, ChainInv, HeadInv, CursorInv,
    MemoryIsDurable, OpInv, HolderOwns

-----------------------------------------------------------------------------
(* The writes of the holder. *)

\* Moving the operation on keeps it typed and busy.
LEMMA GotoTyped ==
  ASSUME TypeOK, lock # NoOne, NEW pc \in Writes \cup {"done", "failed"},
         op' = [op EXCEPT !.pc = pc], lock' = lock
  PROVE  /\ op' \in [kind : Kinds, pc : Writes \cup {"idle", "done", "failed"},
                     target : [rev : Nat \cup {-1}, seq : Nat]]
         /\ lock' \in Processes \cup {NoOne}
         /\ lock' = NoOne <=> op' = Idle
         /\ op'.kind = op.kind /\ op'.pc = pc /\ op'.target = op.target
BY DEF TypeOK, Idle, Writes

\* What a process remembers stays durable while the authoritative state grows.
LEMMA MemoryKept ==
  ASSUME TypeOK, MemoryIsDurable, mem' = mem, lastRev' = lastRev,
         NEW old \in Int, NEW new \in Int, old <= new,
         Latest.rev = old, Latest'.rev = new
  PROVE  MemoryIsDurable'
<1>1. \A q \in Processes : mem[q] \in Int /\ lastRev[q] \in Int
  BY DEF TypeOK
<1>2. \A q \in Processes : mem[q] <= old /\ lastRev[q] <= old
  BY DEF MemoryIsDurable
<1>3. \A q \in Processes : mem[q] <= new /\ lastRev[q] <= new
  BY <1>1, <1>2
<1>4. QED
  BY <1>3 DEF MemoryIsDurable

\* The record appended is the one after the head, and it becomes the
\* authoritative state.
LEMMA RecordAppended ==
  ASSUME IInv, NEW p \in Processes, AppendRecord(p)
  PROVE  /\ lock # NoOne /\ op.pc = "append" /\ op.kind = "commit"
         /\ op.target = [rev |-> Latest.rev + 1, seq |-> HeadSeq + 1]
         /\ HolderOwns /\ snapshot.rev >= 0 /\ claimed
         /\ HeadSeq \in Nat /\ Latest.rev \in Nat \cup {-1} /\ Len(journal) \in Nat
         /\ Len(journal') = Len(journal) + 1
         /\ journal'[Len(journal) + 1].seq = HeadSeq + 1
         /\ \A i \in 1..Len(journal) : journal'[i] = journal[i]
         /\ journal' \in Seq([seq : Nat, rev : Nat])
         /\ DOMAIN journal' = 1..(Len(journal) + 1) /\ journal' # <<>>
         /\ LastSeq' = HeadSeq + 1 /\ HeadSeq' = HeadSeq + 1
         /\ Latest' = op.target
<1> DEFINE record == [seq |-> op.target.seq, rev |-> op.target.rev]
<1>1. /\ lock # NoOne /\ op.pc = "append" /\ op.kind = "commit"
      /\ op.target = [rev |-> Latest.rev + 1, seq |-> HeadSeq + 1]
      /\ HolderOwns /\ snapshot.rev >= 0 /\ claimed
  BY StoreAssumption DEF AppendRecord, At, IInv, OpInv, ClaimInv, TypeOK
<1>2. HeadSeq \in Nat /\ Latest.rev \in Nat \cup {-1} /\ Len(journal) \in Nat
  BY HeadTyped DEF IInv
<1>3. record \in [seq : Nat, rev : Nat] /\ record.seq = HeadSeq + 1
  BY <1>1, <1>2
<1>4. /\ Len(journal') = Len(journal) + 1
      /\ journal'[Len(journal) + 1] = record
      /\ \A i \in 1..Len(journal) : journal'[i] = journal[i]
      /\ journal' \in Seq([seq : Nat, rev : Nat])
      /\ DOMAIN journal' = 1..(Len(journal) + 1) /\ journal' # <<>>
  <2> DEFINE Records == [seq : Nat, rev : Nat]
  <2>1. journal \in Seq(Records) /\ journal' = Append(journal, record) /\ record \in Records
    BY <1>3 DEF IInv, TypeOK, AppendRecord
  <2> HIDE DEF Records, record
  <2>2. journal' \in Seq(Records) /\ Len(journal') = Len(journal) + 1
    BY <2>1
  <2>3. /\ journal'[Len(journal) + 1] = record
        /\ \A i \in 1..Len(journal) : journal'[i] = journal[i]
        /\ DOMAIN journal' = 1..(Len(journal) + 1)
    BY <2>1, <1>2
  <2>4. journal' # <<>>
    BY <2>1, <2>2, <1>2, EmptySeq
  <2>5. QED
    BY <2>2, <2>3, <2>4 DEF Records
<1>5. LastSeq' = HeadSeq + 1 /\ HeadSeq' = HeadSeq + 1
  BY <1>3, <1>4 DEF LastSeq, HeadSeq
<1>6. Latest' = op.target
  BY <1>1, <1>2, <1>3, <1>4, <1>5 DEF Latest, HasSuffix, AppendRecord, IInv, HeadInv, TypeOK
<1>7. QED
  BY <1>1, <1>2, <1>3, <1>4, <1>5, <1>6

LEMMA AppendRecordStep ==
  ASSUME IInv, NEW p \in Processes, AppendRecord(p)
  PROVE  IInv'
<1>1. /\ lock # NoOne /\ op.pc = "append" /\ op.kind = "commit"
      /\ op.target = [rev |-> Latest.rev + 1, seq |-> HeadSeq + 1]
      /\ HolderOwns /\ snapshot.rev >= 0 /\ claimed
  BY RecordAppended
<1>2. HeadSeq \in Nat /\ Latest.rev \in Nat \cup {-1} /\ Len(journal) \in Nat
  BY RecordAppended
<1>4. /\ Len(journal') = Len(journal) + 1
      /\ journal'[Len(journal) + 1].seq = HeadSeq + 1
      /\ \A i \in 1..Len(journal) : journal'[i] = journal[i]
      /\ journal' \in Seq([seq : Nat, rev : Nat])
      /\ DOMAIN journal' = 1..(Len(journal) + 1) /\ journal' # <<>>
  BY RecordAppended
<1>5. LastSeq' = HeadSeq + 1 /\ HeadSeq' = HeadSeq + 1
  BY RecordAppended
<1>6. Latest' = op.target
  BY RecordAppended
<1>7. TypeOK'
  <2>1. /\ lock' = lock /\ op' = [op EXCEPT !.pc = "snapshot"] /\ "snapshot" \in Writes
    BY DEF AppendRecord, Goto, Writes
  <2>2. QED
    BY <1>1, <1>4, <2>1, GotoTyped DEF IInv, TypeOK, AppendRecord, Goto, procs
<1>8. ChainInv'
  <2>1. CASE journal = <<>>
    <3>1. Len(journal) = 0 /\ HeadSeq = checkpoint
      BY <2>1 DEF HeadSeq
    <3>2. QED
      BY <1>2, <1>4, <1>5, <3>1 DEF ChainInv, AppendRecord, IInv, TypeOK
  <2>2. CASE journal # <<>>
    <3>1. /\ HeadSeq = journal[1].seq + (Len(journal) - 1)
          /\ 1 \in 1..Len(journal) /\ journal[1].seq \in Nat
          /\ checkpoint <= HeadSeq
      BY <2>2, HeadTyped DEF HeadSeq, LastSeq, IInv, ChainInv
    <3>2. journal'[1].seq = journal[1].seq
      BY <3>1, <1>4
    <3>3. \A i \in DOMAIN journal' : journal'[i].seq = journal'[1].seq + (i - 1)
      <4>1. \A i \in 1..Len(journal) : journal'[i].seq = journal[1].seq + (i - 1)
        BY <1>4, <2>2, HeadTyped DEF IInv, ChainInv
      <4>2. journal'[Len(journal) + 1].seq = journal[1].seq + Len(journal)
        <5>1. journal'[Len(journal) + 1].seq = HeadSeq + 1
          BY <1>4
        <5>2. HeadSeq + 1 = journal[1].seq + Len(journal)
          BY <1>2, <3>1
        <5>3. QED
          BY <5>1, <5>2
      <4>3. \A i \in 1..(Len(journal) + 1) : i \in 1..Len(journal) \/ i = Len(journal) + 1
        BY <1>2
      <4>4. (Len(journal) + 1) - 1 = Len(journal)
        BY <1>2
      <4>5. QED
        BY <4>1, <4>2, <4>3, <4>4, <3>2, <1>4
    <3>4. /\ checkpoint' = checkpoint /\ checkpoint \in Nat
          /\ 1 <= journal[1].seq /\ journal[1].seq <= checkpoint + 1
      BY <2>2 DEF ChainInv, AppendRecord, IInv, TypeOK
    <3>5. checkpoint' <= LastSeq'
      BY <1>2, <1>5, <3>1, <3>4
    <3>6. QED
      BY <3>2, <3>3, <3>4, <3>5 DEF ChainInv
  <2>3. QED
    BY <2>1, <2>2
<1>9. ClaimInv' /\ HeadInv' /\ CursorInv'
  BY <1>1, <1>2, <1>5 DEF AppendRecord, IInv, TypeOK, ClaimInv, HeadInv, CursorInv
<1>10. MemoryIsDurable'
  <2>1. Latest'.rev = Latest.rev + 1
    BY <1>1, <1>6
  <2>2. mem' = mem /\ lastRev' = lastRev
    BY DEF AppendRecord, Goto, procs
  <2>3. QED
    BY <1>2, <2>1, <2>2, MemoryKept DEF IInv
<1>11. OpInv'
  BY <1>1, <1>6 DEF AppendRecord, Goto, procs, OpInv, IInv, TypeOK
<1>12. QED
  BY <1>7, <1>8, <1>9, <1>10, <1>11 DEF IInv

\* A snapshot write replaces the snapshot by the target of the operation; the
\* authoritative state becomes, or stays, that target.
LEMMA SnapshotWritten ==
  ASSUME IInv, lock # NoOne, op.pc = "snapshot", snapshot' = op.target,
         UNCHANGED <<journal, checkpoint>>
  PROVE  /\ HeadSeq' = HeadSeq /\ LastSeq' = LastSeq /\ Latest' = op.target
         /\ op.target.seq = HeadSeq /\ op.target.rev >= Latest.rev
         /\ op.target.rev >= 0 /\ op.target \in [rev : Nat \cup {-1}, seq : Nat]
         /\ claimed
<1>1. HeadSeq' = HeadSeq /\ LastSeq' = LastSeq
  BY DEF HeadSeq, LastSeq
<1>2. HeadSeq \in Nat /\ Latest.rev \in Nat \cup {-1} /\ Latest.seq = HeadSeq
  BY HeadTyped, LatestIsHead DEF IInv
<1>3. /\ op.target.seq = HeadSeq /\ op.target.rev >= Latest.rev
      /\ op.target.rev >= 0
  BY <1>2, LatestIsHead DEF IInv, OpInv
<1>4. Latest' = op.target
  BY <1>1, <1>2, <1>3 DEF Latest, HasSuffix, HeadSeq
<1>5. QED
  BY <1>1, <1>3, <1>4 DEF IInv, TypeOK, ClaimInv

LEMMA WriteSnapshotStep ==
  ASSUME IInv, NEW p \in Processes, WriteSnapshot(p)
  PROVE  IInv'
<1> DEFINE pc == IF op.kind = "save" THEN "done" ELSE "event"
<1>1. lock # NoOne /\ op.pc = "snapshot"
  BY StoreAssumption DEF WriteSnapshot, At
<1>2. /\ HeadSeq' = HeadSeq /\ LastSeq' = LastSeq /\ Latest' = op.target
      /\ op.target.seq = HeadSeq /\ op.target.rev >= Latest.rev
      /\ op.target.rev >= 0 /\ op.target \in [rev : Nat \cup {-1}, seq : Nat]
      /\ claimed
  BY <1>1, SnapshotWritten DEF WriteSnapshot
<1>3. HeadSeq \in Nat /\ Latest.rev \in Nat \cup {-1}
  BY HeadTyped DEF IInv
<1>4. TypeOK'
  <2>1. /\ lock' = lock /\ op' = [op EXCEPT !.pc = pc] /\ pc \in Writes \cup {"done", "failed"}
    BY DEF WriteSnapshot, Goto, Writes
  <2>2. QED
    BY <1>1, <1>2, <2>1, GotoTyped DEF IInv, TypeOK, WriteSnapshot, Goto, procs
<1>5. ClaimInv' /\ ChainInv' /\ HeadInv' /\ CursorInv'
  BY <1>2, <1>3 DEF WriteSnapshot, IInv, TypeOK, ClaimInv, ChainInv, HeadInv, CursorInv
<1>6. MemoryIsDurable'
  <2>1. mem' = mem /\ lastRev' = lastRev
    BY DEF WriteSnapshot, Goto, procs
  <2>2. Latest.rev \in Int /\ op.target.rev \in Int /\ Latest.rev <= op.target.rev
    BY <1>2, <1>3
  <2>3. QED
    BY <1>2, <2>1, <2>2, MemoryKept DEF IInv
<1>7. OpInv'
  BY <1>1, <1>2 DEF WriteSnapshot, Goto, procs, OpInv, IInv, TypeOK
<1>8. QED
  BY <1>4, <1>5, <1>6, <1>7 DEF IInv

\* A step of the holder that changes neither the journal, nor the snapshot, nor
\* the checkpoint, and moves the cursor only towards the head.
LEMMA HolderStep ==
  ASSUME IInv, lock # NoOne, NEW pc \in Writes \cup {"done", "failed"},
         op' = [op EXCEPT !.pc = pc], lock' = lock, procs' = procs,
         UNCHANGED <<claimed, journal, snapshot, checkpoint, plain>>,
         torn' \in BOOLEAN, log' \in Seq(Nat), tail' \in Tails, faults' \in Nat,
         cursor' \in Nat, checkpoint <= cursor', cursor' <= HeadSeq,
         OpInv'
  PROVE  IInv'
<1>1. HeadSeq' = HeadSeq /\ LastSeq' = LastSeq /\ Latest' = Latest
  BY SameFiles
<1>2. TypeOK'
  BY GotoTyped DEF IInv, TypeOK, procs
<1>3. ClaimInv' /\ ChainInv' /\ HeadInv' /\ CursorInv'
  BY <1>1 DEF IInv, ClaimInv, ChainInv, HeadInv, CursorInv, procs
<1>4. MemoryIsDurable'
  BY <1>1 DEF IInv, MemoryIsDurable, procs
<1>5. QED
  BY <1>2, <1>3, <1>4 DEF IInv

LEMMA AppendTyped ==
  ASSUME NEW s \in Seq(Nat), NEW e \in Nat
  PROVE  Append(s, e) \in Seq(Nat)
OBVIOUS

LEMMA ProjectEventStep ==
  ASSUME IInv, NEW p \in Processes, ProjectEvent(p)
  PROVE  IInv'
<1>1. lock # NoOne /\ op.pc = "event"
  BY StoreAssumption DEF ProjectEvent, At
<1>2. cursor < HeadSeq /\ NextEffect = cursor + 1
  BY NextEffectFollows DEF ProjectEvent, IInv
<1>3. HeadSeq' = HeadSeq /\ Latest' = Latest
  BY SameFiles DEF ProjectEvent
<1>4. log' \in Seq(Nat) /\ tail' \in Tails
  <2>1. NextEffect \in Nat /\ log \in Seq(Nat) /\ tail \in Tails
    BY <1>2 DEF IInv, TypeOK
  <2>2. /\ log' = log \/ log' = Append(log, NextEffect)
        /\ tail' = tail \/ tail' = "clean"
    BY DEF ProjectEvent
  <2>3. QED
    BY <2>1, <2>2, AppendTyped DEF Tails
<1>5. OpInv'
  BY <1>1, <1>2, <1>3 DEF ProjectEvent, Goto, procs, OpInv, IInv, TypeOK
<1>6. checkpoint <= cursor /\ cursor <= HeadSeq
  BY DEF IInv, CursorInv
<1>7. QED
  BY <1>1, <1>4, <1>5, <1>6, HolderStep
    DEF ProjectEvent, Goto, Writes, IInv, TypeOK

LEMMA WriteCursorStep ==
  ASSUME IInv, NEW p \in Processes, WriteCursor(p)
  PROVE  IInv'
<1>1. lock # NoOne /\ op.pc = "cursor"
  BY StoreAssumption DEF WriteCursor, At
<1>2. cursor < HeadSeq /\ NextEffect = cursor + 1
  BY <1>1, NextEffectFollows DEF IInv, OpInv
<1>3. HeadSeq' = HeadSeq /\ Latest' = Latest /\ HeadSeq \in Nat
  BY SameFiles, HeadTyped DEF WriteCursor, IInv
<1>4. OpInv'
  BY <1>1, <1>3 DEF WriteCursor, Goto, procs, OpInv, IInv, TypeOK
<1>5. cursor' \in Nat /\ checkpoint <= cursor' /\ cursor' <= HeadSeq
  BY <1>2, <1>3 DEF WriteCursor, IInv, TypeOK, CursorInv
<1>6. QED
  BY <1>1, <1>4, <1>5, HolderStep DEF WriteCursor, Goto, Writes, IInv, TypeOK

LEMMA OutboxDrainedStep ==
  ASSUME IInv, NEW p \in Processes, OutboxDrained(p)
  PROVE  IInv'
<1>1. lock # NoOne /\ op.pc = "event"
  BY StoreAssumption DEF OutboxDrained, At
<1>2. HeadSeq' = HeadSeq /\ Latest' = Latest /\ HeadSeq \in Nat
  BY SameFiles, HeadTyped DEF OutboxDrained, disk, IInv
<1>3. cursor = HeadSeq
  BY <1>2, NextEffectFollows DEF OutboxDrained, IInv, CursorInv, TypeOK
<1>4. OpInv'
  BY <1>1, <1>2, <1>3 DEF OutboxDrained, Goto, procs, disk, OpInv, IInv, TypeOK
<1>5. QED
  BY <1>1, <1>2, <1>3, <1>4, HolderStep
    DEF OutboxDrained, Goto, Writes, disk, IInv, TypeOK, CursorInv

LEMMA WriteCheckpointStep ==
  ASSUME IInv, NEW p \in Processes, WriteCheckpoint(p)
  PROVE  IInv'
<1>1. lock # NoOne /\ op.pc = "checkpoint"
  BY StoreAssumption DEF WriteCheckpoint, At
<1>2. /\ op.target = snapshot /\ snapshot.seq = HeadSeq /\ cursor = HeadSeq
      /\ snapshot.rev >= 0 /\ op.kind # "save" /\ claimed
  BY <1>1 DEF IInv, OpInv, ClaimInv
<1>3. HeadSeq \in Nat /\ checkpoint' = HeadSeq
  BY <1>2, HeadTyped DEF WriteCheckpoint, IInv
<1>4. HeadSeq' = HeadSeq /\ Latest' = Latest /\ LastSeq' = LastSeq
  BY <1>3 DEF WriteCheckpoint, HeadSeq, Latest, LastSeq, HasSuffix
<1>5. TypeOK'
  <2>1. /\ lock' = lock /\ op' = [op EXCEPT !.pc = "truncate"] /\ "truncate" \in Writes
    BY DEF WriteCheckpoint, Goto, Writes
  <2>2. QED
    BY <1>1, <1>3, <2>1, GotoTyped DEF IInv, TypeOK, WriteCheckpoint, Goto, procs
<1>6. ChainInv'
  <2>1. journal' = journal /\ (journal # <<>> => LastSeq = HeadSeq)
    BY DEF WriteCheckpoint, HeadSeq
  <2>2. journal # <<>> => journal[1].seq <= HeadSeq + 1
    <3>1. journal # <<>> => checkpoint <= HeadSeq /\ journal[1].seq <= checkpoint + 1
      BY <2>1 DEF IInv, ChainInv
    <3>2. journal # <<>> => journal[1].seq \in Nat
      BY HeadTyped DEF IInv
    <3>3. QED
      BY <3>1, <3>2, <1>3 DEF IInv, TypeOK
  <2>3. QED
    BY <1>3, <1>4, <2>1, <2>2 DEF IInv, ChainInv
<1>7. ClaimInv' /\ HeadInv' /\ CursorInv'
  BY <1>2, <1>3, <1>4 DEF WriteCheckpoint, ClaimInv, HeadInv, CursorInv, IInv
<1>8. MemoryIsDurable'
  BY <1>4 DEF WriteCheckpoint, Goto, procs, IInv, MemoryIsDurable
<1>9. OpInv'
  BY <1>1, <1>2, <1>3, <1>4 DEF WriteCheckpoint, Goto, procs, OpInv, IInv, TypeOK
<1>10. QED
  BY <1>5, <1>6, <1>7, <1>8, <1>9 DEF IInv

\* Emptying the journal after the checkpoint changes neither head nor state.
LEMMA JournalEmptied ==
  ASSUME IInv, lock # NoOne, op.pc = "truncate", journal' = <<>>,
         UNCHANGED <<snapshot, checkpoint>>
  PROVE  HeadSeq' = HeadSeq /\ Latest' = Latest
<1>1. /\ op.target = snapshot /\ snapshot.seq = HeadSeq /\ checkpoint = HeadSeq
  BY DEF IInv, OpInv
<1>2. Latest = snapshot
  BY <1>1, LatestIsHead DEF IInv
<1>3. QED
  BY <1>1, <1>2 DEF HeadSeq, Latest, HasSuffix

LEMMA TruncateStep ==
  ASSUME IInv, NEW p \in Processes, Truncate(p)
  PROVE  IInv'
<1>1. lock # NoOne /\ op.pc = "truncate"
  BY StoreAssumption DEF Truncate, At
<1>2. HeadSeq' = HeadSeq /\ Latest' = Latest
  BY <1>1, JournalEmptied DEF Truncate
<1>3. TypeOK'
  <2>1. /\ lock' = lock /\ op' = [op EXCEPT !.pc = "done"]
    BY DEF Truncate, Goto
  <2>2. journal' \in Seq([seq : Nat, rev : Nat])
    BY EmptySeq DEF Truncate
  <2>3. QED
    BY <1>1, <2>1, <2>2, GotoTyped DEF IInv, TypeOK, Truncate, Goto, procs
<1>4. ClaimInv' /\ ChainInv' /\ HeadInv' /\ CursorInv'
  BY <1>2 DEF Truncate, IInv, ClaimInv, ChainInv, HeadInv, CursorInv, Goto, procs
<1>5. MemoryIsDurable'
  BY <1>2 DEF Truncate, Goto, procs, IInv, MemoryIsDurable
<1>6. OpInv'
  BY <1>1, <1>2 DEF Truncate, Goto, procs, OpInv, IInv, TypeOK
<1>7. QED
  BY <1>3, <1>4, <1>5, <1>6 DEF IInv

LEMMA IdleTyped ==
  Idle \in [kind : Kinds, pc : Writes \cup {"idle", "done", "failed"},
           target : [rev : Nat \cup {-1}, seq : Nat]]
BY DEF Idle, Kinds

LEMMA FinishStep ==
  ASSUME IInv, NEW p \in Processes, Finish(p)
  PROVE  IInv'
<1>1. lock = p /\ lock # NoOne /\ op.pc = "done"
  BY StoreAssumption DEF Finish, At
<1>2. HeadSeq' = HeadSeq /\ Latest' = Latest /\ LastSeq' = LastSeq
  BY SameFiles DEF Finish, disk
<1>3. op.target = Latest /\ op.target \in [rev : Nat \cup {-1}, seq : Nat] /\ snapshot.rev >= 0
  BY <1>1, LatestIsHead DEF IInv, OpInv, TypeOK
<1>4. TypeOK'
  BY <1>3, IdleTyped DEF IInv, TypeOK, Finish, Release, disk
<1>5. ClaimInv' /\ ChainInv' /\ HeadInv' /\ CursorInv'
  BY <1>2, <1>3 DEF Finish, disk, IInv, ClaimInv, ChainInv, HeadInv, CursorInv, TypeOK
<1>6. MemoryIsDurable'
  BY <1>2, <1>3 DEF Finish, IInv, TypeOK, MemoryIsDurable
<1>7. OpInv'
  BY DEF Finish, Release, OpInv
<1>8. QED
  BY <1>4, <1>5, <1>6, <1>7 DEF IInv

LEMMA AbandonStep ==
  ASSUME IInv, NEW p \in Processes, Abandon(p)
  PROVE  IInv'
<1>1. HeadSeq' = HeadSeq /\ Latest' = Latest /\ LastSeq' = LastSeq
  BY SameFiles DEF Abandon, disk
<1>2. TypeOK'
  BY IdleTyped DEF IInv, TypeOK, Abandon, Release, disk, procs
<1>3. ClaimInv' /\ ChainInv' /\ HeadInv' /\ CursorInv' /\ MemoryIsDurable'
  BY <1>1 DEF Abandon, Release, disk, procs, IInv, ClaimInv, ChainInv, HeadInv, CursorInv,
    MemoryIsDurable
<1>4. OpInv'
  BY DEF Abandon, Release, OpInv
<1>5. QED
  BY <1>2, <1>3, <1>4 DEF IInv

-----------------------------------------------------------------------------
(* Events outside the outbox, failing writes and crashes. *)

LEMMA LoseBareLineTyped ==
  ASSUME log \in Seq(Nat), LoseBareLine
  PROVE  log' \in Seq(Nat)
<1>1. Len(log) \in Nat /\ \A i \in 1..(Len(log) - 1) : log[i] \in Nat
  <2>1. Len(log) \in Nat /\ \A i \in 1..Len(log) : log[i] \in Nat
    OBVIOUS
  <2>2. QED
    BY <2>1
<1>2. SubSeq(log, 1, Len(log) - 1) \in Seq(Nat)
  <2>1. Len(log) - 1 \in Int
    BY <1>1
  <2>2. QED
    BY <1>1, <2>1, SubSeqProperties
<1>3. QED
  BY <1>2 DEF LoseBareLine

\* What only touches the events file keeps the invariant.
LEMMA EventsStep ==
  ASSUME IInv,
         UNCHANGED <<claimed, journal, torn, snapshot, checkpoint, cursor, lock, op, procs>>,
         log' \in Seq(Nat), tail' \in Tails, faults' \in Nat, plain' \in Nat
  PROVE  IInv'
<1>1. HeadSeq' = HeadSeq /\ Latest' = Latest /\ LastSeq' = LastSeq
  BY SameFiles
<1>2. TypeOK'
  BY DEF IInv, TypeOK, procs
<1>3. QED
  BY <1>1, <1>2 DEF IInv, ClaimInv, ChainInv, HeadInv, CursorInv, MemoryIsDurable,
    OpInv, HolderOwns, procs

LEMMA PlainEventStep ==
  ASSUME IInv, NEW p \in Processes, PlainEvent(p)
  PROVE  IInv'
<1>1. log' \in Seq(Nat) /\ tail' \in Tails
  BY LoseBareLineTyped DEF PlainEvent, IInv, TypeOK, Tails
<1>2. QED
  BY <1>1, EventsStep DEF PlainEvent, IInv, TypeOK

LEMMA TearPlainStep ==
  ASSUME IInv, NEW p \in Processes, TearPlain(p)
  PROVE  IInv'
<1>1. log' \in Seq(Nat) /\ tail' \in Tails
  BY LoseBareLineTyped, StoreAssumption DEF TearPlain, IInv, TypeOK, Tails
<1>2. QED
  BY <1>1, EventsStep DEF TearPlain, Fault, IInv, TypeOK

LEMMA FailToGoesOn ==
  ASSUME FailTo
  PROVE  \E pc \in {"done", "failed"} :
           /\ op' = [op EXCEPT !.pc = pc]
           /\ pc = "done" => op.kind = "commit" /\ op.pc \in {"event", "cursor"}
BY DEF FailTo

LEMMA IoErrorStep ==
  ASSUME IInv, NEW p \in Processes, IoError(p)
  PROVE  IInv'
<1>1. lock # NoOne /\ lock' = lock /\ procs' = procs
  BY StoreAssumption DEF IoError
<1>2. PICK pc \in {"done", "failed"} :
        /\ op' = [op EXCEPT !.pc = pc]
        /\ pc = "done" => op.kind = "commit" /\ op.pc \in {"event", "cursor"}
  BY FailToGoesOn DEF IoError
<1>3. /\ op' \in [kind : Kinds, pc : Writes \cup {"idle", "done", "failed"},
                  target : [rev : Nat \cup {-1}, seq : Nat]]
      /\ lock' = NoOne <=> op' = Idle
      /\ op'.kind = op.kind /\ op'.pc = pc /\ op'.target = op.target
  BY <1>1, <1>2, GotoTyped DEF IInv
<1>4. faults' \in Nat
  BY DEF IoError, Fault, IInv, TypeOK
<1>5. CASE UNCHANGED <<journal, snapshot, cursor>>
  <2>1. HeadSeq' = HeadSeq /\ Latest' = Latest
    BY <1>5, SameFiles DEF IoError
  <2>2. OpInv'
    BY <1>1, <1>2, <1>3, <1>5, <2>1 DEF OpInv, IInv
  <2>3. QED
    BY <1>1, <1>2, <1>4, <1>5, <2>2, HolderStep DEF IoError, IInv, TypeOK, CursorInv
<1>6. CASE op.pc = "cursor" /\ cursor' = NextEffect /\ UNCHANGED <<journal, snapshot>>
  <2>1. HeadSeq' = HeadSeq /\ Latest' = Latest /\ HeadSeq \in Nat
    BY <1>6, SameFiles, HeadTyped DEF IoError, IInv
  <2>2. cursor < HeadSeq /\ NextEffect = cursor + 1
    BY <1>1, <1>6, NextEffectFollows DEF IInv, OpInv
  <2>3. cursor' \in Nat /\ checkpoint <= cursor' /\ cursor' <= HeadSeq
    BY <1>6, <2>1, <2>2 DEF IInv, TypeOK, CursorInv
  <2>4. OpInv'
    BY <1>1, <1>2, <1>3, <1>6, <2>1 DEF OpInv, IInv
  <2>5. QED
    BY <1>1, <1>2, <1>4, <1>6, <2>3, <2>4, HolderStep DEF IoError, IInv, TypeOK
<1>7. CASE op.pc = "snapshot" /\ snapshot' = op.target /\ UNCHANGED <<journal, cursor>>
  <2>1. /\ HeadSeq' = HeadSeq /\ LastSeq' = LastSeq /\ Latest' = op.target
        /\ op.target.seq = HeadSeq /\ op.target.rev >= Latest.rev
        /\ op.target.rev >= 0 /\ op.target \in [rev : Nat \cup {-1}, seq : Nat]
        /\ claimed
    BY <1>1, <1>7, SnapshotWritten DEF IoError
  <2>2. HeadSeq \in Nat /\ Latest.rev \in Nat \cup {-1}
    BY HeadTyped DEF IInv
  <2>3. TypeOK'
    BY <1>1, <1>3, <1>4, <1>7, <2>1 DEF IInv, TypeOK, IoError, procs
  <2>4. ClaimInv' /\ ChainInv' /\ HeadInv' /\ CursorInv'
    BY <1>7, <2>1, <2>2 DEF IoError, IInv, TypeOK, ClaimInv, ChainInv, HeadInv, CursorInv
  <2>5. MemoryIsDurable'
    <3>1. Latest.rev \in Int /\ op.target.rev \in Int /\ Latest.rev <= op.target.rev
      BY <2>1, <2>2
    <3>2. QED
      BY <1>1, <2>1, <3>1, MemoryKept DEF IInv, procs
  <2>6. OpInv'
    BY <1>1, <1>2, <1>3, <1>7 DEF OpInv, IInv
  <2>7. QED
    BY <2>3, <2>4, <2>5, <2>6 DEF IInv
<1>8. CASE op.pc = "truncate" /\ journal' = <<>> /\ UNCHANGED <<snapshot, cursor>>
  <2>1. HeadSeq' = HeadSeq /\ Latest' = Latest
    BY <1>1, <1>8, JournalEmptied DEF IoError
  <2>2. TypeOK'
    <3>1. journal' \in Seq([seq : Nat, rev : Nat])
      BY <1>8, EmptySeq
    <3>2. QED
      BY <1>1, <1>3, <1>4, <1>8, <3>1 DEF IInv, TypeOK, IoError, procs
  <2>3. ClaimInv' /\ ChainInv' /\ HeadInv' /\ CursorInv'
    BY <1>1, <1>8, <2>1 DEF IoError, IInv, ClaimInv, ChainInv, HeadInv, CursorInv, procs
  <2>4. MemoryIsDurable'
    BY <1>1, <2>1 DEF IInv, MemoryIsDurable, procs
  <2>5. OpInv'
    BY <1>1, <1>2, <1>3, <1>8 DEF OpInv, IInv
  <2>6. QED
    BY <2>2, <2>3, <2>4, <2>5 DEF IInv
<1>9. QED
  BY <1>5, <1>6, <1>7, <1>8 DEF IoError

LEMMA TearRecordStep ==
  ASSUME IInv, NEW p \in Processes, TearRecord(p)
  PROVE  IInv'
<1>1. lock # NoOne /\ lock' = lock /\ procs' = procs /\ op.pc = "append"
  BY StoreAssumption DEF TearRecord, At
<1>2. op' = [op EXCEPT !.pc = "failed"]
  BY <1>1 DEF TearRecord, FailTo
<1>3. op'.pc = "failed" /\ op'.kind = op.kind
  BY <1>1, <1>2, GotoTyped DEF IInv
<1>4. OpInv'
  BY <1>1, <1>3 DEF OpInv, IInv
<1>5. /\ UNCHANGED <<claimed, journal, snapshot, checkpoint, plain>>
      /\ torn' \in BOOLEAN /\ log' \in Seq(Nat) /\ tail' \in Tails /\ faults' \in Nat
      /\ cursor' \in Nat /\ checkpoint <= cursor' /\ cursor' <= HeadSeq
  BY DEF TearRecord, Fault, IInv, TypeOK, CursorInv
<1>6. QED
  BY <1>1, <1>2, <1>4, <1>5, HolderStep

LEMMA TearEventStep ==
  ASSUME IInv, NEW p \in Processes, TearEvent(p)
  PROVE  IInv'
<1>1. lock # NoOne /\ lock' = lock /\ procs' = procs /\ op.pc = "event"
  BY StoreAssumption DEF TearEvent, At
<1>2. PICK pc \in {"done", "failed"} :
        /\ op' = [op EXCEPT !.pc = pc]
        /\ pc = "done" => op.kind = "commit" /\ op.pc \in {"event", "cursor"}
  BY FailToGoesOn DEF TearEvent
<1>3. op'.kind = op.kind /\ op'.pc = pc /\ op'.target = op.target
  BY <1>1, <1>2, GotoTyped DEF IInv
<1>4. HeadSeq' = HeadSeq /\ Latest' = Latest
  BY SameFiles DEF TearEvent
<1>5. log' \in Seq(Nat) /\ tail' \in Tails
  <2>1. NextEffect \in Nat /\ log \in Seq(Nat)
    BY NextEffectFollows DEF TearEvent, IInv, TypeOK
  <2>2. /\ log' = log \/ log' = Append(log, NextEffect)
        /\ tail' \in {"torn", "bareEffect"}
    BY DEF TearEvent
  <2>3. QED
    BY <2>1, <2>2, AppendTyped DEF Tails
<1>6. OpInv'
  BY <1>1, <1>2, <1>3, <1>4 DEF TearEvent, OpInv, IInv
<1>7. /\ UNCHANGED <<claimed, journal, snapshot, checkpoint, plain>>
      /\ torn' \in BOOLEAN /\ faults' \in Nat
      /\ cursor' \in Nat /\ checkpoint <= cursor' /\ cursor' <= HeadSeq
  BY DEF TearEvent, Fault, IInv, TypeOK, CursorInv
<1>8. QED
  BY <1>1, <1>2, <1>5, <1>6, <1>7, HolderStep

LEMMA CrashStep ==
  ASSUME IInv, NEW p \in Processes, Crash(p)
  PROVE  IInv'
<1>1. HeadSeq' = HeadSeq /\ Latest' = Latest /\ LastSeq' = LastSeq
  BY SameFiles DEF Crash, disk
<1>2. TypeOK'
  BY IdleTyped DEF IInv, TypeOK, Crash, Fault, Release, disk
<1>3. Latest.rev \in Nat \cup {-1}
  BY HeadTyped DEF IInv
<1>4. ClaimInv' /\ ChainInv' /\ HeadInv' /\ CursorInv'
  BY <1>1 DEF Crash, Release, disk, IInv, ClaimInv, ChainInv, HeadInv, CursorInv, TypeOK
<1>5. MemoryIsDurable'
  BY <1>1, <1>3 DEF Crash, IInv, TypeOK, MemoryIsDurable
<1>6. OpInv'
  BY <1>1, StoreAssumption DEF Crash, Release, disk, OpInv, IInv, TypeOK, HolderOwns
<1>7. QED
  BY <1>2, <1>4, <1>5, <1>6 DEF IInv

-----------------------------------------------------------------------------
(* The theorems. *)

LEMMA NextIInv == IInv /\ [Next]_vars => IInv'
<1> SUFFICES ASSUME IInv, [Next]_vars PROVE IInv'
  OBVIOUS
<1>1. ASSUME NEW p \in Processes, Step(p) PROVE IInv'
  BY <1>1, AppendRecordStep, WriteSnapshotStep, ProjectEventStep, WriteCursorStep,
    OutboxDrainedStep, WriteCheckpointStep, TruncateStep, FinishStep, AbandonStep DEF Step
<1>2. ASSUME NEW p \in Processes, Begin(p) PROVE IInv'
  BY <1>2, CreateStep, BeginSaveStep, BeginCommitStep, BeginCompactStep, BeginLoadStep,
    LoadRefusedStep DEF Begin
<1>3. ASSUME NEW p \in Processes, Environment(p) PROVE IInv'
  BY <1>3, PlainEventStep, TearPlainStep, IoErrorStep, TearRecordStep, TearEventStep,
    CrashStep DEF Environment
<1>4. CASE UNCHANGED vars
  <2>1. /\ UNCHANGED <<claimed, journal, torn, snapshot, checkpoint, cursor, lock, op, procs>>
        /\ log' = log /\ tail' = tail /\ faults' = faults /\ plain' = plain
    BY <1>4 DEF vars, disk
  <2>2. QED
    BY <2>1, EventsStep DEF IInv, TypeOK
<1>5. QED
  BY <1>1, <1>2, <1>3, <1>4 DEF Next

LEMMA SpecIInv == Spec => []IInv
BY InitIInv, NextIInv, PTL DEF Spec

\* Every variable keeps its type, and the lock is free exactly when no
\* operation is under way (the finally block of withStateFileLock).
THEOREM TypeCorrect == Spec => []TypeOK
<1>1. IInv => TypeOK
  BY DEF IInv
<1>2. QED
  BY <1>1, SpecIInv, PTL

\* No process remembers a revision that a load would not return, whatever
\* crashed or failed (commitTransition, commitRunStateTransition).
THEOREM MemoryDurable == Spec => []MemoryIsDurable
<1>1. IInv => MemoryIsDurable
  BY DEF IInv
<1>2. QED
  BY <1>1, SpecIInv, PTL

\* The files are unreadable in two situations only, both named (readSuffix).
THEOREM UnreadableCauses == Spec => []UnreadableOnlyWhenCut
<1>1. IInv => UnreadableOnlyWhenCut
  <2> SUFFICES ASSUME IInv PROVE UnreadableOnlyWhenCut
    OBVIOUS
  <2>1. CASE journal = <<>>
    <3>1. Seqs = {} /\ HeadSeq = checkpoint /\ DOMAIN journal = {}
      BY <2>1 DEF Seqs, HeadSeq
    <3>2. snapshot.seq = checkpoint
      BY <3>1 DEF IInv, HeadInv, TypeOK
    <3>3. QED
      BY <2>1, <3>1, <3>2 DEF UnreadableOnlyWhenCut, HalfCompacted, Readable, JournalReads
  <2>2. CASE journal # <<>>
    <3>1. Seqs = journal[1].seq .. LastSeq /\ HeadSeq = LastSeq
      BY <2>2, SeqsInterval DEF IInv, HeadSeq
    <3>2. /\ journal[1].seq \in Nat /\ LastSeq \in Nat /\ 1 \in DOMAIN journal
          /\ checkpoint \in Nat /\ snapshot.seq \in Nat /\ DOMAIN journal \subseteq Int
      BY <2>2, HeadTyped DEF IInv, TypeOK, LastSeq
    <3>3. /\ 1 <= journal[1].seq /\ journal[1].seq <= checkpoint + 1
          /\ checkpoint <= LastSeq /\ checkpoint <= snapshot.seq /\ snapshot.seq <= LastSeq
          /\ \A i \in DOMAIN journal : journal[i].seq = journal[1].seq + (i - 1)
      BY <2>2, <3>1 DEF IInv, ChainInv, HeadInv
    <3>4. snapshot.seq \in Seqs \cup {checkpoint}
      BY <3>1, <3>2, <3>3
    <3>5. CASE HalfCompacted
      <4>1. journal[1].seq # 1 /\ journal[1].seq # checkpoint + 1
        BY <3>2, <3>5 DEF HalfCompacted
      <4>2. ~JournalReads
        BY <2>2, <3>2, <4>1 DEF JournalReads
      <4>3. QED
        BY <3>5, <4>2 DEF UnreadableOnlyWhenCut, Readable
    <3>6. CASE ~HalfCompacted
      <4>1. journal[1].seq = 1 \/ journal[1].seq = checkpoint + 1
        BY <2>2, <3>2, <3>3, <3>6 DEF HalfCompacted
      <4>2. journal[1].seq <= checkpoint => checkpoint \in Seqs
        BY <3>1, <3>2, <3>3
      <4>3. \A i \in DOMAIN journal :
              journal[i].seq = (IF journal # <<>> /\ journal[1].seq = 1 THEN 0 ELSE checkpoint) + i
        BY <2>2, <3>2, <3>3, <4>1
      <4>4. JournalReads <=> ~torn
        BY <4>2, <4>3 DEF JournalReads
      <4>5. QED
        BY <3>4, <3>6, <4>4 DEF UnreadableOnlyWhenCut, Readable, IInv, TypeOK
    <3>7. QED
      BY <3>5, <3>6
  <2>3. QED
    BY <2>1, <2>2
<1>2. QED
  BY <1>1, SpecIInv, PTL

\* Nothing that is appended to the events, whole or cut, touches the authoritative state.
LEMMA LatestSteps ==
  ASSUME IInv, [Next]_vars
  PROVE  \/ Latest'.rev = Latest.rev
         \/ lock # NoOne /\ HolderOwns /\ Latest'.rev = Latest.rev + 1
<1>1. ASSUME NEW p \in Processes, AppendRecord(p)
      PROVE  lock # NoOne /\ HolderOwns /\ Latest'.rev = Latest.rev + 1
  <2>1. Latest' = op.target /\ op.target = [rev |-> Latest.rev + 1, seq |-> HeadSeq + 1]
    BY <1>1, RecordAppended
  <2>2. QED
    BY <1>1, <2>1, RecordAppended
<1>2. ASSUME NEW p \in Processes, lock = p, op.pc = "snapshot", snapshot' = op.target,
             UNCHANGED <<journal, checkpoint>>
      PROVE  \/ Latest'.rev = Latest.rev
             \/ lock # NoOne /\ HolderOwns /\ Latest'.rev = Latest.rev + 1
  <2>1. lock # NoOne /\ Latest' = op.target
    BY <1>2, SnapshotWritten, StoreAssumption
  <2>2. IF op.kind = "save" THEN HolderOwns /\ op.target.rev = Latest.rev + 1
        ELSE op.target = Latest
    BY <1>2, <2>1 DEF IInv, OpInv
  <2>3. QED
    BY <2>1, <2>2
<1>3. ASSUME NEW p \in Processes, WriteCheckpoint(p)
      PROVE  Latest' = Latest
  <2>1. lock # NoOne /\ op.pc = "checkpoint"
    BY <1>3, StoreAssumption DEF WriteCheckpoint, At
  <2>2. op.target = snapshot /\ snapshot.seq = HeadSeq
    BY <2>1 DEF IInv, OpInv
  <2>3. QED
    BY <1>3, <2>2 DEF WriteCheckpoint, HeadSeq, Latest, LastSeq, HasSuffix
<1>4. ASSUME NEW p \in Processes, lock = p, op.pc = "truncate", journal' = <<>>,
             UNCHANGED <<snapshot, checkpoint>>
      PROVE  Latest' = Latest
  BY <1>4, JournalEmptied, StoreAssumption
<1>5. CASE UNCHANGED <<journal, snapshot, checkpoint>>
  BY <1>5, SameFiles
<1>6. ASSUME NEW p \in Processes, Step(p)
      PROVE  \/ Latest'.rev = Latest.rev
             \/ lock # NoOne /\ HolderOwns /\ Latest'.rev = Latest.rev + 1
  BY <1>1, <1>2, <1>3, <1>4, <1>5, <1>6 DEF Step, WriteSnapshot, ProjectEvent, WriteCursor,
    OutboxDrained, Truncate, Finish, Abandon, At, disk
<1>7. ASSUME NEW p \in Processes, Begin(p)
      PROVE  Latest' = Latest
  BY <1>7, SameFiles DEF Begin, Create, BeginSave, BeginCommit, BeginCompact, BeginLoad,
    LoadRefused, Start, disk
<1>8. ASSUME NEW p \in Processes, Environment(p)
      PROVE  \/ Latest'.rev = Latest.rev
             \/ lock # NoOne /\ HolderOwns /\ Latest'.rev = Latest.rev + 1
  BY <1>2, <1>4, <1>5, <1>8 DEF Environment, PlainEvent, TearPlain, IoError, TearRecord,
    TearEvent, Crash, disk
<1>9. UNCHANGED vars => Latest' = Latest
  BY SameFiles DEF vars, disk
<1>10. QED
  BY <1>6, <1>7, <1>8, <1>9 DEF Next

\* The authoritative state advances by one, on the state its writer holds.
THEOREM NoUpdateLost == Spec => NoLostUpdate
<1>1. IInv /\ [Next]_vars =>
        [Latest.rev' # Latest.rev =>
           /\ lock # NoOne /\ mem[lock] = Latest.rev /\ lastRev[lock] = Latest.rev
           /\ Latest.rev' = Latest.rev + 1]_vars
  BY LatestSteps DEF HolderOwns
<1>2. QED
  BY <1>1, SpecIInv, PTL DEF Spec, NoLostUpdate

-----------------------------------------------------------------------------
(* The outbox, and the abstract store.  An event that is readable although  *)
(* its newline is missing breaks it (the next append glues a line to it),   *)
(* so these theorems assume that a cut append leaves an unreadable line.    *)

NoBareTails == "bare" \notin CutTails

\* The events file holds the effects up to the cursor, and at most one more.
OutboxInv ==
  /\ \A i \in DOMAIN log : log[i] = i
  /\ cursor <= Len(log) /\ Len(log) <= cursor + 1 /\ Len(log) <= HeadSeq
  /\ tail # "bareEffect"
  /\ lock # NoOne /\ op.pc = "cursor" => Len(log) = cursor + 1

\* What a step does to the authoritative state, the events and the cursor.
Advances ==
  /\ lock # NoOne /\ HolderOwns
  /\ Latest'.rev = Latest.rev + 1 /\ HeadSeq' \in {HeadSeq, HeadSeq + 1}
  /\ log' = log /\ cursor' = cursor /\ op'.pc # "cursor"

Publishes ==
  /\ Latest'.rev = Latest.rev /\ HeadSeq' = HeadSeq
  /\ Len(log) = cursor /\ cursor < HeadSeq
  /\ log' = Append(log, Len(log) + 1) /\ cursor' = cursor

MovesCursor ==
  /\ Latest'.rev = Latest.rev /\ HeadSeq' = HeadSeq
  /\ Len(log) = cursor + 1 /\ log' = log /\ cursor' = cursor + 1 /\ op'.pc # "cursor"

KeepsAll ==
  /\ Latest'.rev = Latest.rev /\ HeadSeq' = HeadSeq /\ log' = log /\ cursor' = cursor
  /\ lock' # NoOne /\ op'.pc = "cursor" => Len(log) = cursor + 1

LEMMA PublishedPrefix ==
  ASSUME TypeOK, ChainInv, CursorInv, OutboxInv, Pending # {}
  PROVE  /\ NextEffect = cursor + 1
         /\ NextEffect \in Published <=> Len(log) = cursor + 1
<1>1. NextEffect = cursor + 1
  BY NextEffectFollows
<1>2. Len(log) \in Nat /\ DOMAIN log = 1..Len(log) /\ cursor \in Nat
  BY DEF TypeOK
<1>3. Published = 1..Len(log)
  BY <1>2 DEF OutboxInv, Published
<1>4. cursor <= Len(log) /\ Len(log) <= cursor + 1
  BY DEF OutboxInv
<1>5. cursor + 1 \in 1..Len(log) <=> Len(log) = cursor + 1
  <2>1. \A m, n \in Nat : n <= m /\ m <= n + 1 => (n + 1 \in 1..m <=> m = n + 1)
    OBVIOUS
  <2>2. QED
    BY <1>2, <1>4, <2>1
<1>6. QED
  BY <1>1, <1>3, <1>5

LEMMA StepKinds ==
  ASSUME NoBareTails, IInv, OutboxInv, [Next]_vars
  PROVE  Advances \/ Publishes \/ MovesCursor \/ KeepsAll
<1>1. Len(log) \in Nat /\ cursor \in Nat /\ checkpoint \in Nat
  BY DEF IInv, TypeOK
<1>2. ASSUME NEW p \in Processes, Step(p)
      PROVE  Advances \/ Publishes \/ MovesCursor \/ KeepsAll
  <2>1. CASE AppendRecord(p)
    <3>1. /\ lock # NoOne /\ HolderOwns /\ HeadSeq' = HeadSeq + 1 /\ Latest' = op.target
          /\ op.target = [rev |-> Latest.rev + 1, seq |-> HeadSeq + 1]
      BY <2>1, RecordAppended
    <3>2. op'.pc = "snapshot"
      BY <2>1 DEF AppendRecord, Goto, IInv, TypeOK
    <3>3. QED
      BY <2>1, <3>1, <3>2 DEF AppendRecord, Advances
  <2>2. CASE WriteSnapshot(p)
    <3>1. lock # NoOne /\ op.pc = "snapshot"
      BY <2>2, StoreAssumption DEF WriteSnapshot, At
    <3>2. HeadSeq' = HeadSeq /\ Latest' = op.target
      BY <2>2, <3>1, SnapshotWritten DEF WriteSnapshot
    <3>3. op'.pc # "cursor"
      BY <2>2 DEF WriteSnapshot, Goto, IInv, TypeOK
    <3>4. IF op.kind = "save" THEN HolderOwns /\ op.target.rev = Latest.rev + 1
          ELSE op.target = Latest
      BY <3>1 DEF IInv, OpInv
    <3>5. QED
      BY <2>2, <3>1, <3>2, <3>3, <3>4 DEF WriteSnapshot, Advances, KeepsAll
  <2>3. CASE ProjectEvent(p)
    <3>1. HeadSeq' = HeadSeq /\ Latest' = Latest
      BY <2>3, SameFiles DEF ProjectEvent
    <3>2. cursor < HeadSeq /\ NextEffect = cursor + 1
      BY <2>3, NextEffectFollows DEF ProjectEvent, IInv
    <3>3. NextEffect \in Published <=> Len(log) = cursor + 1
      BY <2>3, PublishedPrefix DEF ProjectEvent, IInv
    <3>4. CASE NextEffect \in Published
      BY <2>3, <3>1, <3>3, <3>4 DEF ProjectEvent, KeepsAll
    <3>5. CASE NextEffect \notin Published
      <4>1. Len(log) = cursor
        BY <1>1, <3>3, <3>5 DEF OutboxInv
      <4>2. QED
        BY <2>3, <3>1, <3>2, <3>5, <4>1 DEF ProjectEvent, Publishes
    <3>6. QED
      BY <3>4, <3>5
  <2>4. CASE WriteCursor(p)
    <3>1. lock # NoOne /\ op.pc = "cursor"
      BY <2>4, StoreAssumption DEF WriteCursor, At
    <3>2. cursor < HeadSeq /\ NextEffect = cursor + 1
      BY <3>1, NextEffectFollows DEF IInv, OpInv
    <3>3. HeadSeq' = HeadSeq /\ Latest' = Latest /\ op'.pc # "cursor"
      BY <2>4, SameFiles DEF WriteCursor, Goto, IInv, TypeOK
    <3>4. QED
      BY <2>4, <3>1, <3>2, <3>3 DEF WriteCursor, MovesCursor, OutboxInv
  <2>5. CASE OutboxDrained(p)
    <3>1. HeadSeq' = HeadSeq /\ Latest' = Latest /\ op'.pc # "cursor"
      BY <2>5, SameFiles DEF OutboxDrained, disk, Goto, IInv, TypeOK
    <3>2. QED
      BY <2>5, <3>1 DEF OutboxDrained, disk, KeepsAll
  <2>6. CASE WriteCheckpoint(p)
    <3>1. lock # NoOne /\ op.pc = "checkpoint"
      BY <2>6, StoreAssumption DEF WriteCheckpoint, At
    <3>2. op.target = snapshot /\ snapshot.seq = HeadSeq
      BY <3>1 DEF IInv, OpInv
    <3>3. HeadSeq' = HeadSeq /\ Latest' = Latest
      BY <2>6, <3>2 DEF WriteCheckpoint, HeadSeq, Latest, LastSeq, HasSuffix
    <3>4. op'.pc # "cursor"
      BY <2>6 DEF WriteCheckpoint, Goto, IInv, TypeOK
    <3>5. QED
      BY <2>6, <3>3, <3>4 DEF WriteCheckpoint, KeepsAll
  <2>7. CASE Truncate(p)
    <3>1. lock # NoOne /\ op.pc = "truncate"
      BY <2>7, StoreAssumption DEF Truncate, At
    <3>2. HeadSeq' = HeadSeq /\ Latest' = Latest
      BY <2>7, <3>1, JournalEmptied DEF Truncate
    <3>3. op'.pc # "cursor"
      BY <2>7 DEF Truncate, Goto, IInv, TypeOK
    <3>4. QED
      BY <2>7, <3>2, <3>3 DEF Truncate, KeepsAll
  <2>8. CASE Finish(p) \/ Abandon(p)
    <3>1. HeadSeq' = HeadSeq /\ Latest' = Latest
      BY <2>8, SameFiles DEF Finish, Abandon, disk
    <3>2. QED
      BY <2>8, <3>1 DEF Finish, Abandon, Release, disk, KeepsAll
  <2>9. QED
    BY <1>2, <2>1, <2>2, <2>3, <2>4, <2>5, <2>6, <2>7, <2>8 DEF Step
<1>3. ASSUME NEW p \in Processes, Begin(p)
      PROVE  KeepsAll
  <2>1. UNCHANGED <<journal, snapshot, checkpoint, log, cursor>>
    BY <1>3 DEF Begin, Create, BeginSave, BeginCommit, BeginCompact, BeginLoad,
      LoadRefused, Start, disk
  <2>2. (lock' = lock /\ op' = op) \/ op'.pc # "cursor"
    BY <1>3 DEF Begin, Create, BeginSave, BeginCommit, BeginCompact, BeginLoad,
      LoadRefused, Start
  <2>3. QED
    BY <2>1, <2>2, SameFiles DEF KeepsAll, OutboxInv
<1>4. ASSUME NEW p \in Processes, Environment(p)
      PROVE  Advances \/ Publishes \/ MovesCursor \/ KeepsAll
  <2>1. CASE PlainEvent(p) \/ TearPlain(p)
    <3>1. UNCHANGED <<journal, snapshot, checkpoint, log, cursor, lock, op>>
      BY <2>1 DEF PlainEvent, TearPlain, LoseBareLine, OutboxInv
    <3>2. QED
      BY <3>1, SameFiles DEF KeepsAll, OutboxInv
  <2>2. CASE TearRecord(p) \/ TearEvent(p)
    <3>1. UNCHANGED <<journal, snapshot, checkpoint, log, cursor>>
      BY <2>2, StoreAssumption DEF TearRecord, TearEvent, NoBareTails
    <3>2. FailTo
      BY <2>2 DEF TearRecord, TearEvent
    <3>3. op'.pc # "cursor"
      BY <3>2 DEF FailTo, IInv, TypeOK
    <3>4. QED
      BY <3>1, <3>3, SameFiles DEF KeepsAll
  <2>3. CASE Crash(p)
    <3>1. UNCHANGED <<journal, snapshot, checkpoint, log, cursor>>
      BY <2>3 DEF Crash, disk
    <3>2. lock' = NoOne \/ (lock' = lock /\ op' = op)
      BY <2>3 DEF Crash, Release
    <3>3. QED
      BY <3>1, <3>2, SameFiles DEF KeepsAll, OutboxInv
  <2>4. CASE IoError(p)
    <3>1. lock # NoOne /\ log' = log /\ checkpoint' = checkpoint
      BY <2>4, StoreAssumption DEF IoError
    <3>2. op'.pc # "cursor"
      BY <2>4 DEF IoError, FailTo, IInv, TypeOK
    <3>3. CASE UNCHANGED <<journal, snapshot, cursor>>
      BY <3>1, <3>2, <3>3, SameFiles DEF KeepsAll
    <3>4. CASE op.pc = "cursor" /\ cursor' = NextEffect /\ UNCHANGED <<journal, snapshot>>
      <4>1. cursor < HeadSeq /\ NextEffect = cursor + 1
        BY <3>1, <3>4, NextEffectFollows DEF IInv, OpInv
      <4>2. QED
        BY <3>1, <3>2, <3>4, <4>1, SameFiles DEF MovesCursor, OutboxInv
    <3>5. CASE op.pc = "snapshot" /\ snapshot' = op.target /\ UNCHANGED <<journal, cursor>>
      <4>1. HeadSeq' = HeadSeq /\ Latest' = op.target
        BY <3>1, <3>5, SnapshotWritten
      <4>2. IF op.kind = "save" THEN HolderOwns /\ op.target.rev = Latest.rev + 1
            ELSE op.target = Latest
        BY <3>1, <3>5 DEF IInv, OpInv
      <4>3. QED
        BY <3>1, <3>2, <3>5, <4>1, <4>2 DEF Advances, KeepsAll
    <3>6. CASE op.pc = "truncate" /\ journal' = <<>> /\ UNCHANGED <<snapshot, cursor>>
      <4>1. HeadSeq' = HeadSeq /\ Latest' = Latest
        BY <3>1, <3>6, JournalEmptied
      <4>2. QED
        BY <3>1, <3>2, <3>6, <4>1 DEF KeepsAll
    <3>7. QED
      BY <2>4, <3>3, <3>4, <3>5, <3>6 DEF IoError
  <2>5. QED
    BY <1>4, <2>1, <2>2, <2>3, <2>4 DEF Environment
<1>5. CASE UNCHANGED vars
  <2>1. UNCHANGED <<journal, snapshot, checkpoint, log, cursor, lock, op>>
    BY <1>5 DEF vars, disk
  <2>2. QED
    BY <2>1, SameFiles DEF KeepsAll, OutboxInv
<1>6. QED
  BY <1>2, <1>3, <1>4, <1>5 DEF Next

LEMMA OutboxStep ==
  ASSUME NoBareTails, IInv, OutboxInv, [Next]_vars
  PROVE  OutboxInv'
<1>1. /\ Len(log) \in Nat /\ cursor \in Nat /\ HeadSeq \in Nat /\ log \in Seq(Nat)
      /\ DOMAIN log = 1..Len(log)
  BY HeadTyped DEF IInv, TypeOK
<1>2. tail' # "bareEffect"
  <2>1. ASSUME NEW p \in Processes, Step(p) \/ Begin(p) PROVE tail' \in {tail, "clean"}
    BY <2>1 DEF Step, AppendRecord, WriteSnapshot, ProjectEvent, WriteCursor, OutboxDrained,
      WriteCheckpoint, Truncate, Finish, Abandon, Begin, Create, BeginSave, BeginCommit,
      BeginCompact, BeginLoad, LoadRefused, Start, disk
  <2>2. ASSUME NEW p \in Processes, Environment(p)
        PROVE  tail' \in {tail, "clean", "torn", "barePlain"}
    <3>1. CASE TearEvent(p)
      BY <3>1, StoreAssumption DEF TearEvent, NoBareTails
    <3>2. CASE ~TearEvent(p)
      BY <2>2, <3>2 DEF Environment, PlainEvent, TearPlain, IoError, TearRecord, Crash, disk
    <3>3. QED
      BY <3>1, <3>2
  <2>3. UNCHANGED vars => tail' = tail
    BY DEF vars, disk
  <2>4. QED
    BY <2>1, <2>2, <2>3 DEF Next, OutboxInv
<1>3. CASE Advances \/ MovesCursor \/ KeepsAll
  <2>1. log' = log /\ HeadSeq' \in {HeadSeq, HeadSeq + 1}
    BY <1>3 DEF Advances, MovesCursor, KeepsAll
  <2>2. cursor' = cursor \/ (Len(log) = cursor + 1 /\ cursor' = cursor + 1)
    BY <1>3 DEF Advances, MovesCursor, KeepsAll
  <2>3. cursor <= Len(log) /\ Len(log) <= cursor + 1 /\ Len(log) <= HeadSeq
    BY DEF OutboxInv
  <2>4. Len(log) <= HeadSeq'
    BY <1>1, <2>1, <2>3
  <2>5. cursor' <= Len(log) /\ Len(log) <= cursor' + 1
    <3>1. \A m, n \in Nat : n <= m /\ m <= n + 1 /\ (m = n + 1) => n + 1 <= m /\ m <= (n + 1) + 1
      OBVIOUS
    <3>2. CASE cursor' = cursor
      BY <2>3, <3>2
    <3>3. CASE Len(log) = cursor + 1 /\ cursor' = cursor + 1
      BY <1>1, <2>3, <3>1, <3>3
    <3>4. QED
      BY <2>2, <3>2, <3>3
  <2>6. Len(log') = Len(log) /\ DOMAIN log' = DOMAIN log
    BY <2>1
  <2>7. lock' # NoOne /\ op'.pc = "cursor" => Len(log') = cursor' + 1
    BY <1>3 DEF Advances, MovesCursor, KeepsAll
  <2>8. \A i \in DOMAIN log' : log'[i] = i
    BY <2>1 DEF OutboxInv
  <2>9. QED
    BY <1>2, <2>7, <2>4, <2>5, <2>6, <2>8 DEF OutboxInv
<1>4. CASE Publishes
  <2>1. /\ Len(log') = Len(log) + 1 /\ DOMAIN log' = 1..(Len(log) + 1)
        /\ log'[Len(log) + 1] = Len(log) + 1
        /\ \A i \in 1..Len(log) : log'[i] = log[i]
    BY <1>1, <1>4 DEF Publishes
  <2>2. \A i \in 1..Len(log) : log[i] = i
    BY <1>1 DEF OutboxInv
  <2>3. \A i \in 1..(Len(log) + 1) : i \in 1..Len(log) \/ i = Len(log) + 1
    BY <1>1
  <2>4. \A i \in DOMAIN log' : log'[i] = i
    BY <2>1, <2>2, <2>3
  <2>5. cursor' <= Len(log') /\ Len(log') <= cursor' + 1 /\ Len(log') <= HeadSeq'
    BY <1>1, <1>4, <2>1 DEF Publishes
  <2>6. Len(log') = cursor' + 1
    BY <1>1, <1>4, <2>1 DEF Publishes
  <2>7. QED
    BY <1>2, <2>4, <2>5, <2>6 DEF OutboxInv
<1>5. QED
  BY <1>3, <1>4, StepKinds

LEMMA SpecOutboxInv ==
  ASSUME NoBareTails
  PROVE  Spec => [](IInv /\ OutboxInv)
<1>1. Init => OutboxInv
  <2> SUFFICES ASSUME Init PROVE OutboxInv
    OBVIOUS
  <2>1. HeadSeq = 0 /\ Len(log) = 0 /\ DOMAIN log = {} /\ cursor = 0
    BY DEF Init, HeadSeq
  <2>2. QED
    BY <2>1 DEF Init, OutboxInv, Idle
<1>2. IInv /\ OutboxInv /\ [Next]_vars => (IInv /\ OutboxInv)'
  BY NextIInv, OutboxStep
<1>3. QED
  BY <1>1, <1>2, InitIInv, PTL DEF Spec

\* The event of every transition is published once, in commit order and only
\* after its transition is durable (projectOutbox).
THEOREM EffectsPublishedOnce ==
  ASSUME NoBareTails
  PROVE  Spec => []EffectsOnceInOrder
<1>1. OutboxInv => EffectsOnceInOrder
  BY DEF OutboxInv, EffectsOnceInOrder
<1>2. QED
  BY <1>1, SpecOutboxInv, PTL

\* A load or a compaction that resolves has published and recorded everything.
THEOREM LoadsSettle ==
  ASSUME NoBareTails
  PROVE  Spec => []LoadSettles
<1>1. IInv /\ OutboxInv => LoadSettles
  <2> SUFFICES ASSUME IInv, OutboxInv, op.kind \in {"load", "compact"}, op.pc = "done"
               PROVE  Len(log) = HeadSeq /\ snapshot.seq = HeadSeq /\ Pending = {}
    BY DEF LoadSettles
  <2>1. lock # NoOne
    BY DEF IInv, TypeOK, Idle
  <2>2. cursor = HeadSeq /\ snapshot.seq = HeadSeq
    BY <2>1 DEF IInv, OpInv
  <2>3. Len(log) \in Nat /\ HeadSeq \in Nat
    BY HeadTyped DEF IInv, TypeOK
  <2>4. QED
    BY <2>2, <2>3, NextEffectFollows DEF IInv, OutboxInv
<1>2. QED
  BY <1>1, SpecOutboxInv, PTL

\* Compaction drops only what the snapshot and the events file hold.
THEOREM NothingLostByCompaction ==
  ASSUME NoBareTails
  PROVE  Spec => CompactionLosesNothing
<1>1. ASSUME IInv, OutboxInv, [Next]_vars, Len(journal') < Len(journal)
      PROVE  snapshot.seq = HeadSeq /\ checkpoint = HeadSeq /\ Len(log) = HeadSeq
  <2>1. Len(journal) \in Nat
    BY HeadTyped DEF IInv
  <2>2. journal' # journal
    BY <1>1, <2>1
  <2>3. ~ \E p \in Processes : AppendRecord(p)
    BY <1>1, <2>1, RecordAppended
  <2>4. PICK p \in Processes : Truncate(p) \/ (IoError(p) /\ op.pc = "truncate")
    BY <1>1, <2>2, <2>3 DEF Next, vars, disk, Step, AppendRecord, WriteSnapshot, ProjectEvent,
      WriteCursor, OutboxDrained, WriteCheckpoint, Finish, Abandon, Begin, Create, BeginSave,
      BeginCommit, BeginCompact, BeginLoad, LoadRefused, Start, Environment, PlainEvent,
      TearPlain, IoError, TearRecord, TearEvent, Crash
  <2>5. lock # NoOne /\ op.pc = "truncate"
    BY <2>4, StoreAssumption DEF Truncate, At, IoError
  <2>6. snapshot.seq = HeadSeq /\ checkpoint = HeadSeq /\ cursor = HeadSeq
    BY <1>1, <2>5 DEF IInv, OpInv
  <2>7. Len(log) \in Nat /\ HeadSeq \in Nat
    BY <1>1, HeadTyped DEF IInv, TypeOK
  <2>8. QED
    BY <1>1, <2>6, <2>7 DEF OutboxInv
<1>2. IInv /\ OutboxInv /\ [Next]_vars =>
        [Len(journal') < Len(journal) =>
           snapshot.seq = HeadSeq /\ checkpoint = HeadSeq /\ Len(log) = HeadSeq]_vars
  BY <1>1
<1>3. QED
  BY <1>2, SpecOutboxInv, PTL DEF Spec, CompactionLosesNothing

\* The store implements the abstract run of DurableRun: every step commits,
\* saves, publishes the next event, or changes nothing a caller can see.
THEOREM StoreKeepsPromise ==
  ASSUME NoBareTails
  PROVE  Spec => KeepsPromise
<1>1. Init => Promise!Init
  BY DEF Init, Promise!Init, Latest, HeadSeq, HasSuffix
<1>2. IInv /\ OutboxInv /\ [Next]_vars => [Promise!Next]_(Promise!vars)
  <2> SUFFICES ASSUME IInv, OutboxInv, [Next]_vars
               PROVE  Promise!Next \/ UNCHANGED Promise!vars
    OBVIOUS
  <2>1. Advances => Promise!Save \/ Promise!Commit
    BY DEF Advances, Promise!Save, Promise!Commit
  <2>2. Publishes => Promise!Publish
    BY DEF Publishes, Promise!Publish
  <2>3. MovesCursor \/ KeepsAll => UNCHANGED Promise!vars
    BY DEF MovesCursor, KeepsAll, Promise!vars
  <2>4. QED
    BY <2>1, <2>2, <2>3, StepKinds DEF Promise!Next
<1>3. QED
  BY <1>1, <1>2, SpecOutboxInv, PTL DEF Spec, KeepsPromise, Promise!Spec
=============================================================================
