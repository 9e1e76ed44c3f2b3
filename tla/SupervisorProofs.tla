--------------------------- MODULE SupervisorProofs ---------------------------
(***************************************************************************)
(* Proofs about Supervisor for every set of calls, threads and shards and  *)
(* every limit.  Queues list exactly the calls that wait in them, counters *)
(* count exactly the calls that hold what they count, and after close()    *)
(* nobody waits.  The second part is about AppServer, the session of a     *)
(* shard, over the same lemmas on queues.                                  *)
(***************************************************************************)
EXTENDS Supervisor, SequenceTheorems, FiniteSetTheorems, FunctionTheorems,
        WellFoundedInduction, TLAPS

-----------------------------------------------------------------------------
(* Queues. *)

\* The queue holds the members of S, each once.
Lists(queue, S) ==
  /\ queue \in Seq(S)
  /\ \A i, j \in 1..Len(queue) : queue[i] = queue[j] => i = j
  /\ \A x \in S : \E i \in 1..Len(queue) : queue[i] = x

LEMMA ListsNobody ==
  ASSUME NEW S, NEW queue, Lists(queue, S)
  PROVE  queue = <<>> <=> S = {}
BY DEF Lists

LEMMA EmptyLists == Lists(<<>>, {})
BY DEF Lists

LEMMA ListsAppend ==
  ASSUME NEW S, NEW queue, Lists(queue, S), NEW c, c \notin S
  PROVE  Lists(Append(queue, c), S \cup {c})
<1> DEFINE q == Append(queue, c)
           T == S \cup {c}
<1>1. queue \in Seq(T) /\ \A i \in 1..Len(queue) : queue[i] \in S
  BY SeqMonotonic DEF Lists
<1>2. /\ q \in Seq(T) /\ Len(q) = Len(queue) + 1 /\ Len(queue) \in Nat
      /\ \A i \in 1..Len(queue) : q[i] = queue[i]
      /\ q[Len(queue) + 1] = c
  BY <1>1, AppendProperties
<1> HIDE DEF q
<1>3. ASSUME NEW i \in 1..Len(q), NEW j \in 1..Len(q), q[i] = q[j] PROVE i = j
  <2>1. CASE i \in 1..Len(queue) /\ j \in 1..Len(queue)
    <3>1. queue[i] = queue[j]
      BY <1>2, <1>3, <2>1
    <3> QED
      BY <2>1, <3>1 DEF Lists
  <2>2. CASE i = Len(queue) + 1 /\ j \in 1..Len(queue)
    BY <1>1, <1>2, <1>3, <2>2
  <2>3. CASE j = Len(queue) + 1 /\ i \in 1..Len(queue)
    BY <1>1, <1>2, <1>3, <2>3
  <2>4. CASE i = Len(queue) + 1 /\ j = Len(queue) + 1
    BY <2>4
  <2> QED
    BY <1>2, <2>1, <2>2, <2>3, <2>4
<1>4. \A x \in T : \E i \in 1..Len(q) : q[i] = x
  BY <1>2 DEF Lists
<1> QED
  BY <1>2, <1>3, <1>4 DEF Lists, q

LEMMA ListsTail ==
  ASSUME NEW S, NEW queue, Lists(queue, S), queue # <<>>
  PROVE  Head(queue) \in S /\ Lists(Tail(queue), S \ {Head(queue)})
<1> DEFINE q == Tail(queue)
           n == Len(queue)
           T == S \ {queue[1]}
<1>1. /\ queue \in Seq(S) /\ n \in Nat /\ n > 0 /\ Head(queue) = queue[1] /\ Head(queue) \in S
      /\ q \in Seq(S) /\ Len(q) = n - 1 /\ \A i \in 1..Len(q) : q[i] = queue[i + 1]
  BY HeadTailProperties, EmptySeq DEF Lists
<1>2. \A i \in 1..Len(q) : q[i] \in T
  BY <1>1 DEF Lists
<1> HIDE DEF q, n
<1>3. q \in Seq(T)
  BY <1>1, <1>2
<1>4. ASSUME NEW i \in 1..Len(q), NEW j \in 1..Len(q), q[i] = q[j] PROVE i = j
  <2>1. i + 1 \in 1..n /\ j + 1 \in 1..n /\ queue[i + 1] = queue[j + 1]
    BY <1>1, <1>4
  <2>2. i + 1 = j + 1
    BY <2>1 DEF Lists, n
  <2> QED
    BY <2>2
<1>5. \A x \in T : \E i \in 1..Len(q) : q[i] = x
  <2> SUFFICES ASSUME NEW x \in T PROVE \E i \in 1..Len(q) : q[i] = x
    OBVIOUS
  <2>1. PICK i \in 1..n : queue[i] = x
    BY DEF Lists, n
  <2>2. i # 1 /\ i - 1 \in 1..Len(q) /\ (i - 1) + 1 = i
    BY <1>1, <2>1
  <2>3. q[i - 1] = queue[(i - 1) + 1]
    BY <1>1, <2>2
  <2> QED
    BY <2>1, <2>2, <2>3
<1> QED
  <2>1. Lists(q, T)
    BY <1>3, <1>4, <1>5 DEF Lists
  <2>2. T = S \ {Head(queue)}
    BY <1>1
  <2> HIDE DEF T
  <2> QED
    BY <1>1, <2>1, <2>2 DEF q

LEMMA ListsWithout ==
  ASSUME NEW S, NEW queue, Lists(queue, S), NEW c \in S
  PROVE  Lists(Without(queue, c), S \ {c})
<1> DEFINE q == Without(queue, c)
           n == Len(queue)
           i == CHOOSE k \in DOMAIN queue : queue[k] = c
           T == S \ {c}
<1>1. n \in Nat /\ DOMAIN queue = 1..n /\ \A k \in 1..n : queue[k] \in S
  BY LenProperties DEF Lists
<1>2. i \in 1..n /\ queue[i] = c
  BY <1>1 DEF Lists
<1>3. q = [j \in 1..(n - 1) |-> IF j < i THEN queue[j] ELSE queue[j + 1]]
  BY DEF Without
<1> HIDE DEF i, q
<1>4. \A k \in 1..n : queue[k] = c => k = i
  BY <1>2 DEF Lists
<1> HIDE DEF n
<1>5. \A j \in 1..(n - 1) : q[j] \in T
  BY <1>1, <1>2, <1>3, <1>4
<1>6. q \in Seq(T) /\ Len(q) = n - 1
  <2>1. n - 1 \in Nat
    BY <1>1, <1>2
  <2>2. q \in [1..(n - 1) -> T]
    BY <1>3, <1>5
  <2> QED
    BY <2>1, <2>2
<1> DEFINE old(j) == IF j < i THEN j ELSE j + 1
<1>7. ASSUME NEW j \in 1..Len(q), NEW k \in 1..Len(q), q[j] = q[k] PROVE j = k
  <2>1. j \in 1..(n - 1) /\ k \in 1..(n - 1)
    BY <1>6
  <2>2. old(j) \in 1..n /\ old(k) \in 1..n
    BY <1>1, <1>2, <2>1
  <2>3. queue[old(j)] = queue[old(k)]
    BY <1>3, <1>7, <2>1
  <2> HIDE DEF old
  <2>4. old(j) = old(k)
    BY <2>2, <2>3 DEF Lists, n
  <2> QED
    BY <1>2, <2>1, <2>4 DEF old
<1>8. \A x \in T : \E j \in 1..Len(q) : q[j] = x
  <2> SUFFICES ASSUME NEW x \in T PROVE \E j \in 1..Len(q) : q[j] = x
    OBVIOUS
  <2>1. PICK k \in 1..n : queue[k] = x
    BY DEF Lists, n
  <2>2. k # i
    BY <1>2, <2>1
  <2>3. CASE k < i
    <3>1. k \in 1..(n - 1) /\ q[k] = x
      BY <1>1, <1>2, <1>3, <2>1, <2>3
    <3> QED
      BY <1>6, <3>1
  <2>4. CASE k > i
    <3>1. k - 1 \in 1..(n - 1) /\ q[k - 1] = x
      BY <1>1, <1>2, <1>3, <2>1, <2>4
    <3> QED
      BY <1>6, <3>1
  <2> QED
    BY <1>1, <1>2, <2>2, <2>3, <2>4
<1> QED
  BY <1>6, <1>7, <1>8 DEF Lists, q

LEMMA ListsLength ==
  ASSUME NEW S, NEW queue, Lists(queue, S)
  PROVE  Len(queue) = Cardinality(S)
<1>1. Len(queue) \in Nat /\ queue \in [1..Len(queue) -> S]
  BY LenProperties DEF Lists
<1>2. queue \in Bijection(1..Len(queue), S)
  BY <1>1, Fun_IsBij DEF Lists
<1>3. IsFiniteSet(1..Len(queue)) /\ Cardinality(1..Len(queue)) = Len(queue)
  BY <1>1, FS_Interval
<1>4. ExistsBijection(1..Len(queue), S)
  BY <1>2 DEF ExistsBijection
<1> QED
  BY <1>3, <1>4, FS_Bijection

-----------------------------------------------------------------------------
(* The inductive invariant. *)

\* The calls of shard s whose label in f is one of X.
InOf(f, X, s) == {c \in Calls : Shard(c) = s /\ f[c] \in X}

\* The calls that stand in line for thread t.
LineOf(f, t) == {c \in Calls : ThreadOf[c] = t /\ f[c] = "thread"}

\* n permits of shard s are taken, and queue waits for one.
PermitsOf(f, n, queue, s) ==
  /\ n = Cardinality(InOf(f, Permitted, s)) /\ n <= MaxInflight
  /\ Lists(queue, InOf(f, {"queued"}, s))
  /\ queue # <<>> => n = MaxInflight

\* n places of shard s are taken.
PlacesOf(f, n, s) == n = Cardinality(InOf(f, Inside, s)) /\ n <= Capacity

\* h has thread t, and queue waits for it.
TurnsOf(f, h, queue, t) ==
  /\ Lists(queue, LineOf(f, t))
  /\ h = None => queue = <<>>
  /\ h # None => h \in Calls /\ ThreadOf[h] = t /\ f[h] \in Locked
  /\ \A c \in Calls : ThreadOf[c] = t /\ f[c] \in Locked => h = c

\* Of the probes P at most one is of shard s; half says whether there is one.
ProbeOf(f, half, P, s) ==
  /\ half <=> \E c \in P : Shard(c) = s
  /\ \A b, c \in P : Shard(b) = s /\ Shard(c) = s => b = c
  /\ \A c \in P : Shard(c) = s => f[c] \in Inside

PermitInv == \A s \in Shards : PermitsOf(pc, inflight[s], waiters[s], s)
PlaceInv == \A s \in Shards : PlacesOf(pc, admitted[s], s)
ThreadInv == \A t \in Threads : TurnsOf(pc, holder[t], line[t], t)
ProbeInv == \A s \in Shards : ProbeOf(pc, halfOpen[s], probes, s)

\* Who waits for a permit of an open circuit is its probe.
QueueInv == \A c \in Calls : pc[c] = "queued" /\ cool[Shard(c)] # Closed => c \in probes

\* After close() no one waits for a permit.
ClosedInv == closing => \A s \in Shards : waiters[s] = <<>>

\* The types, but for what follows from the rest.
Typed ==
  /\ pc \in [Calls -> Labels] /\ aborted \subseteq Calls /\ probes \subseteq Calls
  /\ holder \in [Threads -> Calls \cup {None}] /\ line = [t \in Threads |-> line[t]]
  /\ admitted \in [Shards -> Int] /\ inflight \in [Shards -> Int]
  /\ waiters = [s \in Shards |-> waiters[s]]
  /\ failures \in [Shards -> Nat] /\ cool \in [Shards -> {Closed} \cup 0..Cooldown]
  /\ halfOpen \in [Shards -> BOOLEAN] /\ backend \in [Shards -> Backends]
  /\ close \in {"open", "draining", "drained", "shutdown", "timedout"}

IInv == Typed /\ PermitInv /\ PlaceInv /\ ThreadInv /\ ProbeInv /\ QueueInv /\ ClosedInv

-----------------------------------------------------------------------------
(* What a move of one call does to the sets that the counters count. *)

LEMMA ShardOfCall ==
  ASSUME NEW c \in Calls
  PROVE  ThreadOf[c] \in Threads /\ Shard(c) \in Shards
BY SupervisorAssumption DEF Shard

LEMMA InOfFinite ==
  ASSUME NEW f, NEW X, NEW s
  PROVE  IsFiniteSet(InOf(f, X, s)) /\ Cardinality(InOf(f, X, s)) \in Nat
<1>1. InOf(f, X, s) \subseteq Calls
  BY DEF InOf
<1> QED
  BY <1>1, SupervisorAssumption, FS_Subset, FS_CardinalityType

LEMMA SameIn ==
  ASSUME NEW f, NEW g, NEW X, NEW s,
         \A c \in Calls : Shard(c) = s => (f[c] \in X <=> g[c] \in X)
  PROVE  InOf(g, X, s) = InOf(f, X, s)
BY DEF InOf

LEMMA OneMoreIn ==
  ASSUME NEW f, NEW g, NEW X, NEW s, NEW c \in Calls, Shard(c) = s,
         f[c] \notin X, g[c] \in X,
         \A b \in Calls \ {c} : f[b] \in X <=> g[b] \in X
  PROVE  /\ InOf(g, X, s) = InOf(f, X, s) \cup {c} /\ c \notin InOf(f, X, s)
         /\ Cardinality(InOf(g, X, s)) = Cardinality(InOf(f, X, s)) + 1
<1>1. InOf(g, X, s) = InOf(f, X, s) \cup {c} /\ c \notin InOf(f, X, s)
  BY DEF InOf
<1> QED
  BY <1>1, InOfFinite, FS_AddElement

-----------------------------------------------------------------------------
(* Steps that leave a part of the state as it is. *)

\* No call enters the labels X or leaves them.
Kept(X) == \A c \in Calls : pc[c] \in X <=> pc'[c] \in X

LEMMA MoveKeeps ==
  ASSUME pc \in [Calls -> Labels], NEW c \in Calls, NEW l, NEW X,
         pc' = Moved(c, l), pc[c] \in X <=> l \in X
  PROVE  Kept(X)
BY DEF Moved, Kept

LEMMA StillKeeps ==
  ASSUME NEW X, UNCHANGED pc
  PROVE  Kept(X)
BY DEF Kept

LEMMA PermitsSame ==
  ASSUME NEW s \in Shards, PermitsOf(pc, inflight[s], waiters[s], s),
         inflight'[s] = inflight[s], waiters'[s] = waiters[s],
         \A c \in Calls : Shard(c) = s =>
           (pc[c] \in Permitted <=> pc'[c] \in Permitted) /\ (pc[c] = "queued" <=> pc'[c] = "queued")
  PROVE  PermitsOf(pc, inflight[s], waiters[s], s)'
<1>1. /\ InOf(pc', Permitted, s) = InOf(pc, Permitted, s)
      /\ InOf(pc', {"queued"}, s) = InOf(pc, {"queued"}, s)
  BY SameIn
<1> QED
  BY <1>1 DEF PermitsOf

LEMMA PermitKept ==
  ASSUME PermitInv, UNCHANGED permits, Kept(Permitted), Kept({"queued"})
  PROVE  PermitInv'
<1>1. ASSUME NEW s \in Shards PROVE PermitsOf(pc, inflight[s], waiters[s], s)'
  <2>1. /\ PermitsOf(pc, inflight[s], waiters[s], s)
        /\ inflight'[s] = inflight[s] /\ waiters'[s] = waiters[s]
    BY DEF PermitInv, permits
  <2>2. \A c \in Calls : (pc[c] \in Permitted <=> pc'[c] \in Permitted) /\ (pc[c] = "queued" <=> pc'[c] = "queued")
    BY DEF Kept
  <2> QED
    BY <2>1, <2>2, PermitsSame
<1> QED
  BY <1>1 DEF PermitInv

LEMMA PlaceKept ==
  ASSUME PlaceInv, UNCHANGED admitted, Kept(Inside)
  PROVE  PlaceInv'
<1>1. ASSUME NEW s \in Shards PROVE PlacesOf(pc, admitted[s], s)'
  <2>1. InOf(pc', Inside, s) = InOf(pc, Inside, s)
    BY SameIn DEF Kept
  <2> QED
    BY <2>1 DEF PlaceInv, PlacesOf
<1> QED
  BY <1>1 DEF PlaceInv

LEMMA TurnsSame ==
  ASSUME NEW t \in Threads, TurnsOf(pc, holder[t], line[t], t),
         holder'[t] = holder[t], line'[t] = line[t],
         \A c \in Calls : ThreadOf[c] = t =>
           (pc[c] \in Locked <=> pc'[c] \in Locked) /\ (pc[c] = "thread" <=> pc'[c] = "thread")
  PROVE  TurnsOf(pc, holder[t], line[t], t)'
<1>1. LineOf(pc', t) = LineOf(pc, t)
  BY DEF LineOf
<1> QED
  BY <1>1 DEF TurnsOf

LEMMA ThreadKept ==
  ASSUME ThreadInv, UNCHANGED locks, Kept(Locked), Kept({"thread"})
  PROVE  ThreadInv'
<1>1. ASSUME NEW t \in Threads PROVE TurnsOf(pc, holder[t], line[t], t)'
  <2>1. /\ TurnsOf(pc, holder[t], line[t], t)
        /\ holder'[t] = holder[t] /\ line'[t] = line[t]
    BY DEF ThreadInv, locks
  <2>2. \A c \in Calls : (pc[c] \in Locked <=> pc'[c] \in Locked) /\ (pc[c] = "thread" <=> pc'[c] = "thread")
    BY DEF Kept
  <2> QED
    BY <2>1, <2>2, TurnsSame
<1> QED
  BY <1>1 DEF ThreadInv

LEMMA ProbeKept ==
  ASSUME ProbeInv, probes \subseteq Calls, UNCHANGED <<halfOpen, probes>>, Kept(Inside)
  PROVE  ProbeInv'
<1>1. ASSUME NEW s \in Shards PROVE ProbeOf(pc, halfOpen[s], probes, s)'
  <2>1. ProbeOf(pc, halfOpen[s], probes, s)
    BY DEF ProbeInv
  <2>2. \A c \in probes : Shard(c) = s => pc'[c] \in Inside
    BY <2>1 DEF ProbeOf, Kept
  <2> QED
    BY <2>1, <2>2 DEF ProbeOf
<1> QED
  BY <1>1 DEF ProbeInv

LEMMA QueueKept ==
  ASSUME QueueInv, UNCHANGED cool, probes \subseteq probes',
         \A c \in Calls : pc'[c] = "queued" => pc[c] = "queued"
  PROVE  QueueInv'
BY DEF QueueInv

LEMMA ClosedKept ==
  ASSUME ClosedInv, UNCHANGED <<waiters, close>>
  PROVE  ClosedInv'
BY DEF ClosedInv, closing

-----------------------------------------------------------------------------
(* Steps that change one shard or one thread. *)

LEMMA PermitElsewhere ==
  ASSUME PermitInv, NEW s \in Shards, PermitsOf(pc, inflight[s], waiters[s], s)',
         \A r \in Shards \ {s} : inflight'[r] = inflight[r] /\ waiters'[r] = waiters[r],
         \A c \in Calls : Shard(c) # s =>
           (pc[c] \in Permitted <=> pc'[c] \in Permitted) /\ (pc[c] = "queued" <=> pc'[c] = "queued")
  PROVE  PermitInv'
<1>1. ASSUME NEW r \in Shards, r # s PROVE PermitsOf(pc, inflight[r], waiters[r], r)'
  <2>1. PermitsOf(pc, inflight[r], waiters[r], r)
    BY DEF PermitInv
  <2>2. \A c \in Calls : Shard(c) = r =>
          (pc[c] \in Permitted <=> pc'[c] \in Permitted) /\ (pc[c] = "queued" <=> pc'[c] = "queued")
    BY <1>1
  <2> QED
    BY <1>1, <2>1, <2>2, PermitsSame
<1> QED
  BY <1>1 DEF PermitInv

LEMMA PlaceElsewhere ==
  ASSUME PlaceInv, NEW s \in Shards, PlacesOf(pc, admitted[s], s)',
         \A r \in Shards \ {s} : admitted'[r] = admitted[r],
         \A c \in Calls : Shard(c) # s => (pc[c] \in Inside <=> pc'[c] \in Inside)
  PROVE  PlaceInv'
<1>1. ASSUME NEW r \in Shards, r # s PROVE PlacesOf(pc, admitted[r], r)'
  <2>1. InOf(pc', Inside, r) = InOf(pc, Inside, r)
    BY <1>1, SameIn
  <2> QED
    BY <1>1, <2>1 DEF PlaceInv, PlacesOf
<1> QED
  BY <1>1 DEF PlaceInv

LEMMA ThreadElsewhere ==
  ASSUME ThreadInv, NEW t \in Threads, TurnsOf(pc, holder[t], line[t], t)',
         \A u \in Threads \ {t} : holder'[u] = holder[u] /\ line'[u] = line[u],
         \A c \in Calls : ThreadOf[c] # t =>
           (pc[c] \in Locked <=> pc'[c] \in Locked) /\ (pc[c] = "thread" <=> pc'[c] = "thread")
  PROVE  ThreadInv'
<1>1. ASSUME NEW u \in Threads, u # t PROVE TurnsOf(pc, holder[u], line[u], u)'
  <2>1. TurnsOf(pc, holder[u], line[u], u)
    BY DEF ThreadInv
  <2>2. \A c \in Calls : ThreadOf[c] = u =>
          (pc[c] \in Locked <=> pc'[c] \in Locked) /\ (pc[c] = "thread" <=> pc'[c] = "thread")
    BY <1>1
  <2> QED
    BY <1>1, <2>1, <2>2, TurnsSame
<1> QED
  BY <1>1 DEF ThreadInv

LEMMA ProbeElsewhere ==
  ASSUME ProbeInv, probes \subseteq Calls, NEW s \in Shards, ProbeOf(pc, halfOpen[s], probes, s)',
         \A r \in Shards \ {s} : halfOpen'[r] = halfOpen[r],
         \A c \in Calls : Shard(c) # s => (pc[c] \in Inside <=> pc'[c] \in Inside),
         \A c \in probes \cup probes' : Shard(c) # s => (c \in probes <=> c \in probes')
  PROVE  ProbeInv'
<1>1. ASSUME NEW r \in Shards, r # s PROVE ProbeOf(pc, halfOpen[r], probes, r)'
  <2>1. ProbeOf(pc, halfOpen[r], probes, r) /\ halfOpen'[r] = halfOpen[r]
    BY <1>1 DEF ProbeInv
  <2>2. (\E c \in probes : Shard(c) = r) <=> (\E c \in probes' : Shard(c) = r)
    BY <1>1
  <2>3. \A b, c \in probes' : Shard(b) = r /\ Shard(c) = r => b = c
    BY <1>1, <2>1 DEF ProbeOf
  <2>4. \A c \in probes' : Shard(c) = r => pc'[c] \in Inside
    BY <1>1, <2>1 DEF ProbeOf
  <2>5. halfOpen[r] <=> \E c \in probes : Shard(c) = r
    BY <2>1 DEF ProbeOf
  <2>6. halfOpen'[r] <=> \E c \in probes' : Shard(c) = r
    BY <2>1, <2>2, <2>5
  <2> QED
    BY <2>3, <2>4, <2>6 DEF ProbeOf
<1> QED
  BY <1>1 DEF ProbeInv

-----------------------------------------------------------------------------
(* A call gives its permit back. *)

\* The permit of c goes to the first of queue, who waits for it, or back; next
\* is what the labels would be without the handover.
LEMMA ReleaseKeeps ==
  ASSUME Typed, PermitInv, NEW s \in Shards, NEW c \in Calls, Shard(c) = s, pc[c] \in Permitted,
         NEW next \in [Calls -> Labels], next[c] = "unlocking",
         \A d \in Calls \ {c} : \/ next[d] = pc[d]
                                \/ Shard(d) = s /\ pc[d] = "queued" /\ next[d] = "unlocking",
         NEW queue, Lists(queue, InOf(next, {"queued"}, s)),
         queue # <<>> => ~closing /\ inflight[s] = MaxInflight,
         Release(s, queue, next)
  PROVE  /\ PermitInv' /\ Kept(Inside) /\ Kept(Locked) /\ Kept({"thread"})
         /\ \A d \in Calls : pc'[d] = "queued" => next[d] = "queued" /\ pc[d] = "queued"
         /\ \A d \in Calls : pc[d] # "granted" /\ pc'[d] = "granted" => next[d] = "queued" /\ pc[d] = "queued"
         /\ waiters' = [waiters EXCEPT ![s] = waiters'[s]]
         /\ queue = <<>> => waiters'[s] = <<>>
         /\ pc' \in [Calls -> Labels] /\ inflight' \in [Shards -> Int]
         /\ waiters' = [r \in Shards |-> waiters'[r]]
<1> DEFINE n == inflight[s]
           h == Head(queue)
<1>1. /\ n = Cardinality(InOf(pc, Permitted, s)) /\ n <= MaxInflight /\ n \in Int
      /\ Cardinality(InOf(next, Permitted, s)) = n - 1
  <2>1. n = Cardinality(InOf(pc, Permitted, s)) /\ n <= MaxInflight /\ n \in Int
    BY DEF PermitInv, PermitsOf, Typed
  <2>2. next[c] \notin Permitted /\ \A d \in Calls \ {c} : pc[d] \in Permitted <=> next[d] \in Permitted
    BY DEF Permitted
  <2>3. InOf(next, Permitted, s) = InOf(pc, Permitted, s) \ {c} /\ c \in InOf(pc, Permitted, s)
    BY <2>2 DEF InOf
  <2>4. IsFiniteSet(InOf(pc, Permitted, s)) /\ Cardinality(InOf(pc, Permitted, s)) \in Nat
    BY InOfFinite
  <2>5. Cardinality(InOf(next, Permitted, s)) = Cardinality(InOf(pc, Permitted, s)) - 1
    BY <2>3, <2>4, FS_RemoveElement
  <2> QED
    BY <2>1, <2>5
<1>2. CASE queue # <<>>
  <2>1. /\ waiters' = [waiters EXCEPT ![s] = Tail(queue)] /\ pc' = [next EXCEPT ![h] = "granted"]
        /\ UNCHANGED inflight
    BY <1>2 DEF Release
  <2>2. h \in InOf(next, {"queued"}, s) /\ Lists(Tail(queue), InOf(next, {"queued"}, s) \ {h})
    BY <1>2, ListsTail
  <2>3. h \in Calls /\ Shard(h) = s /\ next[h] = "queued" /\ h # c /\ pc[h] = "queued"
    BY <2>2 DEF InOf
  <2> HIDE DEF h
  <2>4. pc'[h] = "granted" /\ pc' \in [Calls -> Labels] /\ \A d \in Calls \ {h} : pc'[d] = next[d]
    BY <2>1, <2>3 DEF Labels
  <2>5. Cardinality(InOf(pc', Permitted, s)) = n
    <3>1. next[h] \notin Permitted /\ pc'[h] \in Permitted
      BY <2>3, <2>4 DEF Permitted
    <3>2. Cardinality(InOf(pc', Permitted, s)) = Cardinality(InOf(next, Permitted, s)) + 1
      BY <2>3, <2>4, <3>1, OneMoreIn
    <3> QED
      BY <1>1, <3>2
  <2>6. InOf(pc', {"queued"}, s) = InOf(next, {"queued"}, s) \ {h}
    BY <2>3, <2>4 DEF InOf
  <2>7. waiters'[s] = Tail(queue) /\ inflight'[s] = n /\ n = MaxInflight
    BY <1>2, <2>1 DEF Typed
  <2>8. PermitsOf(pc, inflight[s], waiters[s], s)'
    BY <1>1, <2>2, <2>5, <2>6, <2>7 DEF PermitsOf
  <2>9. PermitInv'
    <3>1. \A d \in Calls : Shard(d) # s => pc'[d] = pc[d]
      BY <2>3, <2>4
    <3>2. \A r \in Shards \ {s} : inflight'[r] = inflight[r] /\ waiters'[r] = waiters[r]
      BY <2>1 DEF Typed
    <3> QED
      BY <2>8, <3>1, <3>2, PermitElsewhere
  <2>10. Kept(Inside) /\ Kept(Locked) /\ Kept({"thread"})
    <3>1. ASSUME NEW d \in Calls, pc'[d] # pc[d]
          PROVE  pc[d] \in Permitted \cup {"queued"} /\ pc'[d] \in {"unlocking", "granted"}
      <4>1. CASE d = h
        BY <2>3, <2>4, <4>1
      <4>2. CASE d # h
        BY <2>4, <3>1, <4>2
      <4> QED
        BY <4>1, <4>2
    <3> QED
      BY <3>1 DEF Kept, Inside, Locked, Permitted, Labels
  <2>11. /\ \A d \in Calls : pc'[d] = "queued" => next[d] = "queued" /\ pc[d] = "queued"
         /\ \A d \in Calls : pc[d] # "granted" /\ pc'[d] = "granted" => next[d] = "queued" /\ pc[d] = "queued"
    BY <2>3, <2>4
  <2>12. waiters' = [waiters EXCEPT ![s] = waiters'[s]] /\ waiters' = [r \in Shards |-> waiters'[r]]
    BY <2>1 DEF Typed
  <2>13. inflight' \in [Shards -> Int]
    BY <2>1 DEF Typed
  <2> QED
    BY <1>2, <2>4, <2>9, <2>10, <2>11, <2>12, <2>13
<1>3. CASE queue = <<>>
  <2>1. /\ waiters' = [waiters EXCEPT ![s] = queue] /\ pc' = next
        /\ inflight' = [inflight EXCEPT ![s] = @ - 1]
    BY <1>3 DEF Release
  <2>2. waiters'[s] = queue /\ inflight'[s] = n - 1 /\ inflight' \in [Shards -> Int]
    BY <2>1 DEF Typed
  <2>3. PermitsOf(pc, inflight[s], waiters[s], s)'
    BY <1>1, <1>3, <2>1, <2>2, SupervisorAssumption DEF PermitsOf
  <2>4. PermitInv'
    <3>1. \A d \in Calls : Shard(d) # s => pc'[d] = pc[d]
      BY <2>1
    <3>2. \A r \in Shards \ {s} : inflight'[r] = inflight[r] /\ waiters'[r] = waiters[r]
      BY <2>1 DEF Typed
    <3> QED
      BY <2>3, <3>1, <3>2, PermitElsewhere
  <2>5. Kept(Inside) /\ Kept(Locked) /\ Kept({"thread"})
    BY <2>1 DEF Kept, Inside, Locked, Permitted, Labels
  <2>6. /\ \A d \in Calls : pc'[d] = "queued" => next[d] = "queued" /\ pc[d] = "queued"
        /\ \A d \in Calls : pc[d] # "granted" /\ pc'[d] = "granted" => next[d] = "queued" /\ pc[d] = "queued"
    BY <2>1
  <2>7. waiters' = [waiters EXCEPT ![s] = waiters'[s]] /\ waiters' = [r \in Shards |-> waiters'[r]]
    BY <2>1 DEF Typed
  <2> QED
    BY <1>3, <2>1, <2>2, <2>4, <2>5, <2>6, <2>7
<1> QED
  BY <1>2, <1>3

-----------------------------------------------------------------------------
(* Steps that keep the invariant. *)

\* Calls move between labels that count the same, and no counter changes.
LEMMA SimpleStep ==
  ASSUME IInv, UNCHANGED <<locks, admitted, permits, halfOpen, probes>>,
         Kept(Permitted), Kept({"queued"}), Kept(Inside), Kept(Locked), Kept({"thread"}),
         pc' \in [Calls -> Labels], aborted' \subseteq Calls, backend' \in [Shards -> Backends],
         failures' \in [Shards -> Nat], cool' \in [Shards -> {Closed} \cup 0..Cooldown],
         \A s \in Shards : cool'[s] # Closed => cool[s] # Closed,
         close' \in {"open", "draining", "drained", "shutdown", "timedout"},
         close' # "open" => close # "open"
  PROVE  IInv'
<1>1. Typed'
  BY DEF IInv, Typed, locks, permits
<1>2. PermitInv' /\ PlaceInv' /\ ThreadInv' /\ ProbeInv'
  <2>1. PermitInv /\ PlaceInv /\ ThreadInv /\ ProbeInv /\ probes \subseteq Calls
    BY DEF IInv, Typed
  <2> QED
    BY <2>1, PermitKept, PlaceKept, ThreadKept, ProbeKept
<1>3. QueueInv'
  BY ShardOfCall DEF IInv, QueueInv, Kept
<1>4. ClosedInv'
  BY DEF IInv, ClosedInv, closing, permits
<1> QED
  BY <1>1, <1>2, <1>3, <1>4 DEF IInv

\* A call that ends gives its permit back; some that wait may be rejected.
LEMMA AnswerStep ==
  ASSUME IInv, NEW s \in Shards, NEW c \in Calls, Shard(c) = s, pc[c] \in Permitted,
         NEW next \in [Calls -> Labels], next[c] = "unlocking",
         \A d \in Calls \ {c} : \/ next[d] = pc[d]
                                \/ Shard(d) = s /\ pc[d] = "queued" /\ next[d] = "unlocking",
         NEW queue, Lists(queue, InOf(next, {"queued"}, s)),
         queue # <<>> => waiters[s] # <<>>,
         Release(s, queue, next),
         UNCHANGED <<aborted, locks, admitted, halfOpen, probes, backend, close>>,
         failures' \in [Shards -> Nat], cool' \in [Shards -> {Closed} \cup 0..Cooldown],
         \A d \in Calls : next[d] = "queued" /\ cool'[Shard(d)] # Closed => cool[Shard(d)] # Closed
  PROVE  /\ IInv'
         /\ \A d \in Calls : pc[d] # "granted" /\ pc'[d] = "granted" /\ cool'[Shard(d)] # Closed => d \in probes
<1>1. queue # <<>> => ~closing /\ inflight[s] = MaxInflight
  BY DEF IInv, PermitInv, PermitsOf, ClosedInv
<1>2. /\ PermitInv' /\ Kept(Inside) /\ Kept(Locked) /\ Kept({"thread"})
      /\ \A d \in Calls : pc'[d] = "queued" => next[d] = "queued" /\ pc[d] = "queued"
      /\ \A d \in Calls : pc[d] # "granted" /\ pc'[d] = "granted" => next[d] = "queued" /\ pc[d] = "queued"
      /\ waiters' = [waiters EXCEPT ![s] = waiters'[s]]
      /\ queue = <<>> => waiters'[s] = <<>>
      /\ pc' \in [Calls -> Labels] /\ inflight' \in [Shards -> Int]
      /\ waiters' = [r \in Shards |-> waiters'[r]]
  BY <1>1, ReleaseKeeps DEF IInv
<1>3. Typed'
  BY <1>2 DEF IInv, Typed, locks
<1>4. PlaceInv' /\ ThreadInv' /\ ProbeInv'
  <2>1. PlaceInv /\ ThreadInv /\ ProbeInv /\ probes \subseteq Calls
    BY DEF IInv, Typed
  <2> QED
    BY <1>2, <2>1, PlaceKept, ThreadKept, ProbeKept
<1>5. QueueInv'
  BY <1>2 DEF IInv, QueueInv
<1>6. ClosedInv'
  <2>1. \A r \in Shards \ {s} : waiters'[r] = waiters[r]
    BY <1>2 DEF IInv, Typed
  <2> QED
    BY <1>1, <1>2, <2>1 DEF IInv, ClosedInv, closing
<1>7. ASSUME NEW d \in Calls, pc[d] # "granted", pc'[d] = "granted", cool'[Shard(d)] # Closed
      PROVE  d \in probes
  BY <1>2, <1>7 DEF IInv, QueueInv
<1> QED
  BY <1>2, <1>3, <1>4, <1>5, <1>6, <1>7 DEF IInv

LEMMA SucceedStep ==
  ASSUME IInv, NEW c \in Calls, Succeed(c)
  PROVE  /\ IInv'
         /\ \A d \in Calls : pc[d] # "granted" /\ pc'[d] = "granted" /\ cool'[Shard(d)] # Closed => d \in probes
<1>1. PICK s \in Shards : s = Shard(c)
  BY ShardOfCall
<1>2. PICK next : next = Moved(c, "unlocking")
  OBVIOUS
<1>3. /\ pc[c] = "running" /\ failures' = [failures EXCEPT ![s] = 0]
      /\ cool' = [cool EXCEPT ![s] = Closed] /\ Release(s, waiters[s], next)
      /\ UNCHANGED <<aborted, locks, admitted, halfOpen, probes, backend, close>>
  BY <1>1, <1>2 DEF Succeed
<1>4. /\ next \in [Calls -> Labels] /\ next[c] = "unlocking"
      /\ \A d \in Calls \ {c} : next[d] = pc[d]
  BY <1>2 DEF IInv, Typed, Moved, Labels
<1>5. Lists(waiters[s], InOf(next, {"queued"}, s))
  <2>1. InOf(next, {"queued"}, s) = InOf(pc, {"queued"}, s)
    BY <1>3, <1>4 DEF InOf
  <2> QED
    BY <2>1 DEF IInv, PermitInv, PermitsOf
<1>6. failures' \in [Shards -> Nat] /\ cool' \in [Shards -> {Closed} \cup 0..Cooldown]
  BY <1>3 DEF IInv, Typed
<1>7. \A d \in Calls : cool'[Shard(d)] # Closed => cool[Shard(d)] # Closed
  BY <1>3, ShardOfCall DEF IInv, Typed
<1>8. pc[c] \in Permitted
  BY <1>3 DEF Permitted
<1> QED
  BY <1>1, <1>3, <1>4, <1>5, <1>6, <1>7, <1>8, AnswerStep

LEMMA FailStep ==
  ASSUME IInv, NEW c \in Calls, Fail(c)
  PROVE  /\ IInv'
         /\ \A d \in Calls : pc[d] # "granted" /\ pc'[d] = "granted" /\ cool'[Shard(d)] # Closed => d \in probes
<1>1. PICK s \in Shards : s = Shard(c)
  BY ShardOfCall
<1>2. PICK next : next = Moved(c, "unlocking")
  OBVIOUS
<1>3. /\ pc[c] \in {"running", "broken"} /\ Release(s, waiters[s], next)
      /\ UNCHANGED <<aborted, locks, admitted, circuit, backend, close>>
  BY <1>1, <1>2 DEF Fail
<1>4. /\ next \in [Calls -> Labels] /\ next[c] = "unlocking"
      /\ \A d \in Calls \ {c} : next[d] = pc[d]
  BY <1>2 DEF IInv, Typed, Moved, Labels
<1>5. Lists(waiters[s], InOf(next, {"queued"}, s))
  <2>1. InOf(next, {"queued"}, s) = InOf(pc, {"queued"}, s)
    BY <1>3, <1>4 DEF InOf
  <2> QED
    BY <2>1 DEF IInv, PermitInv, PermitsOf
<1>6. failures' \in [Shards -> Nat] /\ cool' \in [Shards -> {Closed} \cup 0..Cooldown] /\ cool' = cool
  BY <1>3 DEF IInv, Typed, circuit
<1>7. UNCHANGED <<aborted, locks, admitted, halfOpen, probes, backend, close>>
  BY <1>3 DEF circuit
<1>8. pc[c] \in Permitted
  BY <1>3 DEF Permitted
<1> QED
  BY <1>1, <1>3, <1>4, <1>5, <1>6, <1>7, <1>8, AnswerStep

LEMMA FailTransportStep ==
  ASSUME IInv, NEW c \in Calls, FailTransport(c)
  PROVE  /\ IInv'
         /\ \A d \in Calls : pc[d] # "granted" /\ pc'[d] = "granted" /\ cool'[Shard(d)] # Closed => d \in probes
<1>1. PICK s \in Shards : s = Shard(c)
  BY ShardOfCall
<1>2. PICK opens \in BOOLEAN : opens <=> failures[s] + 1 >= Threshold
  <2>1. CASE failures[s] + 1 >= Threshold
    BY <2>1
  <2>2. CASE ~(failures[s] + 1 >= Threshold)
    BY <2>2
  <2> QED
    BY <2>1, <2>2
<1>3. PICK gone : gone = IF opens THEN Rejected(s) ELSE {}
  OBVIOUS
<1>4. PICK next : next = MovedAll(gone \cup {c}, pc, "unlocking")
  OBVIOUS
<1>5. PICK queue : queue = IF gone = {} THEN waiters[s] ELSE <<>>
  OBVIOUS
<1>6. /\ pc[c] \in {"running", "broken"} /\ failures' = [failures EXCEPT ![s] = @ + 1]
      /\ cool' = [cool EXCEPT ![s] = IF opens THEN Cooldown ELSE @] /\ Release(s, queue, next)
      /\ UNCHANGED <<aborted, locks, admitted, halfOpen, probes, backend, close>>
  BY <1>1, <1>2, <1>3, <1>4, <1>5 DEF FailTransport
<1>7. gone \subseteq InOf(pc, {"queued"}, s) /\ (opens => gone = InOf(pc, {"queued"}, s))
  BY <1>3 DEF Rejected, In, InOf
<1>8. /\ next \in [Calls -> Labels] /\ next[c] = "unlocking"
      /\ \A d \in Calls \ {c} : next[d] = IF d \in gone THEN "unlocking" ELSE pc[d]
  BY <1>4 DEF IInv, Typed, MovedAll, Labels
<1>9. /\ \A d \in gone : Shard(d) = s /\ pc[d] = "queued"
      /\ InOf(next, {"queued"}, s) = InOf(pc, {"queued"}, s) \ gone
  BY <1>6, <1>7, <1>8 DEF InOf
<1>10. Lists(queue, InOf(next, {"queued"}, s)) /\ (queue # <<>> => waiters[s] # <<>>)
  <2>1. Lists(waiters[s], InOf(pc, {"queued"}, s))
    BY DEF IInv, PermitInv, PermitsOf
  <2>2. CASE gone = {}
    BY <1>5, <1>9, <2>1, <2>2
  <2>3. CASE gone # {}
    <3>1. InOf(next, {"queued"}, s) = {}
      BY <1>3, <1>7, <1>9, <2>3
    <3> QED
      BY <1>5, <2>3, <3>1, EmptyLists
  <2> QED
    BY <2>2, <2>3
<1>11. failures' \in [Shards -> Nat]
  BY <1>6 DEF IInv, Typed
<1>12. cool' \in [Shards -> {Closed} \cup 0..Cooldown] /\ (~opens => cool' = cool)
       /\ \A r \in Shards \ {s} : cool'[r] = cool[r]
  BY <1>6, SupervisorAssumption DEF IInv, Typed
<1>13. ASSUME NEW d \in Calls, next[d] = "queued", cool'[Shard(d)] # Closed PROVE cool[Shard(d)] # Closed
  <2>1. CASE opens
    <3>1. Shard(d) # s
      BY <1>7, <1>8, <1>13, <2>1 DEF InOf
    <3> QED
      BY <1>12, <1>13, <3>1, ShardOfCall
  <2>2. CASE ~opens
    BY <1>12, <1>13, <2>2
  <2> QED
    BY <2>1, <2>2
<1>14. pc[c] \in Permitted
  BY <1>6 DEF Permitted
<1>15. \A d \in Calls \ {c} : next[d] = pc[d] \/ (Shard(d) = s /\ pc[d] = "queued" /\ next[d] = "unlocking")
  BY <1>8, <1>9
<1> QED
  BY <1>1, <1>6, <1>8, <1>10, <1>11, <1>12, <1>13, <1>14, <1>15, AnswerStep

LEMMA RefuseStep ==
  ASSUME IInv, NEW c \in Calls, NEW l \in Labels, pc' = Moved(c, l),
         \/ pc[c] = "idle" /\ l = "settled"
         \/ pc[c] = "turn" /\ l = "unlocking"
         \/ pc[c] = "granted" /\ l \in {"starting", "running"},
         UNCHANGED <<aborted, locks, admitted, permits, circuit, close>>,
         backend' \in [Shards -> Backends]
  PROVE  IInv'
<1>1. pc \in [Calls -> Labels]
  BY DEF IInv, Typed
<1>2. pc' \in [Calls -> Labels]
  BY <1>1 DEF Moved
<1>3. \A X \in {Permitted, {"queued"}, Inside, Locked, {"thread"}} : pc[c] \in X <=> l \in X
  BY DEF Permitted, Inside, Locked, Labels
<1>4. Kept(Permitted) /\ Kept({"queued"}) /\ Kept(Inside) /\ Kept(Locked) /\ Kept({"thread"})
  BY <1>1, <1>3, MoveKeeps
<1>5. UNCHANGED <<failures, cool, halfOpen, probes>>
  BY DEF circuit
<1>6. /\ aborted' \subseteq Calls /\ failures' \in [Shards -> Nat]
      /\ cool' \in [Shards -> {Closed} \cup 0..Cooldown]
      /\ close' \in {"open", "draining", "drained", "shutdown", "timedout"}
  BY <1>5 DEF IInv, Typed
<1> QED
  BY <1>2, <1>4, <1>5, <1>6, SimpleStep

\* A call that is let in has a place, a turn or a place in line, and is the
\* probe of its shard if the circuit is not closed.
LEMMA LetInStep ==
  ASSUME IInv, NEW c \in Calls, Run(c),
         ~(closing \/ c \in aborted \/ CircuitRefuses(Shard(c)) \/ AtCapacity(Shard(c)))
  PROVE  IInv'
<1>1. PICK s \in Shards : s = Shard(c)
  BY ShardOfCall
<1>2. PICK t \in Threads : t = ThreadOf[c]
  BY ShardOfCall
<1>3. /\ pc[c] = "idle" /\ admitted' = [admitted EXCEPT ![s] = @ + 1]
      /\ IF cool[s] = Closed THEN UNCHANGED <<halfOpen, probes>>
         ELSE halfOpen' = [halfOpen EXCEPT ![s] = TRUE] /\ probes' = probes \cup {c}
      /\ IF holder[t] = None
         THEN holder' = [holder EXCEPT ![t] = c] /\ pc' = Moved(c, "turn") /\ UNCHANGED line
         ELSE line' = [line EXCEPT ![t] = Append(@, c)] /\ pc' = Moved(c, "thread") /\ UNCHANGED holder
      /\ UNCHANGED <<failures, cool>>
      /\ UNCHANGED <<aborted, permits, backend, close>>
  BY <1>1, <1>2 DEF Run, Free
<1>4. PICK l \in {"turn", "thread"} : pc' = Moved(c, l) /\ l = IF holder[t] = None THEN "turn" ELSE "thread"
  BY <1>3
<1>5. pc' \in [Calls -> Labels] /\ pc'[c] = l /\ \A d \in Calls \ {c} : pc'[d] = pc[d]
  BY <1>4 DEF IInv, Typed, Moved, Labels
<1>6. Typed'
  <2>1. admitted' \in [Shards -> Int]
    BY <1>3 DEF IInv, Typed
  <2>2. halfOpen' \in [Shards -> BOOLEAN] /\ probes' \subseteq Calls
    BY <1>3 DEF IInv, Typed
  <2>3. holder' \in [Threads -> Calls \cup {None}] /\ line' = [u \in Threads |-> line'[u]]
    BY <1>3 DEF IInv, Typed
  <2> QED
    BY <1>3, <1>5, <2>1, <2>2, <2>3 DEF IInv, Typed, permits
<1>7. PermitInv'
  <2>1. Kept(Permitted) /\ Kept({"queued"})
    BY <1>3, <1>5 DEF Kept, Permitted
  <2> QED
    BY <1>3, <2>1, PermitKept DEF IInv
<1>8. PlaceInv'
  <2>1. pc[c] \notin Inside /\ pc'[c] \in Inside
    BY <1>3, <1>5 DEF Inside, Labels
  <2>2. Cardinality(InOf(pc', Inside, s)) = Cardinality(InOf(pc, Inside, s)) + 1
    BY <1>1, <1>5, <2>1, OneMoreIn
  <2>3. /\ admitted'[s] = admitted[s] + 1 /\ admitted[s] < Capacity
        /\ \A r \in Shards \ {s} : admitted'[r] = admitted[r]
    BY <1>1, <1>3, SupervisorAssumption DEF IInv, Typed, AtCapacity, Capacity
  <2>4. PlacesOf(pc, admitted[s], s)'
    BY <2>2, <2>3, SupervisorAssumption DEF IInv, Typed, PlaceInv, PlacesOf, Capacity
  <2>5. \A d \in Calls : Shard(d) # s => (pc[d] \in Inside <=> pc'[d] \in Inside)
    BY <1>1, <1>5
  <2> QED
    BY <2>3, <2>4, <2>5, PlaceElsewhere DEF IInv
<1>9. ThreadInv'
  <2>1. TurnsOf(pc, holder[t], line[t], t)
    BY DEF IInv, ThreadInv
  <2>2. TurnsOf(pc, holder[t], line[t], t)'
    <3>1. CASE holder[t] = None
      <4>1. holder'[t] = c /\ line'[t] = line[t] /\ pc'[c] = "turn"
        BY <1>3, <1>4, <1>5, <3>1 DEF IInv, Typed
      <4>2. LineOf(pc', t) = LineOf(pc, t)
        BY <1>3, <1>5, <4>1 DEF LineOf
      <4>3. line[t] = <<>> /\ \A d \in Calls : ThreadOf[d] = t => pc[d] \notin Locked
        BY <2>1, <3>1, SupervisorAssumption DEF TurnsOf
      <4> QED
        BY <1>2, <1>5, <2>1, <4>1, <4>2, <4>3 DEF TurnsOf, Locked
    <3>2. CASE holder[t] # None
      <4>1. holder'[t] = holder[t] /\ line'[t] = Append(line[t], c) /\ pc'[c] = "thread"
        BY <1>3, <1>4, <1>5, <3>2 DEF IInv, Typed
      <4>2. LineOf(pc', t) = LineOf(pc, t) \cup {c} /\ c \notin LineOf(pc, t)
        BY <1>2, <1>3, <1>5, <4>1 DEF LineOf
      <4>3. Lists(line'[t], LineOf(pc', t))
        BY <2>1, <4>1, <4>2, ListsAppend DEF TurnsOf
      <4>4. holder[t] # c
        BY <1>3, <2>1, <3>2 DEF TurnsOf, Locked, Permitted
      <4> QED
        BY <1>5, <2>1, <3>2, <4>1, <4>3, <4>4 DEF TurnsOf, Locked, Permitted
    <3> QED
      BY <3>1, <3>2
  <2>3. \A u \in Threads \ {t} : holder'[u] = holder[u] /\ line'[u] = line[u]
    BY <1>3 DEF IInv, Typed
  <2>4. \A d \in Calls : ThreadOf[d] # t =>
          (pc[d] \in Locked <=> pc'[d] \in Locked) /\ (pc[d] = "thread" <=> pc'[d] = "thread")
    BY <1>2, <1>5
  <2> QED
    BY <2>2, <2>3, <2>4, ThreadElsewhere DEF IInv
<1>10. ProbeInv'
  <2>1. ProbeOf(pc, halfOpen[s], probes, s) /\ probes \subseteq Calls
    BY DEF IInv, ProbeInv, Typed
  <2>2. pc'[c] \in Inside
    BY <1>5 DEF Inside, Labels
  <2>3. ProbeOf(pc, halfOpen[s], probes, s)'
    <3>1. CASE cool[s] = Closed
      BY <1>3, <1>5, <2>1, <2>2, <3>1 DEF ProbeOf
    <3>2. CASE cool[s] # Closed
      <4>1. probes' = probes \cup {c} /\ halfOpen'[s]
        BY <1>3, <3>2 DEF IInv, Typed
      <4>2. ~halfOpen[s]
        BY <1>1, <3>2, SupervisorAssumption DEF CircuitRefuses, IInv, Typed, Closed
      <4>3. \A d \in probes : Shard(d) # s
        BY <2>1, <4>2 DEF ProbeOf
      <4> QED
        BY <1>1, <2>2, <4>1, <4>3 DEF ProbeOf
    <3> QED
      BY <3>1, <3>2
  <2>4. \A r \in Shards \ {s} : halfOpen'[r] = halfOpen[r]
    BY <1>3 DEF IInv, Typed
  <2>5. \A d \in Calls : Shard(d) # s => (pc[d] \in Inside <=> pc'[d] \in Inside)
    BY <1>1, <1>5
  <2>6. \A d \in probes \cup probes' : Shard(d) # s => (d \in probes <=> d \in probes')
    BY <1>1, <1>3
  <2> QED
    BY <2>1, <2>3, <2>4, <2>5, <2>6, ProbeElsewhere DEF IInv
<1>11. QueueInv'
  <2>1. probes \subseteq probes'
    BY <1>3
  <2>2. \A d \in Calls : pc'[d] = "queued" => pc[d] = "queued"
    BY <1>5
  <2> QED
    BY <1>3, <2>1, <2>2, QueueKept DEF IInv
<1>12. ClosedInv'
  BY <1>3, ClosedKept DEF IInv, permits
<1> QED
  BY <1>6, <1>7, <1>8, <1>9, <1>10, <1>11, <1>12 DEF IInv

LEMMA RunStep ==
  ASSUME IInv, NEW c \in Calls, Run(c)
  PROVE  IInv'
<1>1. CASE closing \/ c \in aborted \/ CircuitRefuses(Shard(c)) \/ AtCapacity(Shard(c))
  <2>1. /\ pc[c] = "idle" /\ pc' = Moved(c, "settled")
        /\ UNCHANGED <<aborted, locks, admitted, permits, circuit, close, backend>>
    BY <1>1 DEF Run
  <2>2. "settled" \in Labels /\ backend' \in [Shards -> Backends]
    BY <2>1 DEF Labels, IInv, Typed
  <2> QED
    BY <2>1, <2>2, RefuseStep
<1>2. CASE ~(closing \/ c \in aborted \/ CircuitRefuses(Shard(c)) \/ AtCapacity(Shard(c)))
  BY <1>2, LetInStep
<1> QED
  BY <1>1, <1>2

LEMMA AcquirePermitStep ==
  ASSUME IInv, NEW c \in Calls, AcquirePermit(c)
  PROVE  /\ IInv'
         /\ \A d \in Calls : pc[d] # "granted" /\ pc'[d] = "granted" /\ cool'[Shard(d)] # Closed => d \in probes
<1>1. PICK s \in Shards : s = Shard(c)
  BY ShardOfCall
<1>2. /\ pc[c] = "turn" /\ UNCHANGED <<aborted, locks, admitted, circuit, backend, close>>
      /\ inflight[s] \in Int
  BY <1>1 DEF AcquirePermit, IInv, Typed
<1>3. CASE pc' = Moved(c, "unlocking") /\ UNCHANGED permits
  <2>1. "unlocking" \in Labels /\ backend' \in [Shards -> Backends]
    BY <1>2 DEF Labels, IInv, Typed
  <2>2. \A d \in Calls : pc'[d] = "granted" => pc[d] = "granted"
    BY <1>3 DEF Moved, IInv, Typed
  <2> QED
    BY <1>2, <1>3, <2>1, <2>2, RefuseStep
<1>4. ASSUME pc' = Moved(c, "granted") \/ pc' = Moved(c, "queued"), PermitsOf(pc, inflight[s], waiters[s], s)',
             ~closing /\ (c \in probes \/ cool[s] = Closed),
             \A r \in Shards \ {s} : inflight'[r] = inflight[r] /\ waiters'[r] = waiters[r],
             inflight' \in [Shards -> Int], waiters' = [r \in Shards |-> waiters'[r]]
      PROVE  /\ IInv'
             /\ \A d \in Calls : pc[d] # "granted" /\ pc'[d] = "granted" /\ cool'[Shard(d)] # Closed => d \in probes
  <2>1. pc' \in [Calls -> Labels] /\ pc'[c] \in {"granted", "queued"} /\ \A d \in Calls \ {c} : pc'[d] = pc[d]
    BY <1>4 DEF IInv, Typed, Moved, Labels
  <2>2. UNCHANGED <<failures, cool, halfOpen, probes>>
    BY <1>2 DEF circuit
  <2>3. Typed'
    BY <1>2, <1>4, <2>1, <2>2 DEF IInv, Typed, locks
  <2>4. PermitInv'
    <3>1. \A d \in Calls : Shard(d) # s =>
            (pc[d] \in Permitted <=> pc'[d] \in Permitted) /\ (pc[d] = "queued" <=> pc'[d] = "queued")
      BY <1>1, <2>1
    <3> QED
      BY <1>4, <3>1, PermitElsewhere DEF IInv
  <2>5. Kept(Inside) /\ Kept(Locked) /\ Kept({"thread"})
    BY <1>2, <2>1 DEF Kept, Inside, Locked, Permitted, Labels
  <2>6. PlaceInv' /\ ThreadInv' /\ ProbeInv'
    <3>1. PlaceInv /\ ThreadInv /\ ProbeInv /\ probes \subseteq Calls
      BY DEF IInv, Typed
    <3> QED
      BY <1>2, <2>2, <2>5, <3>1, PlaceKept, ThreadKept, ProbeKept
  <2>7. QueueInv'
    BY <1>1, <1>4, <2>1, <2>2 DEF IInv, QueueInv
  <2>8. ClosedInv'
    BY <1>2, <1>4 DEF ClosedInv, closing
  <2>9. \A d \in Calls : pc[d] # "granted" /\ pc'[d] = "granted" /\ cool'[Shard(d)] # Closed => d \in probes
    BY <1>1, <1>4, <2>1, <2>2
  <2> QED
    BY <2>3, <2>4, <2>6, <2>7, <2>8, <2>9 DEF IInv
<1>5. CASE /\ ~closing /\ (c \in probes \/ cool[s] = Closed)
           /\ inflight[s] < MaxInflight /\ inflight' = [inflight EXCEPT ![s] = @ + 1]
           /\ pc' = Moved(c, "granted") /\ UNCHANGED waiters
  <2>1. PermitsOf(pc, inflight[s], waiters[s], s)
    BY DEF IInv, PermitInv
  <2>2. pc'[c] = "granted" /\ \A d \in Calls \ {c} : pc'[d] = pc[d]
    BY <1>5 DEF IInv, Typed, Moved
  <2>3. /\ pc[c] \notin Permitted /\ pc'[c] \in Permitted
        /\ \A d \in Calls \ {c} : pc[d] \in Permitted <=> pc'[d] \in Permitted
    BY <1>2, <2>2 DEF Permitted
  <2>4. Cardinality(InOf(pc', Permitted, s)) = Cardinality(InOf(pc, Permitted, s)) + 1
    <3>1. InOf(pc', Permitted, s) = InOf(pc, Permitted, s) \cup {c} /\ c \notin InOf(pc, Permitted, s)
      BY <1>1, <2>3 DEF InOf
    <3>2. IsFiniteSet(InOf(pc, Permitted, s))
      BY InOfFinite
    <3> QED
      BY <3>1, <3>2, FS_AddElement
  <2>5. InOf(pc', {"queued"}, s) = InOf(pc, {"queued"}, s)
    BY <1>2, <2>2 DEF InOf
  <2>6. inflight'[s] = inflight[s] + 1 /\ inflight' \in [Shards -> Int] /\ waiters'[s] = <<>>
    BY <1>2, <1>5, <2>1, SupervisorAssumption DEF PermitsOf, IInv, Typed
  <2>7. PermitsOf(pc, inflight[s], waiters[s], s)'
    BY <1>2, <1>5, <2>1, <2>4, <2>5, <2>6, SupervisorAssumption DEF PermitsOf
  <2>8. /\ \A r \in Shards \ {s} : inflight'[r] = inflight[r] /\ waiters'[r] = waiters[r]
        /\ waiters' = [r \in Shards |-> waiters'[r]]
    BY <1>5 DEF IInv, Typed
  <2> QED
    BY <1>4, <1>5, <2>6, <2>7, <2>8
<1>6. CASE /\ ~closing /\ (c \in probes \/ cool[s] = Closed) /\ inflight[s] >= MaxInflight
           /\ waiters' = [waiters EXCEPT ![s] = Append(@, c)] /\ pc' = Moved(c, "queued")
           /\ UNCHANGED inflight
  <2>1. PermitsOf(pc, inflight[s], waiters[s], s)
    BY DEF IInv, PermitInv
  <2>2. pc'[c] = "queued" /\ \A d \in Calls \ {c} : pc'[d] = pc[d]
    BY <1>6 DEF IInv, Typed, Moved
  <2>3. InOf(pc', Permitted, s) = InOf(pc, Permitted, s)
    BY <1>2, <2>2 DEF InOf, Permitted
  <2>4. InOf(pc', {"queued"}, s) = InOf(pc, {"queued"}, s) \cup {c} /\ c \notin InOf(pc, {"queued"}, s)
    BY <1>1, <1>2, <2>2 DEF InOf
  <2>5. waiters'[s] = Append(waiters[s], c)
    BY <1>6 DEF IInv, Typed
  <2>6. Lists(waiters'[s], InOf(pc', {"queued"}, s))
    BY <2>1, <2>4, <2>5, ListsAppend DEF PermitsOf
  <2>7. PermitsOf(pc, inflight[s], waiters[s], s)'
    BY <1>2, <1>6, <2>1, <2>3, <2>6, SupervisorAssumption DEF PermitsOf
  <2>8. /\ \A r \in Shards \ {s} : inflight'[r] = inflight[r] /\ waiters'[r] = waiters[r]
        /\ inflight' \in [Shards -> Int] /\ waiters' = [r \in Shards |-> waiters'[r]]
    BY <1>6 DEF IInv, Typed
  <2> QED
    BY <1>4, <1>6, <2>7, <2>8
<1> QED
  BY <1>1, <1>3, <1>5, <1>6 DEF AcquirePermit, permits

LEMMA EnsureBackendStep ==
  ASSUME IInv, NEW c \in Calls, EnsureBackend(c)
  PROVE  IInv'
<1>1. PICK l \in {"starting", "running"} :
        /\ pc[c] = "granted" /\ pc' = Moved(c, l)
        /\ UNCHANGED <<aborted, locks, admitted, permits, circuit, close>>
  BY DEF EnsureBackend
<1>2. l \in Labels
  BY DEF Labels
<1>3. backend' \in [Shards -> Backends]
  BY DEF EnsureBackend, IInv, Typed, Backends
<1> QED
  BY <1>1, <1>2, <1>3, RefuseStep

\* The thread goes from c to the first in line, or is free.
LEMMA UnlockStep ==
  ASSUME IInv, NEW c \in Calls, Unlock(c)
  PROVE  IInv'
<1>1. PICK t \in Threads : t = ThreadOf[c]
  BY ShardOfCall
<1>2. /\ pc[c] = "unlocking" /\ UNCHANGED <<aborted, admitted, permits, circuit, backend, close>>
      /\ IF line[t] = <<>>
         THEN holder' = [holder EXCEPT ![t] = None] /\ pc' = Moved(c, "leaving") /\ UNCHANGED line
         ELSE /\ holder' = [holder EXCEPT ![t] = Head(line[t])]
              /\ line' = [line EXCEPT ![t] = Tail(@)]
              /\ pc' = [Moved(c, "leaving") EXCEPT ![Head(line[t])] = "turn"]
  BY <1>1 DEF Unlock
<1>3. /\ TurnsOf(pc, holder[t], line[t], t) /\ holder[t] = c
      /\ \A d \in Calls \ {c} : ThreadOf[d] = t => pc[d] \notin Locked
  BY <1>1, <1>2 DEF IInv, ThreadInv, TurnsOf, Locked
<1>4. UNCHANGED <<failures, cool, halfOpen, probes>>
  BY <1>2 DEF circuit
<1>5. ASSUME pc' \in [Calls -> Labels], holder' \in [Threads -> Calls \cup {None}],
             line' = [u \in Threads |-> line'[u]],
             \A d \in Calls : pc'[d] = pc[d] \/ (d = c /\ pc'[d] = "leaving")
                              \/ (ThreadOf[d] = t /\ pc[d] = "thread" /\ pc'[d] = "turn"),
             TurnsOf(pc, holder[t], line[t], t)',
             \A u \in Threads \ {t} : holder'[u] = holder[u] /\ line'[u] = line[u]
      PROVE  IInv'
  <2>1. Typed'
    BY <1>2, <1>4, <1>5 DEF IInv, Typed, permits
  <2>2. Kept(Permitted) /\ Kept({"queued"}) /\ Kept(Inside)
    BY <1>2, <1>5 DEF Kept, Inside, Permitted, Labels
  <2>3. PermitInv' /\ PlaceInv' /\ ProbeInv'
    <3>1. PermitInv /\ PlaceInv /\ ProbeInv /\ probes \subseteq Calls
      BY DEF IInv, Typed
    <3> QED
      BY <1>2, <1>4, <2>2, <3>1, PermitKept, PlaceKept, ProbeKept
  <2>4. ThreadInv'
    <3>1. \A d \in Calls : ThreadOf[d] # t =>
            (pc[d] \in Locked <=> pc'[d] \in Locked) /\ (pc[d] = "thread" <=> pc'[d] = "thread")
      BY <1>1, <1>5
    <3> QED
      BY <1>5, <3>1, ThreadElsewhere DEF IInv
  <2>5. QueueInv'
    BY <1>4, <1>5 DEF IInv, QueueInv
  <2>6. ClosedInv'
    BY <1>2, ClosedKept DEF IInv, permits
  <2> QED
    BY <2>1, <2>3, <2>4, <2>5, <2>6 DEF IInv
<1>6. CASE line[t] = <<>>
  <2>1. holder' = [holder EXCEPT ![t] = None] /\ pc' = Moved(c, "leaving") /\ UNCHANGED line
    BY <1>2, <1>6
  <2>2. pc' \in [Calls -> Labels] /\ pc'[c] = "leaving" /\ \A d \in Calls \ {c} : pc'[d] = pc[d]
    BY <2>1 DEF IInv, Typed, Moved, Labels
  <2>3. /\ holder' \in [Threads -> Calls \cup {None}] /\ holder'[t] = None
        /\ line' = [u \in Threads |-> line'[u]]
        /\ \A u \in Threads \ {t} : holder'[u] = holder[u] /\ line'[u] = line[u]
    BY <2>1 DEF IInv, Typed
  <2>4. LineOf(pc', t) = LineOf(pc, t)
    BY <1>2, <2>2 DEF LineOf
  <2>5. TurnsOf(pc, holder[t], line[t], t)'
    BY <1>3, <1>6, <2>1, <2>2, <2>3, <2>4 DEF TurnsOf, Locked, Permitted
  <2> QED
    BY <1>5, <2>2, <2>3, <2>5
<1>7. CASE line[t] # <<>>
  <2> DEFINE h == Head(line[t])
  <2>1. /\ holder' = [holder EXCEPT ![t] = h] /\ line' = [line EXCEPT ![t] = Tail(@)]
        /\ pc' = [Moved(c, "leaving") EXCEPT ![h] = "turn"]
    BY <1>2, <1>7
  <2>2. h \in LineOf(pc, t) /\ Lists(Tail(line[t]), LineOf(pc, t) \ {h})
    BY <1>3, <1>7, ListsTail DEF TurnsOf
  <2>3. h \in Calls /\ ThreadOf[h] = t /\ pc[h] = "thread" /\ h # c /\ h # None
    BY <1>2, <2>2, SupervisorAssumption DEF LineOf
  <2>4. PICK d \in Calls : d = h
    BY <2>3
  <2>5. /\ pc' \in [Calls -> Labels] /\ pc'[d] = "turn" /\ pc'[c] = "leaving"
        /\ \A e \in Calls \ {c, d} : pc'[e] = pc[e]
    BY <2>1, <2>3, <2>4 DEF IInv, Typed, Moved, Labels
  <2>6. /\ holder' \in [Threads -> Calls \cup {None}] /\ holder'[t] = d
        /\ line' = [u \in Threads |-> line'[u]] /\ line'[t] = Tail(line[t])
        /\ \A u \in Threads \ {t} : holder'[u] = holder[u] /\ line'[u] = line[u]
    BY <2>1, <2>4 DEF IInv, Typed
  <2>7. LineOf(pc', t) = LineOf(pc, t) \ {h}
    BY <1>2, <2>3, <2>4, <2>5 DEF LineOf
  <2>8. Lists(line'[t], LineOf(pc', t))
    BY <2>2, <2>6, <2>7
  <2> HIDE DEF h
  <2>9. \A e \in Calls : ThreadOf[e] = t /\ pc'[e] \in Locked => e = d
    BY <1>3, <2>5 DEF Locked, Permitted
  <2>10. TurnsOf(pc, holder[t], line[t], t)'
    BY <2>3, <2>4, <2>5, <2>6, <2>8, <2>9 DEF TurnsOf, Locked
  <2>11. \A e \in Calls : pc'[e] = pc[e] \/ (e = c /\ pc'[e] = "leaving")
                          \/ (ThreadOf[e] = t /\ pc[e] = "thread" /\ pc'[e] = "turn")
    BY <2>3, <2>4, <2>5
  <2> QED
    BY <1>5, <2>5, <2>6, <2>10, <2>11
<1> QED
  BY <1>6, <1>7

\* The place of c is free, and if c was the probe there is none.
LEMMA LeaveStep ==
  ASSUME IInv, NEW c \in Calls, Leave(c)
  PROVE  IInv'
<1>1. PICK s \in Shards : s = Shard(c)
  BY ShardOfCall
<1>2. /\ pc[c] = "leaving" /\ pc' = Moved(c, "settled")
      /\ admitted' = [admitted EXCEPT ![s] = @ - 1]
      /\ IF c \in probes
         THEN halfOpen' = [halfOpen EXCEPT ![s] = FALSE] /\ probes' = probes \ {c}
         ELSE UNCHANGED <<halfOpen, probes>>
      /\ close' \in {close, "drained"} /\ (close = "open" => close' = "open")
      /\ UNCHANGED <<aborted, locks, permits, failures, cool, backend>>
  BY <1>1 DEF Leave
<1>3. pc' \in [Calls -> Labels] /\ pc'[c] = "settled" /\ \A d \in Calls \ {c} : pc'[d] = pc[d]
  BY <1>2 DEF IInv, Typed, Moved, Labels
<1>4. Typed'
  <2>1. admitted' \in [Shards -> Int]
    BY <1>2 DEF IInv, Typed
  <2>2. halfOpen' \in [Shards -> BOOLEAN] /\ probes' \subseteq Calls
    BY <1>2 DEF IInv, Typed
  <2> QED
    BY <1>2, <1>3, <2>1, <2>2 DEF IInv, Typed, permits, locks
<1>5. Kept(Permitted) /\ Kept({"queued"}) /\ Kept(Locked) /\ Kept({"thread"})
  BY <1>2, <1>3 DEF Kept, Permitted, Locked
<1>6. PermitInv' /\ ThreadInv'
  BY <1>2, <1>5, PermitKept, ThreadKept DEF IInv
<1>7. /\ pc[c] \in Inside /\ pc'[c] \notin Inside
      /\ \A d \in Calls \ {c} : pc[d] \in Inside <=> pc'[d] \in Inside
  BY <1>2, <1>3 DEF Inside, Labels
<1>8. PlaceInv'
  <2>1. Cardinality(InOf(pc', Inside, s)) = Cardinality(InOf(pc, Inside, s)) - 1
    <3>1. InOf(pc', Inside, s) = InOf(pc, Inside, s) \ {c} /\ c \in InOf(pc, Inside, s)
      BY <1>1, <1>7 DEF InOf
    <3>2. IsFiniteSet(InOf(pc, Inside, s))
      BY InOfFinite
    <3> QED
      BY <3>1, <3>2, FS_RemoveElement
  <2>2. /\ admitted'[s] = admitted[s] - 1 /\ admitted[s] \in Int
        /\ \A r \in Shards \ {s} : admitted'[r] = admitted[r]
    BY <1>2 DEF IInv, Typed
  <2>3. PlacesOf(pc, admitted[s], s)'
    BY <2>1, <2>2, SupervisorAssumption DEF IInv, PlaceInv, PlacesOf, Capacity
  <2>4. \A d \in Calls : Shard(d) # s => (pc[d] \in Inside <=> pc'[d] \in Inside)
    BY <1>1, <1>7
  <2> QED
    BY <2>2, <2>3, <2>4, PlaceElsewhere DEF IInv
<1>9. ProbeInv'
  <2>1. ProbeOf(pc, halfOpen[s], probes, s) /\ probes \subseteq Calls
    BY DEF IInv, ProbeInv, Typed
  <2>2. ProbeOf(pc, halfOpen[s], probes, s)'
    <3>1. CASE c \in probes
      <4>1. probes' = probes \ {c} /\ ~halfOpen'[s]
        BY <1>2, <3>1 DEF IInv, Typed
      <4>2. \A d \in probes' : Shard(d) # s
        BY <1>1, <2>1, <3>1, <4>1 DEF ProbeOf
      <4> QED
        BY <4>1, <4>2 DEF ProbeOf
    <3>2. CASE c \notin probes
      <4>1. halfOpen'[s] = halfOpen[s] /\ probes' = probes
        BY <1>2, <3>2
      <4>2. \A d \in probes : Shard(d) = s => pc'[d] \in Inside
        BY <1>3, <2>1, <3>2 DEF ProbeOf
      <4> QED
        BY <2>1, <4>1, <4>2 DEF ProbeOf
    <3> QED
      BY <3>1, <3>2
  <2>3. \A r \in Shards \ {s} : halfOpen'[r] = halfOpen[r]
    BY <1>2 DEF IInv, Typed
  <2>4. \A d \in Calls : Shard(d) # s => (pc[d] \in Inside <=> pc'[d] \in Inside)
    BY <1>1, <1>7
  <2>5. \A d \in probes \cup probes' : Shard(d) # s => (d \in probes <=> d \in probes')
    BY <1>1, <1>2
  <2> QED
    BY <2>1, <2>2, <2>3, <2>4, <2>5, ProbeElsewhere DEF IInv
<1>10. QueueInv'
  BY <1>2, <1>3 DEF IInv, QueueInv
<1>11. ClosedInv'
  BY <1>2 DEF IInv, ClosedInv, closing, permits
<1> QED
  BY <1>4, <1>6, <1>8, <1>9, <1>10, <1>11 DEF IInv

LEMMA AbortStep ==
  ASSUME IInv, NEW c \in Calls, Abort(c)
  PROVE  IInv'
<1>1. PICK s \in Shards : s = Shard(c)
  BY ShardOfCall
<1>2. PICK t \in Threads : t = ThreadOf[c]
  BY ShardOfCall
<1>3. /\ aborted' = aborted \cup {c}
      /\ UNCHANGED <<holder, admitted, inflight, circuit, backend, close>>
      /\ UNCHANGED <<failures, cool, halfOpen, probes>>
  BY DEF Abort, circuit
<1>4. pc \in [Calls -> Labels] /\ probes \subseteq Calls
  BY DEF IInv, Typed
<1>5. CASE pc[c] = "thread"
  <2>1. /\ line' = [line EXCEPT ![t] = Without(@, c)] /\ pc' = Moved(c, "leaving")
        /\ UNCHANGED waiters
    BY <1>2, <1>5 DEF Abort
  <2>2. pc' \in [Calls -> Labels] /\ pc'[c] = "leaving" /\ \A d \in Calls \ {c} : pc'[d] = pc[d]
    BY <1>4, <2>1 DEF Moved, Labels
  <2>3. Typed'
    BY <1>3, <2>1, <2>2 DEF IInv, Typed
  <2>4. Kept(Permitted) /\ Kept({"queued"}) /\ Kept(Inside)
    BY <1>5, <2>2 DEF Kept, Permitted, Inside, Labels
  <2>5. PermitInv' /\ PlaceInv' /\ ProbeInv'
    BY <1>3, <1>4, <2>1, <2>4, PermitKept, PlaceKept, ProbeKept DEF IInv, permits
  <2>6. ThreadInv'
    <3>1. TurnsOf(pc, holder[t], line[t], t)
      BY DEF IInv, ThreadInv
    <3>2. c \in LineOf(pc, t) /\ LineOf(pc', t) = LineOf(pc, t) \ {c}
      BY <1>2, <1>5, <2>2 DEF LineOf
    <3>3. /\ line'[t] = Without(line[t], c) /\ holder' = holder
          /\ \A u \in Threads \ {t} : holder'[u] = holder[u] /\ line'[u] = line[u]
      BY <1>3, <2>1 DEF IInv, Typed
    <3>4. Lists(line'[t], LineOf(pc', t))
      BY <3>1, <3>2, <3>3, ListsWithout DEF TurnsOf
    <3>5. line[t] # <<>>
      BY <3>1, <3>2, ListsNobody DEF TurnsOf
    <3>6. TurnsOf(pc, holder[t], line[t], t)'
      BY <1>5, <2>2, <3>1, <3>3, <3>4, <3>5 DEF TurnsOf, Locked, Permitted
    <3>7. \A d \in Calls : ThreadOf[d] # t =>
            (pc[d] \in Locked <=> pc'[d] \in Locked) /\ (pc[d] = "thread" <=> pc'[d] = "thread")
      BY <1>2, <2>2
    <3> QED
      BY <3>3, <3>6, <3>7, ThreadElsewhere DEF IInv
  <2>7. QueueInv'
    BY <1>3, <2>2 DEF IInv, QueueInv
  <2>8. ClosedInv'
    BY <1>3, <2>1, ClosedKept DEF IInv
  <2> QED
    BY <2>3, <2>5, <2>6, <2>7, <2>8 DEF IInv
<1>6. CASE pc[c] = "queued"
  <2>1. /\ waiters' = [waiters EXCEPT ![s] = Without(@, c)] /\ pc' = Moved(c, "unlocking")
        /\ UNCHANGED line
    BY <1>1, <1>6 DEF Abort
  <2>2. pc' \in [Calls -> Labels] /\ pc'[c] = "unlocking" /\ \A d \in Calls \ {c} : pc'[d] = pc[d]
    BY <1>4, <2>1 DEF Moved, Labels
  <2>3. Typed'
    BY <1>3, <2>1, <2>2 DEF IInv, Typed
  <2>4. Kept(Locked) /\ Kept({"thread"}) /\ Kept(Inside)
    BY <1>6, <2>2 DEF Kept, Permitted, Inside, Labels, Locked
  <2>5. ThreadInv' /\ PlaceInv' /\ ProbeInv'
    BY <1>3, <1>4, <2>1, <2>4, ThreadKept, PlaceKept, ProbeKept DEF IInv, locks
  <2>6. /\ PermitsOf(pc, inflight[s], waiters[s], s)
        /\ c \in InOf(pc, {"queued"}, s)
    BY <1>1, <1>6 DEF IInv, PermitInv, InOf
  <2>7. waiters[s] # <<>>
    BY <2>6, ListsNobody DEF PermitsOf
  <2>8. /\ waiters'[s] = Without(waiters[s], c)
        /\ \A r \in Shards \ {s} : inflight'[r] = inflight[r] /\ waiters'[r] = waiters[r]
    BY <1>3, <2>1 DEF IInv, Typed
  <2>9. PermitInv'
    <3>1. /\ InOf(pc', {"queued"}, s) = InOf(pc, {"queued"}, s) \ {c}
          /\ InOf(pc', Permitted, s) = InOf(pc, Permitted, s)
      BY <1>1, <1>6, <2>2 DEF InOf, Permitted
    <3>2. Lists(waiters'[s], InOf(pc', {"queued"}, s))
      BY <2>6, <2>8, <3>1, ListsWithout DEF PermitsOf
    <3>3. PermitsOf(pc, inflight[s], waiters[s], s)'
      BY <1>3, <2>6, <2>7, <3>1, <3>2 DEF PermitsOf
    <3>4. \A d \in Calls : Shard(d) # s =>
            (pc[d] \in Permitted <=> pc'[d] \in Permitted) /\ (pc[d] = "queued" <=> pc'[d] = "queued")
      BY <1>1, <2>2
    <3> QED
      BY <2>8, <3>3, <3>4, PermitElsewhere DEF IInv
  <2>10. QueueInv'
    BY <1>3, <2>2 DEF IInv, QueueInv
  <2>11. ClosedInv'
    BY <1>3, <2>7 DEF IInv, ClosedInv, closing
  <2> QED
    BY <2>3, <2>5, <2>9, <2>10, <2>11 DEF IInv
<1>7. CASE pc[c] \notin {"thread", "queued"}
  <2>1. UNCHANGED <<line, pc, waiters>>
    BY <1>7 DEF Abort
  <2>2. Kept(Permitted) /\ Kept({"queued"}) /\ Kept(Inside) /\ Kept(Locked) /\ Kept({"thread"})
    BY <2>1, StillKeeps
  <2>3. UNCHANGED <<locks, admitted, permits, halfOpen, probes>>
    BY <1>3, <2>1 DEF locks, permits
  <2>4. /\ pc' \in [Calls -> Labels] /\ aborted' \subseteq Calls /\ backend' \in [Shards -> Backends]
        /\ failures' \in [Shards -> Nat] /\ cool' \in [Shards -> {Closed} \cup 0..Cooldown]
        /\ close' \in {"open", "draining", "drained", "shutdown", "timedout"}
        /\ cool' = cool /\ close' = close
    BY <1>3, <2>1 DEF IInv, Typed
  <2> QED
    BY <2>2, <2>3, <2>4, SimpleStep
<1> QED
  BY <1>5, <1>6, <1>7

\* Nobody waits when close() has begun.
LEMMA CloseStep ==
  ASSUME IInv, Close
  PROVE  IInv'
<1>1. /\ close = "open" /\ close' \in {"drained", "draining"}
      /\ waiters' = [s \in Shards |-> <<>>] /\ line' = [t \in Threads |-> <<>>]
      /\ pc' = [c \in Calls |-> CASE pc[c] = "queued" -> "unlocking"
                                  [] pc[c] = "thread" -> "leaving"
                                  [] OTHER -> pc[c]]
      /\ UNCHANGED <<aborted, holder, admitted, inflight, circuit, backend>>
  BY DEF Close
<1>2. UNCHANGED <<failures, cool, halfOpen, probes>>
  BY <1>1 DEF circuit
<1>3. \A c \in Calls : pc'[c] = IF pc[c] = "queued" THEN "unlocking"
                                ELSE IF pc[c] = "thread" THEN "leaving" ELSE pc[c]
  BY <1>1
<1>4. pc' \in [Calls -> Labels]
  <2>1. \A c \in Calls : pc[c] \in Labels
    BY DEF IInv, Typed
  <2>2. \A c \in Calls : pc'[c] \in Labels
    BY <1>3, <2>1 DEF Labels
  <2> QED
    BY <1>1, <2>2
<1>5. Typed'
  BY <1>1, <1>2, <1>4 DEF IInv, Typed
<1>6. Kept(Permitted) /\ Kept(Inside) /\ Kept(Locked)
  BY <1>3 DEF Kept, Permitted, Inside, Locked, Labels
<1>7. PlaceInv' /\ ProbeInv'
  BY <1>1, <1>2, <1>6, PlaceKept, ProbeKept DEF IInv, Typed
<1>8. PermitInv'
  <2>1. ASSUME NEW s \in Shards PROVE PermitsOf(pc, inflight[s], waiters[s], s)'
    <3>1. InOf(pc', Permitted, s) = InOf(pc, Permitted, s)
      BY <1>6, SameIn DEF Kept
    <3>2. InOf(pc', {"queued"}, s) = {}
      BY <1>3 DEF InOf
    <3>3. waiters'[s] = <<>>
      BY <1>1
    <3> QED
      BY <1>1, <3>1, <3>2, <3>3, EmptyLists DEF IInv, PermitInv, PermitsOf
  <2> QED
    BY <2>1 DEF PermitInv
<1>9. ThreadInv'
  <2>1. ASSUME NEW t \in Threads PROVE TurnsOf(pc, holder[t], line[t], t)'
    <3>1. LineOf(pc', t) = {}
      BY <1>3 DEF LineOf
    <3>2. line'[t] = <<>> /\ holder'[t] = holder[t]
      BY <1>1
    <3>3. \A c \in Calls : pc[c] \in Locked <=> pc'[c] \in Locked
      BY <1>6 DEF Kept
    <3> QED
      BY <3>1, <3>2, <3>3, EmptyLists DEF IInv, ThreadInv, TurnsOf
  <2> QED
    BY <2>1 DEF ThreadInv
<1>10. QueueInv' /\ ClosedInv'
  BY <1>1, <1>3 DEF QueueInv, ClosedInv
<1> QED
  BY <1>5, <1>7, <1>8, <1>9, <1>10 DEF IInv

LEMMA FactoryDoneStep ==
  ASSUME IInv, NEW s \in Shards, FactoryDone(s)
  PROVE  IInv'
<1>1. PICK l \in {"running", "broken"} : pc' = MovedAll(In({"starting"}, s), pc, l)
  BY DEF FactoryDone
<1>2. /\ UNCHANGED <<aborted, locks, admitted, permits, circuit, close>>
      /\ backend' \in [Shards -> Backends]
  BY DEF FactoryDone, IInv, Typed, Backends
<1>3. \A c \in Calls : pc'[c] = pc[c] \/ (pc[c] = "starting" /\ pc'[c] = l)
  BY <1>1 DEF MovedAll, In
<1>4. pc' \in [Calls -> Labels]
  BY <1>1 DEF MovedAll, IInv, Typed, Labels
<1>5. Kept(Permitted) /\ Kept({"queued"}) /\ Kept(Inside) /\ Kept(Locked) /\ Kept({"thread"})
  BY <1>3 DEF Kept, Permitted, Inside, Locked, Labels
<1>6. UNCHANGED <<failures, cool, halfOpen, probes>>
  BY <1>2 DEF circuit
<1>7. /\ aborted' \subseteq Calls /\ failures' \in [Shards -> Nat]
      /\ cool' \in [Shards -> {Closed} \cup 0..Cooldown] /\ cool' = cool
      /\ close' \in {"open", "draining", "drained", "shutdown", "timedout"} /\ close' = close
  BY <1>2, <1>6 DEF IInv, Typed
<1> QED
  BY <1>2, <1>4, <1>5, <1>6, <1>7, SimpleStep

\* The clock, close() behind its first await, the backends, and steps of others.
LEMMA QuietStep ==
  ASSUME IInv,
         \/ \E s \in Shards : Tick(s) \/ BackendCloses(s)
         \/ ShutDown \/ DrainTimesOut \/ UNCHANGED vars
  PROVE  IInv'
<1>1. UNCHANGED <<pc, aborted, locks, admitted, permits, failures, halfOpen, probes>>
  BY DEF Tick, BackendCloses, ShutDown, DrainTimesOut, vars, circuit
<1>2. Kept(Permitted) /\ Kept({"queued"}) /\ Kept(Inside) /\ Kept(Locked) /\ Kept({"thread"})
  BY <1>1, StillKeeps
<1>3. backend' \in [Shards -> Backends]
  <2>1. backend \in [Shards -> Backends]
    BY DEF IInv, Typed
  <2>2. CASE UNCHANGED backend
    BY <2>1, <2>2
  <2>3. CASE backend' = ClosingBackends
    BY <2>1, <2>3 DEF ClosingBackends, Backends
  <2>4. ASSUME NEW s \in Shards, BackendCloses(s) PROVE backend' \in [Shards -> Backends]
    BY <2>1, <2>4 DEF BackendCloses, Backends
  <2> QED
    BY <2>2, <2>3, <2>4 DEF Tick, ShutDown, DrainTimesOut, vars
<1>4. /\ cool' \in [Shards -> {Closed} \cup 0..Cooldown]
      /\ \A s \in Shards : cool'[s] # Closed => cool[s] # Closed
  <2>1. cool \in [Shards -> {Closed} \cup 0..Cooldown]
    BY DEF IInv, Typed
  <2>2. CASE UNCHANGED cool
    BY <2>1, <2>2
  <2>3. ASSUME NEW s \in Shards, Tick(s)
        PROVE  /\ cool' \in [Shards -> {Closed} \cup 0..Cooldown]
               /\ \A r \in Shards : cool'[r] # Closed => cool[r] # Closed
    <3>1. cool[s] \in 1..Cooldown /\ cool' = [cool EXCEPT ![s] = @ - 1]
      BY <2>1, <2>3, SupervisorAssumption DEF Tick, Closed
    <3>2. cool[s] - 1 \in 0..Cooldown /\ cool[s] # Closed
      BY <3>1, SupervisorAssumption DEF Closed
    <3> QED
      BY <2>1, <3>1, <3>2
  <2> QED
    BY <2>2, <2>3 DEF BackendCloses, ShutDown, DrainTimesOut, vars, circuit
<1>5. /\ close' \in {"open", "draining", "drained", "shutdown", "timedout"}
      /\ close' # "open" => close # "open"
  BY DEF Tick, BackendCloses, ShutDown, DrainTimesOut, vars, IInv, Typed
<1>6. aborted' \subseteq Calls /\ failures' \in [Shards -> Nat]
  BY <1>1 DEF IInv, Typed
<1>7. UNCHANGED <<locks, admitted, permits, halfOpen, probes>> /\ pc' \in [Calls -> Labels]
  BY <1>1 DEF IInv, Typed
<1> QED
  BY <1>2, <1>3, <1>4, <1>5, <1>6, <1>7, SimpleStep

-----------------------------------------------------------------------------
(* The invariant holds. *)

LEMMA InitIInv == Init => IInv
<1> SUFFICES ASSUME Init PROVE IInv
  OBVIOUS
<1>1. Typed
  BY SupervisorAssumption DEF Init, Typed, Labels, Backends, Closed
<1>2. \A c \in Calls : pc[c] = "idle"
  BY DEF Init
<1>3. ASSUME NEW s \in Shards
      PROVE  /\ InOf(pc, Permitted, s) = {} /\ InOf(pc, {"queued"}, s) = {} /\ InOf(pc, Inside, s) = {}
             /\ inflight[s] = 0 /\ waiters[s] = <<>> /\ admitted[s] = 0
  BY <1>2 DEF InOf, Permitted, Inside, Labels, Init
<1>4. Cardinality({}) = 0 /\ MaxInflight \in Nat /\ Capacity \in Nat
  BY FS_EmptySet, SupervisorAssumption DEF Capacity
<1>5. PermitInv /\ PlaceInv
  <2>1. ASSUME NEW s \in Shards
        PROVE  PermitsOf(pc, inflight[s], waiters[s], s) /\ PlacesOf(pc, admitted[s], s)
    <3>1. 0 <= MaxInflight /\ 0 <= Capacity
      BY <1>4
    <3>2. PermitsOf(pc, inflight[s], waiters[s], s)
      BY <1>3, <1>4, <3>1, EmptyLists DEF PermitsOf
    <3>3. PlacesOf(pc, admitted[s], s)
      BY <1>3, <1>4, <3>1 DEF PlacesOf
    <3> QED
      BY <3>2, <3>3
  <2> QED
    BY <2>1 DEF PermitInv, PlaceInv
<1>6. ThreadInv
  <2>1. ASSUME NEW t \in Threads PROVE TurnsOf(pc, holder[t], line[t], t)
    <3>1. LineOf(pc, t) = {} /\ line[t] = <<>> /\ holder[t] = None
      BY <1>2 DEF LineOf, Init
    <3> QED
      BY <1>2, <3>1, EmptyLists DEF TurnsOf, Locked, Permitted
  <2> QED
    BY <2>1 DEF ThreadInv
<1>7. ProbeInv
  <2>1. probes = {} /\ \A s \in Shards : ~halfOpen[s]
    BY DEF Init
  <2> QED
    BY <2>1 DEF ProbeInv, ProbeOf
<1>8. QueueInv /\ ClosedInv
  BY <1>2 DEF QueueInv, ClosedInv, closing, Init
<1> QED
  BY <1>1, <1>5, <1>6, <1>7, <1>8 DEF IInv

LEMMA NextIInv == IInv /\ [Next]_vars => IInv'
<1> SUFFICES ASSUME IInv, [Next]_vars PROVE IInv'
  OBVIOUS
<1>1. ASSUME NEW c \in Calls, CallStep(c) PROVE IInv'
  BY <1>1, RunStep, AcquirePermitStep, EnsureBackendStep, UnlockStep, LeaveStep DEF CallStep
<1>2. ASSUME NEW c \in Calls, Answer(c) PROVE IInv'
  BY <1>2, SucceedStep, FailStep, FailTransportStep DEF Answer
<1>3. ASSUME NEW c \in Calls, Abort(c) PROVE IInv'
  BY <1>3, AbortStep
<1>4. ASSUME NEW s \in Shards, FactoryDone(s) PROVE IInv'
  BY <1>4, FactoryDoneStep
<1>5. CASE Close
  BY <1>5, CloseStep
<1>6. CASE \/ \E s \in Shards : Tick(s) \/ BackendCloses(s)
           \/ ShutDown \/ DrainTimesOut \/ UNCHANGED vars
  BY <1>6, QuietStep
<1> QED
  BY <1>1, <1>2, <1>3, <1>4, <1>5, <1>6 DEF Next

LEMMA Invariant == Spec => []IInv
BY InitIInv, NextIInv, PTL DEF Spec

\* Every variable keeps its type: queues hold calls, and no counter of permits
\* or places leaves its range.
THEOREM SupervisorTypeCorrect == Spec => []TypeOK
<1>1. IInv => TypeOK
  <2> SUFFICES ASSUME IInv PROVE TypeOK
    OBVIOUS
  <2>1. Typed
    BY DEF IInv
  <2>2. ASSUME NEW s \in Shards
        PROVE  waiters[s] \in Seq(Calls) /\ inflight[s] \in 0..MaxInflight /\ admitted[s] \in 0..Capacity
    <3>1. waiters[s] \in Seq(InOf(pc, {"queued"}, s)) /\ InOf(pc, {"queued"}, s) \subseteq Calls
      BY DEF IInv, PermitInv, PermitsOf, Lists, InOf
    <3>2. waiters[s] \in Seq(Calls)
      BY <3>1, SeqMonotonic
    <3>3. inflight[s] = Cardinality(InOf(pc, Permitted, s)) /\ inflight[s] <= MaxInflight
      BY DEF IInv, PermitInv, PermitsOf
    <3>4. admitted[s] = Cardinality(InOf(pc, Inside, s)) /\ admitted[s] <= Capacity
      BY DEF IInv, PlaceInv, PlacesOf
    <3> QED
      BY <3>2, <3>3, <3>4, InOfFinite, SupervisorAssumption DEF Capacity
  <2>3. ASSUME NEW t \in Threads PROVE line[t] \in Seq(Calls)
    <3>1. line[t] \in Seq(LineOf(pc, t)) /\ LineOf(pc, t) \subseteq Calls
      BY DEF IInv, ThreadInv, TurnsOf, Lists, LineOf
    <3> QED
      BY <3>1, SeqMonotonic
  <2>4. line \in [Threads -> Seq(Calls)] /\ waiters \in [Shards -> Seq(Calls)]
    BY <2>1, <2>2, <2>3 DEF Typed
  <2>5. inflight \in [Shards -> 0..MaxInflight] /\ admitted \in [Shards -> 0..Capacity]
    BY <2>1, <2>2 DEF Typed
  <2> QED
    BY <2>1, <2>4, <2>5 DEF Typed, TypeOK
<1> QED
  BY <1>1, Invariant, PTL

-----------------------------------------------------------------------------
(* Nothing is lost. *)

\* A call that has a turn is inside beside those that have a permit and those
\* that wait for one, and a shard has no more places than Capacity.
LEMMA RoomInQueue ==
  ASSUME IInv, NEW s \in Shards, In({"turn"}, s) # {}, inflight[s] >= MaxInflight
  PROVE  Len(waiters[s]) < MaxQueue
<1> DEFINE P == InOf(pc, Permitted, s)
           Q == InOf(pc, {"queued"}, s)
           I == InOf(pc, Inside, s)
<1>1. PICK c \in Calls : Shard(c) = s /\ pc[c] = "turn"
  BY DEF In
<1>2. /\ inflight[s] = Cardinality(P) /\ inflight[s] <= MaxInflight /\ Lists(waiters[s], Q)
      /\ Cardinality(I) <= Capacity
  BY DEF IInv, PermitInv, PermitsOf, PlaceInv, PlacesOf
<1>3. P \cap Q = {} /\ c \notin P \cup Q /\ (P \cup Q) \cup {c} \subseteq I
  BY <1>1 DEF InOf, Permitted, Inside, Labels
<1>4. /\ IsFiniteSet(P) /\ IsFiniteSet(Q) /\ IsFiniteSet(I)
      /\ Cardinality(P) \in Nat /\ Cardinality(Q) \in Nat /\ Cardinality(I) \in Nat
  BY InOfFinite
<1> HIDE DEF P, Q, I
<1>5. Cardinality(P \cap Q) = 0
  BY <1>3, FS_EmptySet
<1>6. IsFiniteSet(P \cup Q) /\ Cardinality(P \cup Q) = Cardinality(P) + Cardinality(Q)
  BY <1>4, <1>5, FS_Union
<1>7. Cardinality((P \cup Q) \cup {c}) = Cardinality(P \cup Q) + 1
  BY <1>3, <1>6, FS_AddElement
<1>8. Cardinality((P \cup Q) \cup {c}) <= Cardinality(I)
  BY <1>3, <1>4, FS_Subset
<1>9. Len(waiters[s]) = Cardinality(Q)
  BY <1>2, ListsLength
<1> QED
  BY <1>2, <1>4, <1>6, <1>7, <1>8, <1>9, SupervisorAssumption DEF Capacity

\* Permits, places, turns and the probe are never lost or handed out twice, in
\* whatever order calls, aborts, rejections, startups and close() fall: the
\* counters and queues of the supervisor and the mutexes of the threads.
THEOREM NothingIsLost == Spec => []NothingLost
<1>1. IInv => NothingLost
  <2> SUFFICES ASSUME IInv PROVE NothingLost
    OBVIOUS
  <2>1. CapacityHolds
    <3>1. ASSUME NEW s \in Shards
          PROVE  /\ inflight[s] = Cardinality(In(Permitted, s))
                 /\ admitted[s] = Cardinality(In(Inside, s)) /\ admitted[s] <= Capacity
      BY DEF IInv, PermitInv, PermitsOf, PlaceInv, PlacesOf, In, InOf
    <3> QED
      BY <3>1, RoomInQueue DEF CapacityHolds
  <2>2. NoLostHandover
    <3>1. ASSUME NEW c \in Calls, pc[c] = "queued" PROVE inflight[Shard(c)] = MaxInflight
      <4>1. PICK s \in Shards : s = Shard(c)
        BY ShardOfCall
      <4>2. c \in InOf(pc, {"queued"}, s) /\ PermitsOf(pc, inflight[s], waiters[s], s)
        BY <3>1, <4>1 DEF InOf, IInv, PermitInv
      <4> QED
        BY <4>1, <4>2, ListsNobody DEF PermitsOf
    <3>2. ASSUME NEW c \in Calls, pc[c] = "thread" PROVE holder[ThreadOf[c]] # None
      <4>1. PICK t \in Threads : t = ThreadOf[c]
        BY ShardOfCall
      <4>2. c \in LineOf(pc, t) /\ TurnsOf(pc, holder[t], line[t], t)
        BY <3>2, <4>1 DEF LineOf, IInv, ThreadInv
      <4> QED
        BY <4>1, <4>2, ListsNobody DEF TurnsOf
    <3>3. ASSUME NEW t \in Threads, holder[t] # None
          PROVE  ThreadOf[holder[t]] = t /\ pc[holder[t]] \in Locked
      BY <3>3 DEF IInv, ThreadInv, TurnsOf
    <3>4. ASSUME NEW c \in Calls, pc[c] \in Locked PROVE holder[ThreadOf[c]] = c
      BY <3>4, ShardOfCall DEF IInv, ThreadInv, TurnsOf
    <3> QED
      BY <3>1, <3>2, <3>3, <3>4 DEF NoLostHandover
  <2>3. OneProbe
    <3>1. ASSUME NEW s \in Shards, NEW inside, inside = {c \in probes : Shard(c) = s}
          PROVE  (halfOpen[s] <=> inside # {}) /\ Cardinality(inside) <= 1 /\ inside \subseteq In(Inside, s)
      <4>1. ProbeOf(pc, halfOpen[s], probes, s) /\ probes \subseteq Calls
        BY DEF IInv, ProbeInv, Typed
      <4>2. inside \subseteq In(Inside, s)
        BY <3>1, <4>1 DEF ProbeOf, In
      <4>3. halfOpen[s] <=> inside # {}
        BY <3>1, <4>1 DEF ProbeOf
      <4>4. inside = {} \/ \E c : inside = {c}
        BY <3>1, <4>1 DEF ProbeOf
      <4>5. Cardinality(inside) <= 1
        <5>1. CASE inside = {}
          BY <5>1, FS_EmptySet
        <5>2. ASSUME NEW c, inside = {c} PROVE Cardinality(inside) <= 1
          <6>1. Cardinality(inside) = 1
            BY <5>2, FS_Singleton
          <6> QED
            BY <6>1
        <5> QED
          BY <4>4, <5>1, <5>2
      <4> QED
        BY <4>2, <4>3, <4>5
    <3> QED
      BY <3>1 DEF OneProbe
  <2> QED
    BY <2>1, <2>2, <2>3 DEF NothingLost
<1> QED
  BY <1>1, Invariant, PTL

\* While the circuit of a shard is open only the call that was let in as its
\* probe gets a permit: who waited when it opened has been rejected.
THEOREM ProbesOnly == Spec => OpenGrantsProbe
<1> DEFINE A(d) == pc[d] # "granted" /\ pc'[d] = "granted" /\ cool'[Shard(d)] # Closed => d \in probes
<1>1. ASSUME IInv, [Next]_vars PROVE \A d \in Calls : A(d)
  <2>1. ASSUME NEW c \in Calls, AcquirePermit(c) \/ Answer(c) PROVE \A d \in Calls : A(d)
    BY <1>1, <2>1, AcquirePermitStep, SucceedStep, FailStep, FailTransportStep DEF Answer
  <2>2. pc \in [Calls -> Labels]
    BY <1>1 DEF IInv, Typed
  <2>3. ASSUME NEW c \in Calls, Run(c) \/ EnsureBackend(c) \/ Abort(c) PROVE \A d \in Calls : A(d)
    BY <2>2, <2>3 DEF Run, EnsureBackend, Abort, Moved
  <2>4. ASSUME NEW c \in Calls, Unlock(c) \/ Leave(c) PROVE \A d \in Calls : A(d)
    BY <2>2, <2>4 DEF Unlock, Leave, Moved
  <2>5. ASSUME NEW s \in Shards, FactoryDone(s) PROVE \A d \in Calls : A(d)
    BY <2>5 DEF FactoryDone, MovedAll
  <2>6. CASE \/ \E s \in Shards : Tick(s) \/ BackendCloses(s)
             \/ ShutDown \/ DrainTimesOut \/ UNCHANGED vars
    BY <2>6 DEF Tick, BackendCloses, ShutDown, DrainTimesOut, vars
  <2>7. CASE Close
    BY <2>7 DEF Close
  <2> QED
    BY <1>1, <2>1, <2>3, <2>4, <2>5, <2>6, <2>7 DEF Next, CallStep
<1>2. IInv /\ [Next]_vars =>
        [\A c \in Calls :
           pc[c] # "granted" /\ pc'[c] = "granted" /\ cool'[Shard(c)] # Closed => c \in probes]_vars
  BY <1>1
<1> QED
  BY <1>2, Invariant, PTL DEF Spec, OpenGrantsProbe

-----------------------------------------------------------------------------
(* The session of a shard: its queue of calls that await a slot. *)

\* The first n of a queue, and the others.
First(queue, n) == {queue[i] : i \in 1..n}
Others(queue, n) == SubSeq(queue, n + 1, Len(queue))

LEMMA ListsFirst ==
  ASSUME NEW S, NEW queue, Lists(queue, S), NEW n \in 0..Len(queue)
  PROVE  /\ First(queue, n) \subseteq S
         /\ IsFiniteSet(First(queue, n)) /\ Cardinality(First(queue, n)) = n
         /\ Lists(Others(queue, n), S \ First(queue, n))
         /\ Len(Others(queue, n)) = Len(queue) - n
<1> DEFINE L == Len(queue)
           q == SubSeq(queue, n + 1, L)
           G == {queue[i] : i \in 1..n}
<1>1. L \in Nat /\ n \in Nat /\ n <= L /\ \A i \in 1..L : queue[i] \in S
  BY LenProperties DEF Lists
<1> HIDE DEF L
<1>2. G \subseteq S
  BY <1>1
<1>3. IsFiniteSet(G) /\ Cardinality(G) = n
  <2> DEFINE f == [i \in 1..n |-> queue[i]]
  <2>1. f \in [1..n -> G]
    OBVIOUS
  <2>2. ASSUME NEW i \in 1..n, NEW j \in 1..n, f[i] = f[j] PROVE i = j
    <3>1. i \in 1..L /\ j \in 1..L /\ queue[i] = queue[j]
      BY <1>1, <2>2
    <3> QED
      BY <3>1 DEF Lists, L
  <2>3. \A x \in G : \E i \in 1..n : f[i] = x
    OBVIOUS
  <2> HIDE DEF f
  <2>4. f \in Bijection(1..n, G)
    BY <2>1, <2>2, <2>3, Fun_IsBij
  <2>5. ExistsBijection(1..n, G)
    BY <2>4 DEF ExistsBijection
  <2>6. IsFiniteSet(1..n) /\ Cardinality(1..n) = n
    BY <1>1, FS_Interval
  <2> QED
    BY <2>5, <2>6, FS_Bijection
<1>4. /\ Len(q) = L - n
      /\ \A i \in 1..Len(q) : i + n \in 1..L /\ q[i] = queue[i + n]
  <2>1. n + 1 \in Int /\ L \in Int /\ \A i \in (n + 1)..L : queue[i] \in S
    BY <1>1
  <2>2. /\ Len(q) = IF n + 1 <= L THEN L - (n + 1) + 1 ELSE 0
        /\ \A i \in 1..(L - (n + 1) + 1) : q[i] = queue[(n + 1) + i - 1]
    BY <2>1, SubSeqProperties
  <2>3. Len(q) = L - n /\ L - (n + 1) + 1 = L - n
    BY <1>1, <2>2
  <2>4. \A i \in 1..(L - n) : i + n \in 1..L /\ (n + 1) + i - 1 = i + n
    BY <1>1
  <2> QED
    BY <2>2, <2>3, <2>4
<1>5. \A i \in 1..Len(q) : q[i] \in S \ G
  <2> SUFFICES ASSUME NEW i \in 1..Len(q) PROVE q[i] \in S \ G
    OBVIOUS
  <2>1. i + n \in 1..L /\ q[i] = queue[i + n] /\ i + n > n
    BY <1>1, <1>4
  <2>2. \A k \in 1..n : k # i + n /\ k \in 1..L
    BY <1>1, <2>1
  <2>3. \A k \in 1..n : queue[k] # queue[i + n]
    BY <2>1, <2>2 DEF Lists, L
  <2> QED
    BY <1>1, <2>1, <2>3
<1>6. q \in Seq(S \ G)
  <2>1. n + 1 \in Int /\ L \in Int
    BY <1>1
  <2>2. \A j \in (n + 1)..L : queue[j] \in S \ G
    <3> SUFFICES ASSUME NEW j \in (n + 1)..L PROVE queue[j] \in S \ G
      OBVIOUS
    <3>1. j - n \in 1..Len(q) /\ (j - n) + n = j
      BY <1>1, <1>4
    <3>2. q[j - n] = queue[(j - n) + n]
      BY <1>4, <3>1
    <3> QED
      BY <1>5, <3>1, <3>2
  <2> QED
    BY <2>1, <2>2, SubSeqProperties
<1> HIDE DEF q
<1>7. ASSUME NEW i \in 1..Len(q), NEW j \in 1..Len(q), q[i] = q[j] PROVE i = j
  <2>1. i + n \in 1..L /\ j + n \in 1..L /\ queue[i + n] = queue[j + n]
    BY <1>4, <1>7
  <2>2. i + n = j + n
    BY <2>1 DEF Lists, L
  <2> QED
    BY <1>1, <2>2
<1>8. \A x \in S \ G : \E i \in 1..Len(q) : q[i] = x
  <2> SUFFICES ASSUME NEW x \in S \ G PROVE \E i \in 1..Len(q) : q[i] = x
    OBVIOUS
  <2>1. PICK k \in 1..L : queue[k] = x
    BY DEF Lists, L
  <2>2. ~ (k \in 1..n)
    BY <2>1
  <2>3. k - n \in 1..Len(q) /\ (k - n) + n = k
    BY <1>1, <1>4, <2>1, <2>2
  <2>4. q[k - n] = queue[(k - n) + n]
    BY <1>4, <2>3
  <2> QED
    BY <2>1, <2>3, <2>4
<1>9. Lists(q, S \ G)
  BY <1>6, <1>7, <1>8 DEF Lists
<1> QED
  BY <1>2, <1>3, <1>4, <1>9 DEF q, L, First, Others

-----------------------------------------------------------------------------
(* The session of a shard.  Its calls and threads are those of the         *)
(* supervisor, and the number of its slots is arbitrary as that of the     *)
(* permits is.                                                             *)

CONSTANT WithImages
VARIABLES at, signalled, lines, slots, waiting, known, stale, start, early, stop, session, turn

App == INSTANCE AppServer
  WITH MaxConcurrency <- MaxInflight, pc <- at, aborted <- signalled, line <- lines, queue <- waiting

\* The slots are those of at most MaxInflight calls, the queue holds the calls
\* that await one, and only while none is free.
SlotInv ==
  /\ slots \subseteq Calls /\ Cardinality(slots) <= MaxInflight
  /\ Lists(waiting, {c \in Calls : at[c] = "slot"})
  /\ waiting # <<>> => Cardinality(slots) = MaxInflight

Early == {"idle", "boot", "thread", "slot", "open", "images"}
Pending(c) == start[c] \in {"queued", "sent"}

\* Where a call, its requests and its turn stand together.
CallOk(c) ==
  /\ at[c] \in Early => start[c] = "none" /\ stop[c] = "none" /\ c \notin early
  /\ at[c] = "ask" => Pending(c)
  /\ at[c] = "turn" => start[c] = "over" /\ stop[c] = "none"
  /\ stop[c] # "none" => start[c] = "over"
  /\ Pending(c) => /\ session = "up" /\ stop[c] = "none"
                   /\ at[c] = "ask" \/ (at[c] = "settled" /\ c \in signalled /\ start[c] = "sent")
  /\ c \in signalled => at[c] = "settled" \/ (at[c] = "images" /\ c \in WithImages)

\* What the process may run has a slot, also if nobody has heard of it yet.
TurnOk(c) ==
  /\ start[c] \in {"none", "queued"} => turn[c] = "none"
  /\ turn[c] = "running" => session = "up" /\ c \in slots
  /\ c \in early => turn[c] = "ended"
  /\ start[c] = "sent" /\ turn[c] = "none" /\ c \notin stale => c \in slots

\* Who has a slot.
SlotOk(c) ==
  /\ c \in slots => at[c] \in App!InTurn \cup {"settled"}
  /\ at[c] \in App!InTurn /\ c \notin stale => c \in slots
  /\ c \in slots \ WithImages => App!InUse(c)

SessionTyped ==
  /\ at \in [Calls -> App!Labels] /\ signalled \subseteq Calls
  /\ lines \in [Threads -> Seq(Calls)]
  /\ known \subseteq Threads /\ stale \subseteq Calls /\ early \subseteq Calls
  /\ start \in [Calls -> {"none", "queued", "sent", "over"}]
  /\ stop \in [Calls -> {"none", "sent", "over"}]
  /\ session \in {"down", "starting", "up", "closed", "shut"}
  /\ turn \in [Calls -> {"none", "running", "ended"}]

CallsOk == \A c \in Calls : CallOk(c) /\ TurnOk(c) /\ SlotOk(c)

SessionInv == SessionTyped /\ SlotInv /\ CallsOk

-----------------------------------------------------------------------------
(* Slots change hands. *)

LEMMA LeastNumber ==
  ASSUME NEW B \in SUBSET Nat, B # {}
  PROVE  \E n \in B : \A m \in B : n <= m
<1> DEFINE R == OpToRel(<, Nat)
<1>1. IsWellFoundedOn(R, Nat)
  BY NatLessThanWellFounded
<1>2. \A x \in B, y \in B : y < x => <<y, x>> \in R
  BY DEF OpToRel
<1> HIDE DEF R
<1>3. PICK x \in B : \A y \in B : ~ (<<y, x>> \in R)
  BY <1>1, WFMin
<1>4. ASSUME NEW m \in B PROVE x <= m
  <2>1. m \in Nat /\ x \in Nat /\ ~ (m < x)
    BY <1>2, <1>3
  <2> QED
    BY <2>1
<1> QED
  BY <1>4

\* The calls that remain in a queue are a queue of the same calls.
LEMMA RemainingCalls ==
  ASSUME NEW S, NEW queue \in Seq(S), NEW gone
  PROVE  App!Remaining(queue, gone) \in Seq(S)
<1> DEFINE Body(g, i) == IF i = 0 THEN <<>>
                         ELSE IF queue[i] \in gone THEN g[i - 1] ELSE Append(g[i - 1], queue[i])
           Fits(g, n) == g = [i \in 0..n |-> Body(g, i)]
           N == Len(queue)
           kept == CHOOSE g : Fits(g, N)
           B == {n \in 0..N : ~ \E g : Fits(g, n)}
           C == {n \in 0..N : kept[n] \notin Seq(S)}
<1>0. N \in Nat /\ \A i \in 1..N : queue[i] \in S
  OBVIOUS
<1>1. App!Remaining(queue, gone) = kept[N]
  BY DEF App!Remaining
<1>2. B = {}
  <2> SUFFICES ASSUME B # {} PROVE FALSE
    OBVIOUS
  <2>0. B \in SUBSET Nat
    BY <1>0
  <2> HIDE DEF B, Fits
  <2>1. PICK n \in B : \A m \in B : n <= m
    BY <2>0, LeastNumber
  <2>2. n \in 0..N /\ ~ \E g : Fits(g, n)
    BY DEF B
  <2>3. CASE n = 0
    <3>1. Fits([i \in 0..n |-> <<>>], n)
      BY <2>3 DEF Fits
    <3> QED
      BY <2>2, <3>1
  <2>4. CASE n # 0
    <3>1. n - 1 \in 0..N /\ ~ (n <= n - 1) /\ n - 1 \notin B
      BY <1>0, <2>1, <2>2, <2>4
    <3>2. PICK g : Fits(g, n - 1)
      BY <3>1 DEF B
    <3> DEFINE h == [i \in 0..n |-> IF i = n THEN Body(g, n) ELSE g[i]]
    <3> HIDE DEF Body
    <3>3. h[n] = Body(g, n) /\ \A i \in 0..(n - 1) : h[i] = g[i] /\ g[i] = Body(g, i)
      <4>1. g = [i \in 0..(n - 1) |-> Body(g, i)]
        BY <3>2 DEF Fits
      <4>2. \A i \in 0..(n - 1) : g[i] = Body(g, i)
        BY <4>1
      <4>3. h[n] = Body(g, n) /\ \A i \in 0..(n - 1) : h[i] = g[i]
        BY <2>2, <2>4
      <4> QED
        BY <4>2, <4>3
    <3> HIDE DEF h
    <3>4. \A i \in 0..n : Body(h, i) = Body(g, i)
      BY <2>2, <2>4, <3>3 DEF Body
    <3>5. \A i \in 0..n : h[i] = Body(h, i)
      BY <2>2, <2>4, <3>3, <3>4
    <3>6. h = [i \in 0..n |-> Body(h, i)]
      BY <3>5 DEF h
    <3>7. Fits(h, n)
      BY <3>6 DEF Fits
    <3> QED
      BY <2>2, <3>7
  <2> QED
    BY <2>3, <2>4
<1>3. Fits(kept, N)
  <2>0. N \in 0..N
    BY <1>0
  <2> HIDE DEF Fits
  <2>1. \E g : Fits(g, N)
    BY <1>2, <2>0
  <2> QED
    BY <2>1
<1>4. \A i \in 0..N : kept[i] = Body(kept, i)
  BY <1>3
<1> HIDE DEF kept
<1>5. C = {}
  <2> SUFFICES ASSUME C # {} PROVE FALSE
    OBVIOUS
  <2>0. C \in SUBSET Nat
    BY <1>0
  <2> HIDE DEF C
  <2>1. PICK n \in C : \A m \in C : n <= m
    BY <2>0, LeastNumber
  <2>2. n \in 0..N /\ kept[n] \notin Seq(S) /\ kept[n] = Body(kept, n)
    BY <1>4 DEF C
  <2>3. n # 0
    BY <2>2
  <2>4. n - 1 \in 0..N /\ ~ (n <= n - 1) /\ n - 1 \notin C
    BY <1>0, <2>1, <2>2, <2>3
  <2>5. kept[n - 1] \in Seq(S) /\ queue[n] \in S
    BY <1>0, <2>2, <2>3, <2>4 DEF C
  <2> QED
    BY <2>2, <2>3, <2>5
<1> QED
  BY <1>0, <1>1, <1>5

\* A move of d, or a slot that was handed to it.
Passive(d) == \/ at'[d] = at[d] /\ (d \in slots' <=> d \in slots)
              \/ at[d] = "slot" /\ at'[d] = "open" /\ d \in slots'

LEMMA SlotKept ==
  ASSUME SlotInv, slots' = slots, waiting' = waiting,
         \A d \in Calls : at[d] = "slot" <=> at'[d] = "slot"
  PROVE  SlotInv'
<1>1. {c \in Calls : at'[c] = "slot"} = {c \in Calls : at[c] = "slot"}
  OBVIOUS
<1> QED
  BY <1>1 DEF SlotInv

\* The module of the session has its own copy of Cardinality.
LEMMA SizeOf == \A S : App!Cardinality(S) = Cardinality(S)
BY DEF App!Cardinality, Cardinality

\* The slots of X are released, and the first who wait get them.
LEMMA HandoverStep ==
  ASSUME SlotInv, \A d \in slots : at[d] # "slot",
         NEW next \in [Calls -> App!Labels], \A d \in Calls : next[d] = "slot" <=> at[d] = "slot",
         NEW X, App!Handover(X, next)
  PROVE  /\ SlotInv' /\ at' \in [Calls -> App!Labels]
         /\ \E G \in SUBSET Calls :
              /\ \A d \in G : at[d] = "slot"
              /\ slots' = (slots \ X) \cup G
              /\ \A d \in Calls : at'[d] = IF d \in G THEN "open" ELSE next[d]
<1> DEFINE free == slots \cap X
           n == App!Least(Cardinality(free), Len(waiting))
           G == {waiting[i] : i \in 1..n}
           W == {c \in Calls : at[c] = "slot"}
<1>1. /\ slots' = (slots \ free) \cup G
      /\ waiting' = SubSeq(waiting, n + 1, Len(waiting))
      /\ at' = [c \in Calls |-> IF c \in G THEN "open" ELSE next[c]]
  <2>1. App!Cardinality(free) = Cardinality(free)
    BY SizeOf
  <2> QED
    BY <2>1 DEF App!Handover
<1>3. /\ slots \subseteq Calls /\ Cardinality(slots) <= MaxInflight /\ Lists(waiting, W)
      /\ waiting # <<>> => Cardinality(slots) = MaxInflight
  BY DEF SlotInv
<1>2. \A d \in Calls : d \in W <=> at[d] = "slot"
  OBVIOUS
<1>2a. W \subseteq Calls /\ free = slots \cap X
  OBVIOUS
<1>2b. G = {waiting[i] : i \in 1..n} /\ n = App!Least(Cardinality(free), Len(waiting))
  OBVIOUS
<1> HIDE DEF W, G, n, free
<1>4. /\ IsFiniteSet(slots) /\ Cardinality(slots) \in Nat
      /\ IsFiniteSet(free) /\ Cardinality(free) \in Nat
      /\ Len(waiting) \in Nat
  <2>1. IsFiniteSet(slots)
    BY <1>3, SupervisorAssumption, FS_Subset
  <2>2. IsFiniteSet(free)
    BY <1>2a, <2>1, FS_Subset
  <2> QED
    BY <1>3, <2>1, <2>2, FS_CardinalityType, LenProperties DEF Lists
<1>5. /\ n \in 0..Len(waiting) /\ n <= Cardinality(free)
      /\ n < Len(waiting) => n = Cardinality(free)
  BY <1>2b, <1>4 DEF App!Least
<1>6. /\ G \subseteq W /\ IsFiniteSet(G) /\ Cardinality(G) = n
      /\ Lists(waiting', W \ G) /\ Len(waiting') = Len(waiting) - n
  <2>1. /\ First(waiting, n) \subseteq W
        /\ IsFiniteSet(First(waiting, n)) /\ Cardinality(First(waiting, n)) = n
        /\ Lists(Others(waiting, n), W \ First(waiting, n))
        /\ Len(Others(waiting, n)) = Len(waiting) - n
    BY <1>3, <1>5, ListsFirst
  <2>2. G = First(waiting, n) /\ waiting' = Others(waiting, n)
    BY <1>1, <1>2b DEF First, Others
  <2> QED
    BY <2>1, <2>2
<1>7. Cardinality(slots') = Cardinality(slots) - Cardinality(free) + n
  <2>1. slots \cap free = free
    BY <1>2a
  <2>2. IsFiniteSet(slots \ free) /\ Cardinality(slots \ free) = Cardinality(slots) - Cardinality(free)
    BY <1>4, <2>1, FS_Difference
  <2>3. (slots \ free) \cap G = {}
    <3>1. \A d \in slots : d \notin W
      BY <1>2, <1>3
    <3> QED
      BY <1>6, <3>1
  <2>4. Cardinality((slots \ free) \cap G) = 0
    BY <2>3, FS_EmptySet
  <2>5. Cardinality((slots \ free) \cup G)
          = Cardinality(slots \ free) + Cardinality(G) - Cardinality((slots \ free) \cap G)
    BY <1>6, <2>2, FS_Union
  <2> QED
    BY <1>1, <1>4, <1>5, <1>6, <2>2, <2>4, <2>5
<1>8. SlotInv'
  <2>1. slots' \subseteq Calls
    BY <1>1, <1>2a, <1>3, <1>6
  <2>2. Cardinality(slots') <= MaxInflight
    BY <1>3, <1>4, <1>5, <1>7, SupervisorAssumption
  <2>3. {c \in Calls : at'[c] = "slot"} = W \ G
    BY <1>1, <1>2, <1>2a
  <2>4. ASSUME waiting' # <<>> PROVE Cardinality(slots') = MaxInflight
    <3>1. Len(waiting') # 0
      BY <1>6, <2>4, EmptySeq DEF Lists
    <3>2. n < Len(waiting) /\ waiting # <<>>
      BY <1>4, <1>5, <1>6, <3>1
    <3> QED
      BY <1>3, <1>4, <1>5, <1>7, <3>2
  <2> QED
    BY <1>6, <2>1, <2>2, <2>3, <2>4 DEF SlotInv
<1>9. at' \in [Calls -> App!Labels]
  BY <1>1 DEF App!Labels
<1>10. G \in SUBSET Calls /\ \A d \in G : at[d] = "slot"
  BY <1>2, <1>2a, <1>6
<1>11. slots' = (slots \ X) \cup G /\ \A d \in Calls : at'[d] = IF d \in G THEN "open" ELSE next[d]
  BY <1>1, <1>2a
<1> QED
  BY <1>8, <1>9, <1>10, <1>11

\* The slot of c is released and c moves to a label behind the queue.
LEMMA HandoverOne ==
  ASSUME SessionInv, NEW c \in Calls, at[c] # "slot", NEW l \in App!Labels \ {"slot"},
         App!Handover({c}, [at EXCEPT ![c] = l])
  PROVE  /\ SlotInv' /\ at' \in [Calls -> App!Labels] /\ at'[c] = l /\ c \notin slots'
         /\ \A d \in Calls \ {c} : Passive(d)
<1> DEFINE next == [at EXCEPT ![c] = l]
<1>1. SlotInv /\ at \in [Calls -> App!Labels] /\ \A d \in slots : at[d] # "slot"
  BY DEF SessionInv, SessionTyped, CallsOk, SlotOk, SlotInv, App!InTurn
<1>2. /\ next \in [Calls -> App!Labels] /\ next[c] = l
      /\ \A d \in Calls \ {c} : next[d] = at[d]
  BY <1>1
<1>3. App!Handover({c}, next)
  OBVIOUS
<1> HIDE DEF next
<1>4. \A d \in Calls : next[d] = "slot" <=> at[d] = "slot"
  BY <1>2
<1>5. SlotInv' /\ at' \in [Calls -> App!Labels]
  BY <1>1, <1>2, <1>3, <1>4, HandoverStep
<1>6. PICK G \in SUBSET Calls : /\ \A d \in G : at[d] = "slot"
                                /\ slots' = (slots \ {c}) \cup G
                                /\ \A d \in Calls : at'[d] = IF d \in G THEN "open" ELSE next[d]
  BY <1>1, <1>2, <1>3, <1>4, HandoverStep
<1> QED
  BY <1>2, <1>5, <1>6 DEF Passive

LEMMA UnlockTyped ==
  ASSUME SessionTyped, NEW X, App!Unlock(X)
  PROVE  lines' \in [Threads -> Seq(Calls)]
BY RemainingCalls DEF SessionTyped, App!Unlock

LEMMA FinishStep ==
  ASSUME SessionInv, NEW c \in Calls, at[c] # "slot", App!Finish(c)
  PROVE  /\ SlotInv' /\ at' \in [Calls -> App!Labels] /\ at'[c] = "settled" /\ c \notin slots'
         /\ \A d \in Calls \ {c} : Passive(d)
         /\ lines' \in [Threads -> Seq(Calls)]
<1>1. SessionTyped
  BY DEF SessionInv
<1>2. App!Settled({c}) = [at EXCEPT ![c] = "settled"]
  BY <1>1 DEF App!Settled, SessionTyped
<1>3. App!Handover({c}, [at EXCEPT ![c] = "settled"]) /\ App!Unlock({c})
  BY <1>2 DEF App!Finish
<1>4. "settled" \in App!Labels \ {"slot"}
  BY DEF App!Labels
<1> QED
  BY <1>1, <1>3, <1>4, HandoverOne, UnlockTyped

\* What happens to others leaves a call as it should be.
LEMMA OtherCall ==
  ASSUME SessionInv, NEW d \in Calls, Passive(d),
         start'[d] = start[d], stop'[d] = stop[d], turn'[d] = turn[d],
         d \in early' <=> d \in early, d \in stale' <=> d \in stale,
         d \in signalled' <=> d \in signalled, session = "up" => session' = "up"
  PROVE  CallOk(d)' /\ TurnOk(d)' /\ SlotOk(d)'
<1>1. CallOk(d) /\ TurnOk(d) /\ SlotOk(d)
  BY DEF SessionInv, CallsOk
<1>2. CallOk(d)'
  BY <1>1 DEF CallOk, Pending, Early, Passive
<1>3. TurnOk(d)'
  BY <1>1 DEF TurnOk, Passive
<1>4. SlotOk(d)'
  BY <1>1 DEF SlotOk, Passive, App!InTurn, App!InUse, App!Unanswered
<1> QED
  BY <1>2, <1>3, <1>4

-----------------------------------------------------------------------------
(* Every step of the session keeps SessionInv. *)

\* A step of one call.
LEMMA OneCall ==
  ASSUME SessionInv, NEW c \in Calls, SessionTyped', SlotInv',
         \A d \in Calls \ {c} :
           /\ Passive(d)
           /\ start'[d] = start[d] /\ stop'[d] = stop[d] /\ turn'[d] = turn[d]
           /\ (d \in early' <=> d \in early) /\ (d \in stale' <=> d \in stale)
           /\ (d \in signalled' <=> d \in signalled),
         session = "up" => session' = "up",
         CallOk(c)', TurnOk(c)', SlotOk(c)'
  PROVE  SessionInv'
<1>1. \A d \in Calls \ {c} : CallOk(d)' /\ TurnOk(d)' /\ SlotOk(d)'
  BY OtherCall
<1>2. CallsOk'
  BY <1>1 DEF CallsOk
<1> QED
  BY <1>2 DEF SessionInv

\* A step of one call that moves no slot.
LEMMA StillSlots ==
  ASSUME SessionInv, NEW c \in Calls, UNCHANGED <<slots, waiting>>,
         \A d \in Calls \ {c} : at'[d] = at[d],
         at[c] = "slot" <=> at'[c] = "slot"
  PROVE  SlotInv' /\ \A d \in Calls \ {c} : Passive(d)
<1>1. \A d \in Calls : at[d] = "slot" <=> at'[d] = "slot"
  OBVIOUS
<1>2. SlotInv'
  BY <1>1, SlotKept DEF SessionInv
<1> QED
  BY <1>2 DEF Passive

LEMMA RunSession ==
  ASSUME SessionInv, NEW c \in Calls, App!Run(c) \/ App!Boot(c) \/ App!Enter(c)
  PROVE  SessionInv'
<1>1. SessionTyped /\ CallOk(c) /\ TurnOk(c) /\ SlotOk(c)
  BY DEF SessionInv, CallsOk
<1>2. /\ UNCHANGED <<slots, waiting, known, stale, start, early, stop, turn, signalled>>
      /\ session' = session \/ (session = "down" /\ session' = "starting")
  BY DEF App!Run, App!Boot, App!Enter, App!calls, App!occupancy, App!requests
<1>3. /\ \A d \in Calls \ {c} : at'[d] = at[d]
      /\ at' \in [Calls -> App!Labels]
      /\ \/ at'[c] = at[c]
         \/ at[c] = "idle" /\ at'[c] = "boot"
         \/ at[c] = "boot" /\ at'[c] \in {"thread", "settled"}
  BY <1>1 DEF SessionTyped, App!Run, App!Boot, App!Enter, App!calls, App!Moved, App!Labels
<1>4. lines' \in [Threads -> Seq(Calls)]
  <2>1. ThreadOf[c] \in Threads /\ lines \in [Threads -> Seq(Calls)]
    BY <1>1, SupervisorAssumption DEF SessionTyped
  <2>2. lines[ThreadOf[c]] \in Seq(Calls)
    BY <2>1
  <2>3. Append(lines[ThreadOf[c]], c) \in Seq(Calls)
    BY <2>2, AppendProperties
  <2>4. lines' = lines \/ lines' = [lines EXCEPT ![ThreadOf[c]] = Append(@, c)]
    BY DEF App!Run, App!Boot, App!Enter, App!calls
  <2> QED
    BY <2>1, <2>3, <2>4
<1>5. SessionTyped'
  BY <1>1, <1>2, <1>3, <1>4 DEF SessionTyped
<1>6. SlotInv' /\ \A d \in Calls \ {c} : Passive(d)
  BY <1>2, <1>3, StillSlots
<1>7. CallOk(c)'
  BY <1>1, <1>2, <1>3 DEF CallOk, Pending, Early
<1>8. TurnOk(c)'
  BY <1>1, <1>2, <1>3 DEF TurnOk
<1>9. SlotOk(c)'
  BY <1>1, <1>2, <1>3 DEF SlotOk, App!InTurn, App!InUse, App!Unanswered
<1> QED
  BY <1>2, <1>5, <1>6, <1>7, <1>8, <1>9, OneCall

LEMMA BootDoneSession ==
  ASSUME SessionInv, App!BootDone \/ UNCHANGED App!vars
  PROVE  SessionInv'
<1>1. /\ UNCHANGED <<at, signalled, lines, slots, waiting, known, stale, start, early, stop, turn>>
      /\ session' = session \/ (session = "starting" /\ session' = "up")
  BY DEF App!BootDone, App!vars, App!calls, App!occupancy, App!requests
<1>2. SessionTyped'
  BY <1>1 DEF SessionInv, SessionTyped
<1>3. SlotInv'
  BY <1>1, SlotKept DEF SessionInv
<1>4. \A d \in Calls : CallOk(d)' /\ TurnOk(d)' /\ SlotOk(d)'
  BY <1>1, OtherCall DEF Passive
<1> QED
  BY <1>2, <1>3, <1>4 DEF SessionInv, CallsOk

LEMMA AcquireSlotSession ==
  ASSUME SessionInv, NEW c \in Calls, App!AcquireSlot(c)
  PROVE  SessionInv'
<1>1. SessionTyped /\ SlotInv /\ CallOk(c) /\ TurnOk(c) /\ SlotOk(c)
  BY DEF SessionInv, CallsOk
<1>2. /\ UNCHANGED <<lines, known, stale, start, early, stop, turn, signalled, session>>
      /\ at[c] = "thread" /\ c \notin slots
  BY <1>1 DEF App!AcquireSlot, App!requests, SlotOk, App!InTurn
<1>3. IsFiniteSet(slots) /\ Cardinality(slots) \in Nat /\ MaxInflight \in Nat
  BY <1>1, SupervisorAssumption, FS_Subset, FS_CardinalityType DEF SlotInv
<1>4. CASE Cardinality(slots) < MaxInflight
  <2>1. slots' = slots \cup {c} /\ at' = [at EXCEPT ![c] = "open"] /\ waiting' = waiting
    BY <1>4, SizeOf DEF App!AcquireSlot, App!SlotFree, App!Moved
  <2>2. /\ at' \in [Calls -> App!Labels] /\ at'[c] = "open"
        /\ \A d \in Calls \ {c} : at'[d] = at[d]
    BY <1>1, <2>1 DEF SessionTyped, App!Labels
  <2>3. SlotInv'
    <3>1. Cardinality(slots') = Cardinality(slots) + 1
      BY <1>2, <1>3, <2>1, FS_AddElement
    <3>2. waiting = <<>>
      BY <1>1, <1>3, <1>4 DEF SlotInv
    <3>3. {d \in Calls : at'[d] = "slot"} = {d \in Calls : at[d] = "slot"}
      BY <1>2, <2>2
    <3>4. Lists(waiting', {d \in Calls : at'[d] = "slot"})
      BY <1>1, <2>1, <3>3 DEF SlotInv
    <3>5. slots' \subseteq Calls /\ Cardinality(slots') <= MaxInflight /\ waiting' = <<>>
      BY <1>1, <1>3, <1>4, <2>1, <3>1, <3>2 DEF SlotInv
    <3> QED
      BY <3>4, <3>5 DEF SlotInv
  <2>4. SessionTyped'
    BY <1>1, <1>2, <2>2 DEF SessionTyped
  <2>5. \A d \in Calls \ {c} : Passive(d)
    BY <2>1, <2>2 DEF Passive
  <2>6. CallOk(c)'
    BY <1>1, <1>2, <2>2 DEF CallOk, Pending, Early
  <2>7. TurnOk(c)'
    BY <1>1, <1>2, <2>1 DEF TurnOk
  <2>8. SlotOk(c)'
    BY <1>1, <1>2, <2>1, <2>2 DEF SlotOk, App!InTurn, App!InUse
  <2> QED
    BY <1>2, <2>3, <2>4, <2>5, <2>6, <2>7, <2>8, OneCall
<1>5. CASE ~ (Cardinality(slots) < MaxInflight)
  <2>1. slots' = slots /\ at' = [at EXCEPT ![c] = "slot"] /\ waiting' = Append(waiting, c)
    BY <1>5, SizeOf DEF App!AcquireSlot, App!SlotFree, App!Moved
  <2>2. /\ at' \in [Calls -> App!Labels] /\ at'[c] = "slot"
        /\ \A d \in Calls \ {c} : at'[d] = at[d]
    BY <1>1, <2>1 DEF SessionTyped, App!Labels
  <2>3. SlotInv'
    <3> DEFINE W == {d \in Calls : at[d] = "slot"}
    <3>1. c \notin W /\ Lists(waiting, W)
      BY <1>1, <1>2 DEF SlotInv
    <3>2. {d \in Calls : at'[d] = "slot"} = W \cup {c}
      BY <2>2
    <3> HIDE DEF W
    <3>3. Lists(waiting', W \cup {c})
      BY <2>1, <3>1, ListsAppend
    <3>4. Cardinality(slots) = MaxInflight
      BY <1>1, <1>3, <1>5 DEF SlotInv
    <3>5. Lists(waiting', {d \in Calls : at'[d] = "slot"})
      BY <3>2, <3>3
    <3>6. slots' \subseteq Calls /\ Cardinality(slots') = MaxInflight
      BY <1>1, <2>1, <3>4 DEF SlotInv
    <3> QED
      BY <1>3, <3>5, <3>6 DEF SlotInv
  <2>4. SessionTyped'
    BY <1>1, <1>2, <2>2 DEF SessionTyped
  <2>5. \A d \in Calls \ {c} : Passive(d)
    BY <2>1, <2>2 DEF Passive
  <2>6. CallOk(c)'
    BY <1>1, <1>2, <2>2 DEF CallOk, Pending, Early
  <2>7. TurnOk(c)'
    BY <1>1, <1>2, <2>1 DEF TurnOk
  <2>8. SlotOk(c)'
    BY <1>1, <1>2, <2>1, <2>2 DEF SlotOk, App!InTurn, App!InUse
  <2> QED
    BY <1>2, <2>3, <2>4, <2>5, <2>6, <2>7, <2>8, OneCall
<1> QED
  BY <1>4, <1>5

LEMMA EnsureThreadSession ==
  ASSUME SessionInv, NEW c \in Calls, App!EnsureThread(c)
  PROVE  SessionInv'
<1>1. SessionTyped /\ CallOk(c) /\ TurnOk(c) /\ SlotOk(c)
  BY DEF SessionInv, CallsOk
<1>2. /\ UNCHANGED <<stale, start, early, stop, turn, signalled, session>>
      /\ at[c] = "open"
  BY DEF App!EnsureThread, App!requests
<1>3. ThreadOf[c] \in Threads
  BY SupervisorAssumption
<1>4. CASE at' = App!Moved(c, "images") /\ known' = known \cup {ThreadOf[c]} /\ UNCHANGED <<lines, slots, waiting>>
  <2>1. /\ at' \in [Calls -> App!Labels] /\ at'[c] = "images"
        /\ \A d \in Calls \ {c} : at'[d] = at[d]
    BY <1>1, <1>4 DEF SessionTyped, App!Labels, App!Moved
  <2>2. SessionTyped'
    BY <1>1, <1>2, <1>3, <1>4, <2>1 DEF SessionTyped
  <2>3. SlotInv' /\ \A d \in Calls \ {c} : Passive(d)
    BY <1>2, <1>4, <2>1, StillSlots
  <2>4. CallOk(c)'
    BY <1>1, <1>2, <2>1 DEF CallOk, Pending, Early
  <2>5. TurnOk(c)'
    BY <1>1, <1>2, <1>4 DEF TurnOk
  <2>6. SlotOk(c)'
    BY <1>1, <1>2, <1>4, <2>1 DEF SlotOk, App!InTurn, App!InUse
  <2> QED
    BY <1>2, <2>2, <2>3, <2>4, <2>5, <2>6, OneCall
<1>5. CASE App!Finish(c) /\ known' = known
  <2>1. /\ SlotInv' /\ at' \in [Calls -> App!Labels] /\ at'[c] = "settled" /\ c \notin slots'
        /\ \A d \in Calls \ {c} : Passive(d)
        /\ lines' \in [Threads -> Seq(Calls)]
    BY <1>2, <1>5, FinishStep
  <2>2. SessionTyped'
    BY <1>1, <1>2, <1>5, <2>1 DEF SessionTyped
  <2>3. CallOk(c)'
    BY <1>1, <1>2, <2>1 DEF CallOk, Pending, Early
  <2>4. TurnOk(c)'
    BY <1>1, <1>2, <2>1 DEF TurnOk, CallOk, Early
  <2>5. SlotOk(c)'
    BY <2>1 DEF SlotOk, App!InTurn
  <2> QED
    BY <1>2, <2>1, <2>2, <2>3, <2>4, <2>5, OneCall
<1> QED
  BY <1>4, <1>5 DEF App!EnsureThread, App!occupancy

LEMMA AskTurnSession ==
  ASSUME SessionInv, NEW c \in Calls, App!AskTurn(c)
  PROVE  SessionInv'
<1>1. SessionTyped /\ CallOk(c) /\ TurnOk(c) /\ SlotOk(c)
  BY DEF SessionInv, CallsOk
<1>2. UNCHANGED <<known, stale, early, stop, turn, signalled, session>> /\ at[c] = "images"
  BY DEF App!AskTurn
<1>3. CASE /\ c \in signalled /\ at' = App!Moved(c, "settled") /\ App!Unlock({c})
           /\ UNCHANGED <<slots, waiting, start>>
  <2>1. /\ at' \in [Calls -> App!Labels] /\ at'[c] = "settled"
        /\ \A d \in Calls \ {c} : at'[d] = at[d]
    BY <1>1, <1>3 DEF SessionTyped, App!Labels, App!Moved
  <2>2. lines' \in [Threads -> Seq(Calls)]
    BY <1>1, <1>3, UnlockTyped
  <2>3. SessionTyped'
    BY <1>1, <1>2, <1>3, <2>1, <2>2 DEF SessionTyped
  <2>4. SlotInv' /\ \A d \in Calls \ {c} : Passive(d)
    BY <1>2, <1>3, <2>1, StillSlots
  <2>5. CallOk(c)'
    BY <1>1, <1>2, <1>3, <2>1 DEF CallOk, Pending, Early
  <2>6. TurnOk(c)'
    BY <1>1, <1>2, <1>3 DEF TurnOk
  <2>7. SlotOk(c)'
    BY <1>1, <1>2, <1>3, <2>1 DEF SlotOk, CallOk, App!InTurn, App!InUse
  <2> QED
    BY <1>2, <1>3, <2>3, <2>4, <2>5, <2>6, <2>7, OneCall
<1>4. CASE App!Finish(c) /\ c \notin signalled /\ start' = start
  <2>1. /\ SlotInv' /\ at' \in [Calls -> App!Labels] /\ at'[c] = "settled" /\ c \notin slots'
        /\ \A d \in Calls \ {c} : Passive(d)
        /\ lines' \in [Threads -> Seq(Calls)]
    BY <1>2, <1>4, FinishStep
  <2>2. SessionTyped'
    BY <1>1, <1>2, <1>4, <2>1 DEF SessionTyped
  <2>3. CallOk(c)'
    BY <1>1, <1>2, <1>4, <2>1 DEF CallOk, Pending, Early
  <2>4. TurnOk(c)'
    BY <1>1, <1>2, <1>4, <2>1 DEF TurnOk, CallOk, Early
  <2>5. SlotOk(c)'
    BY <2>1 DEF SlotOk, App!InTurn
  <2> QED
    BY <1>2, <1>4, <2>1, <2>2, <2>3, <2>4, <2>5, OneCall
<1>5. CASE /\ c \notin signalled /\ session = "up" /\ at' = App!Moved(c, "ask")
           /\ \E how \in {"queued", "sent"} : start' = [start EXCEPT ![c] = how]
           /\ UNCHANGED <<lines, slots, waiting>>
  <2>1. /\ at' \in [Calls -> App!Labels] /\ at'[c] = "ask"
        /\ \A d \in Calls \ {c} : at'[d] = at[d]
    BY <1>1, <1>5 DEF SessionTyped, App!Labels, App!Moved
  <2>2. /\ start' \in [Calls -> {"none", "queued", "sent", "over"}]
        /\ start'[c] \in {"queued", "sent"}
        /\ \A d \in Calls \ {c} : start'[d] = start[d]
    BY <1>1, <1>5 DEF SessionTyped
  <2>3. SessionTyped'
    BY <1>1, <1>2, <1>5, <2>1, <2>2 DEF SessionTyped
  <2>4. SlotInv' /\ \A d \in Calls \ {c} : Passive(d)
    BY <1>2, <1>5, <2>1, StillSlots
  <2>5. CallOk(c)'
    BY <1>1, <1>2, <1>5, <2>1, <2>2 DEF CallOk, Pending, Early
  <2>6. TurnOk(c)'
    BY <1>1, <1>2, <1>5, <2>1, <2>2 DEF TurnOk, SlotOk, CallOk, Early, App!InTurn
  <2>7. SlotOk(c)'
    BY <1>1, <1>2, <1>5, <2>1 DEF SlotOk, App!InTurn, App!InUse
  <2> QED
    BY <1>2, <2>2, <2>3, <2>4, <2>5, <2>6, <2>7, OneCall
<1> QED
  BY <1>3, <1>4, <1>5 DEF App!AskTurn, App!occupancy

LEMMA FlushSession ==
  ASSUME SessionInv, NEW c \in Calls, App!Flush(c) \/ App!TurnBegins(c)
  PROVE  SessionInv'
<1>1. SessionTyped /\ CallOk(c) /\ TurnOk(c) /\ SlotOk(c)
  BY DEF SessionInv, CallsOk
<1>2. UNCHANGED <<at, lines, slots, waiting, known, stale, early, stop, signalled, session>>
  BY DEF App!Flush, App!TurnBegins, App!calls, App!occupancy, App!requests
<1>3. /\ start' \in [Calls -> {"none", "queued", "sent", "over"}]
      /\ turn' \in [Calls -> {"none", "running", "ended"}]
      /\ \A d \in Calls \ {c} : start'[d] = start[d] /\ turn'[d] = turn[d]
      /\ \/ start[c] = "queued" /\ start'[c] = "sent" /\ turn'[c] = turn[c]
         \/ /\ start[c] = "sent" /\ turn[c] = "none" /\ c \notin stale
            /\ start'[c] = start[c] /\ turn'[c] = "running"
  BY <1>1 DEF SessionTyped, App!Flush, App!TurnBegins, App!requests
<1>4. SessionTyped'
  BY <1>1, <1>2, <1>3 DEF SessionTyped
<1>5. SlotInv' /\ \A d \in Calls \ {c} : Passive(d)
  BY <1>2, StillSlots
<1>6. CallOk(c)'
  BY <1>1, <1>2, <1>3 DEF CallOk, Pending, Early
<1>7. TurnOk(c)'
  BY <1>1, <1>2, <1>3 DEF TurnOk, SlotOk, CallOk, Pending, App!InTurn
<1>8. SlotOk(c)'
  BY <1>1, <1>2, <1>3 DEF SlotOk, App!InTurn, App!InUse, App!Unanswered
<1> QED
  BY <1>2, <1>3, <1>4, <1>5, <1>6, <1>7, <1>8, OneCall

LEMMA TurnCompletesSession ==
  ASSUME SessionInv, NEW c \in Calls, App!TurnCompletes(c)
  PROVE  SessionInv'
<1>1. SessionTyped /\ CallOk(c) /\ TurnOk(c) /\ SlotOk(c)
  BY DEF SessionInv, CallsOk
<1>2. /\ UNCHANGED <<known, stale, start, stop, signalled, session>>
      /\ turn[c] = "running" /\ turn' \in [Calls -> {"none", "running", "ended"}]
      /\ turn'[c] = "ended" /\ \A d \in Calls \ {c} : turn'[d] = turn[d]
  BY <1>1 DEF SessionTyped, App!TurnCompletes
<1>3. CASE at[c] = "turn"
  <2>1. App!Finish(c) /\ early' = early
    BY <1>3 DEF App!TurnCompletes
  <2>2. /\ SlotInv' /\ at' \in [Calls -> App!Labels] /\ at'[c] = "settled" /\ c \notin slots'
        /\ \A d \in Calls \ {c} : Passive(d)
        /\ lines' \in [Threads -> Seq(Calls)]
    BY <1>3, <2>1, FinishStep
  <2>3. SessionTyped'
    BY <1>1, <1>2, <2>1, <2>2 DEF SessionTyped
  <2>4. CallOk(c)'
    BY <1>1, <1>2, <1>3, <2>1, <2>2 DEF CallOk, Pending, Early
  <2>5. TurnOk(c)'
    BY <1>1, <1>2, <1>3, <2>1, <2>2 DEF TurnOk, CallOk
  <2>6. SlotOk(c)'
    BY <2>2 DEF SlotOk, App!InTurn
  <2> QED
    BY <1>2, <2>1, <2>2, <2>3, <2>4, <2>5, <2>6, OneCall
<1>4. CASE at[c] # "turn"
  <2>1. UNCHANGED <<at, lines, slots, waiting>>
    BY <1>4 DEF App!TurnCompletes, App!occupancy
  <2>2. /\ early' \subseteq Calls
        /\ early' = early \/ (at[c] = "ask" /\ early' = early \cup {c})
        /\ \A d \in Calls \ {c} : d \in early' <=> d \in early
    BY <1>1, <1>4 DEF App!TurnCompletes, SessionTyped
  <2>3. SessionTyped'
    BY <1>1, <1>2, <2>1, <2>2 DEF SessionTyped
  <2>4. SlotInv' /\ \A d \in Calls \ {c} : Passive(d)
    BY <2>1, StillSlots
  <2>5. CallOk(c)'
    BY <1>1, <1>2, <2>1, <2>2 DEF CallOk, Pending, Early
  <2>6. TurnOk(c)'
    BY <1>1, <1>2, <2>1, <2>2 DEF TurnOk
  <2>7. SlotOk(c)'
    BY <1>1, <1>2, <2>1 DEF SlotOk, App!InTurn, App!InUse, App!Unanswered
  <2> QED
    BY <1>2, <2>2, <2>3, <2>4, <2>5, <2>6, <2>7, OneCall
<1> QED
  BY <1>3, <1>4

LEMMA StartAnsweredSession ==
  ASSUME SessionInv, NEW c \in Calls, App!StartAnswered(c)
  PROVE  SessionInv'
<1>1. SessionTyped /\ CallOk(c) /\ TurnOk(c) /\ SlotOk(c)
  BY DEF SessionInv, CallsOk
<1>2. /\ UNCHANGED <<known, stale, early, turn, signalled, session>>
      /\ start[c] = "sent" /\ turn[c] # "none"
      /\ start' \in [Calls -> {"none", "queued", "sent", "over"}] /\ start'[c] = "over"
      /\ \A d \in Calls \ {c} : start'[d] = start[d] /\ stop'[d] = stop[d]
  BY <1>1 DEF SessionTyped, App!StartAnswered
<1>3. /\ stop' \in [Calls -> {"none", "sent", "over"}]
      /\ stop'[c] = IF c \in signalled THEN "sent" ELSE stop[c]
  BY <1>1 DEF SessionTyped, App!StartAnswered, App!LateStop
<1>4. CASE at[c] = "ask" /\ c \in early
  <2>1. App!Finish(c)
    BY <1>4 DEF App!StartAnswered
  <2>2. /\ SlotInv' /\ at' \in [Calls -> App!Labels] /\ at'[c] = "settled" /\ c \notin slots'
        /\ \A d \in Calls \ {c} : Passive(d)
        /\ lines' \in [Threads -> Seq(Calls)]
    BY <1>4, <2>1, FinishStep
  <2>3. SessionTyped'
    BY <1>1, <1>2, <1>3, <2>2 DEF SessionTyped
  <2>4. CallOk(c)'
    BY <1>1, <1>2, <1>3, <1>4, <2>2 DEF CallOk, Pending, Early
  <2>5. TurnOk(c)'
    BY <1>1, <1>2, <1>4, <2>2 DEF TurnOk
  <2>6. SlotOk(c)'
    BY <2>2 DEF SlotOk, App!InTurn
  <2> QED
    BY <1>2, <2>2, <2>3, <2>4, <2>5, <2>6, OneCall
<1>5. CASE ~ (at[c] = "ask" /\ c \in early)
  <2>1. /\ UNCHANGED <<lines, slots, waiting>>
        /\ at' = IF at[c] = "ask" THEN [at EXCEPT ![c] = "turn"] ELSE at
    BY <1>5 DEF App!StartAnswered, App!occupancy, App!Moved
  <2>2. /\ at' \in [Calls -> App!Labels] /\ at'[c] = IF at[c] = "ask" THEN "turn" ELSE at[c]
        /\ \A d \in Calls \ {c} : at'[d] = at[d]
    BY <1>1, <2>1 DEF SessionTyped, App!Labels
  <2>3. SessionTyped'
    BY <1>1, <1>2, <1>3, <2>1, <2>2 DEF SessionTyped
  <2>4. SlotInv' /\ \A d \in Calls \ {c} : Passive(d)
    BY <2>1, <2>2, StillSlots
  <2>5. CallOk(c)'
    BY <1>1, <1>2, <1>3, <2>2 DEF CallOk, Pending, Early
  <2>6. TurnOk(c)'
    BY <1>1, <1>2, <2>1 DEF TurnOk
  <2>7. SlotOk(c)'
    BY <1>1, <1>2, <1>3, <2>1, <2>2 DEF SlotOk, CallOk, Pending, App!InTurn, App!InUse, App!Unanswered
  <2> QED
    BY <1>2, <2>3, <2>4, <2>5, <2>6, <2>7, OneCall
<1> QED
  BY <1>4, <1>5

LEMMA StartRefusedSession ==
  ASSUME SessionInv, NEW c \in Calls, App!StartRefused(c)
  PROVE  SessionInv'
<1>1. SessionTyped /\ CallOk(c) /\ TurnOk(c) /\ SlotOk(c)
  BY DEF SessionInv, CallsOk
<1>2. /\ UNCHANGED <<known, stale, early, stop, turn, signalled, session>>
      /\ start[c] = "sent" /\ turn[c] = "none" /\ App!Finish(c)
      /\ start' \in [Calls -> {"none", "queued", "sent", "over"}] /\ start'[c] = "over"
      /\ \A d \in Calls \ {c} : start'[d] = start[d]
  BY <1>1 DEF SessionTyped, App!StartRefused
<1>3. at[c] \in {"ask", "settled"}
  BY <1>1, <1>2 DEF CallOk, Pending
<1>4. /\ SlotInv' /\ at' \in [Calls -> App!Labels] /\ at'[c] = "settled" /\ c \notin slots'
      /\ \A d \in Calls \ {c} : Passive(d)
      /\ lines' \in [Threads -> Seq(Calls)]
  BY <1>2, <1>3, FinishStep
<1>5. SessionTyped'
  BY <1>1, <1>2, <1>4 DEF SessionTyped
<1>6. CallOk(c)'
  BY <1>1, <1>2, <1>4 DEF CallOk, Pending, Early
<1>7. TurnOk(c)'
  BY <1>1, <1>2, <1>4 DEF TurnOk
<1>8. SlotOk(c)'
  BY <1>4 DEF SlotOk, App!InTurn
<1> QED
  BY <1>2, <1>4, <1>5, <1>6, <1>7, <1>8, OneCall

LEMMA StopAnsweredSession ==
  ASSUME SessionInv, NEW c \in Calls, App!StopAnswered(c)
  PROVE  SessionInv'
<1>1. SessionTyped /\ CallOk(c) /\ TurnOk(c) /\ SlotOk(c)
  BY DEF SessionInv, CallsOk
<1>2. /\ UNCHANGED <<lines, known, stale, start, early, signalled, session>>
      /\ stop[c] = "sent" /\ App!Handover({c}, at)
      /\ stop' \in [Calls -> {"none", "sent", "over"}] /\ stop'[c] = "over"
      /\ turn' \in [Calls -> {"none", "running", "ended"}] /\ turn'[c] = "ended"
      /\ \A d \in Calls \ {c} : stop'[d] = stop[d] /\ turn'[d] = turn[d]
  BY <1>1 DEF SessionTyped, App!StopAnswered
<1>3. at[c] = "settled" /\ start[c] = "over"
  BY <1>1, <1>2 DEF SessionTyped, CallOk, Pending, Early, App!Labels
<1>4. at = [at EXCEPT ![c] = "settled"]
  BY <1>1, <1>3 DEF SessionTyped
<1>5. App!Handover({c}, [at EXCEPT ![c] = "settled"])
  BY <1>2, <1>4
<1>6. /\ SlotInv' /\ at' \in [Calls -> App!Labels] /\ at'[c] = "settled" /\ c \notin slots'
      /\ \A d \in Calls \ {c} : Passive(d)
  BY <1>3, <1>5, HandoverOne DEF App!Labels
<1>7. SessionTyped'
  BY <1>1, <1>2, <1>6 DEF SessionTyped
<1>8. CallOk(c)'
  BY <1>1, <1>2, <1>3, <1>6 DEF CallOk, Pending, Early
<1>9. TurnOk(c)'
  BY <1>1, <1>2, <1>3, <1>6 DEF TurnOk, CallOk, Pending
<1>10. SlotOk(c)'
  BY <1>6 DEF SlotOk, App!InTurn
<1> QED
  BY <1>2, <1>6, <1>7, <1>8, <1>9, <1>10, OneCall

\* failAll and its listeners: slots come back and calls fail, many in one step.
LEMMA ManyCalls ==
  ASSUME SessionInv, NEW fails \in SUBSET Calls, \A d \in fails : at[d] # "slot",
         NEW X, App!Handover(X, App!Settled(fails)), App!Unlock(fails),
         start' = App!Dropped(start), stop' = App!Dropped(stop),
         turn' = [d \in Calls |-> App!Ended(d)],
         UNCHANGED <<signalled, early>>
  PROVE  /\ SlotInv' /\ at' \in [Calls -> App!Labels] /\ lines' \in [Threads -> Seq(Calls)]
         /\ start' \in [Calls -> {"none", "queued", "sent", "over"}]
         /\ stop' \in [Calls -> {"none", "sent", "over"}]
         /\ turn' \in [Calls -> {"none", "running", "ended"}]
         /\ \A d \in Calls :
              /\ start'[d] = IF start[d] = "none" THEN "none" ELSE "over"
              /\ stop'[d] = IF stop[d] = "none" THEN "none" ELSE "over"
              /\ turn'[d] = IF turn[d] = "running" THEN "ended" ELSE turn[d]
              /\ \/ at[d] = "slot" /\ at'[d] = "open" /\ d \in slots'
                 \/ d \in fails /\ at'[d] = "settled" /\ (d \in slots' <=> d \in slots \ X)
                 \/ d \notin fails /\ at'[d] = at[d] /\ (d \in slots' <=> d \in slots \ X)
<1> DEFINE next == App!Settled(fails)
<1>1. SessionTyped /\ SlotInv /\ \A d \in slots : d \in Calls /\ at[d] # "slot"
  BY DEF SessionInv, CallsOk, SlotOk, SlotInv, App!InTurn
<1>2. /\ next \in [Calls -> App!Labels]
      /\ \A d \in Calls : next[d] = IF d \in fails THEN "settled" ELSE at[d]
  BY <1>1 DEF SessionTyped, App!Settled, App!Labels
<1>3. App!Handover(X, next)
  OBVIOUS
<1> HIDE DEF next
<1>4. \A d \in Calls : next[d] = "slot" <=> at[d] = "slot"
  BY <1>2
<1>5. SlotInv' /\ at' \in [Calls -> App!Labels]
  BY <1>1, <1>2, <1>3, <1>4, HandoverStep
<1>6. PICK G \in SUBSET Calls : /\ \A d \in G : at[d] = "slot"
                                /\ slots' = (slots \ X) \cup G
                                /\ \A d \in Calls : at'[d] = IF d \in G THEN "open" ELSE next[d]
  BY <1>1, <1>2, <1>3, <1>4, HandoverStep
<1>7. \A d \in Calls : \/ at[d] = "slot" /\ at'[d] = "open" /\ d \in slots'
                       \/ d \in fails /\ at'[d] = "settled" /\ (d \in slots' <=> d \in slots \ X)
                       \/ d \notin fails /\ at'[d] = at[d] /\ (d \in slots' <=> d \in slots \ X)
  BY <1>2, <1>6
<1>8. lines' \in [Threads -> Seq(Calls)]
  BY <1>1, UnlockTyped
<1>9. /\ start' \in [Calls -> {"none", "queued", "sent", "over"}]
      /\ \A d \in Calls : start'[d] = IF start[d] = "none" THEN "none" ELSE "over"
  BY <1>1 DEF SessionTyped, App!Dropped
<1>10. /\ stop' \in [Calls -> {"none", "sent", "over"}]
       /\ \A d \in Calls : stop'[d] = IF stop[d] = "none" THEN "none" ELSE "over"
  BY <1>1 DEF SessionTyped, App!Dropped
<1>11. /\ turn' \in [Calls -> {"none", "running", "ended"}]
       /\ \A d \in Calls : turn'[d] = IF turn[d] = "running" THEN "ended" ELSE turn[d]
  BY <1>1 DEF SessionTyped, App!Ended
<1> QED
  BY <1>5, <1>7, <1>8, <1>9, <1>10, <1>11

LEMMA RecycleSession ==
  ASSUME SessionInv, App!Recycle
  PROVE  SessionInv'
<1> DEFINE fails == {c \in Calls : \/ at[c] \in {"ask", "turn"}
                                   \/ at[c] = "boot" /\ session = "starting"
                                   \/ at[c] = "open" }
           reading == {c \in Calls : at[c] = "images"}
           X == fails \cup reading \cup {c \in Calls : App!Unanswered(c)}
<1>1. /\ session' = "down" /\ known' = {} /\ UNCHANGED <<signalled, early>>
      /\ stale' = stale \cup reading
      /\ App!Handover(X, App!Settled(fails)) /\ App!Unlock(fails)
      /\ start' = App!Dropped(start) /\ stop' = App!Dropped(stop)
      /\ turn' = [d \in Calls |-> App!Ended(d)]
  BY DEF App!Recycle
<1>2. /\ fails \in SUBSET Calls /\ \A d \in fails : at[d] # "slot"
      /\ reading \subseteq Calls
      /\ \A d \in Calls : at[d] \in {"ask", "turn", "open"} => d \in fails
      /\ \A d \in Calls : d \in reading <=> at[d] = "images"
      /\ \A d \in Calls : (d \in fails \/ d \in reading \/ App!Unanswered(d)) => d \in X
  OBVIOUS
<1> HIDE DEF fails, reading, X
<1>3. /\ SlotInv' /\ at' \in [Calls -> App!Labels] /\ lines' \in [Threads -> Seq(Calls)]
      /\ start' \in [Calls -> {"none", "queued", "sent", "over"}]
      /\ stop' \in [Calls -> {"none", "sent", "over"}]
      /\ turn' \in [Calls -> {"none", "running", "ended"}]
      /\ \A d \in Calls :
           /\ start'[d] = IF start[d] = "none" THEN "none" ELSE "over"
           /\ stop'[d] = IF stop[d] = "none" THEN "none" ELSE "over"
           /\ turn'[d] = IF turn[d] = "running" THEN "ended" ELSE turn[d]
           /\ \/ at[d] = "slot" /\ at'[d] = "open" /\ d \in slots'
              \/ d \in fails /\ at'[d] = "settled" /\ (d \in slots' <=> d \in slots \ X)
              \/ d \notin fails /\ at'[d] = at[d] /\ (d \in slots' <=> d \in slots \ X)
  BY <1>1, <1>2, ManyCalls
<1>4. SessionTyped'
  BY <1>1, <1>2, <1>3 DEF SessionInv, SessionTyped
<1>5. ASSUME NEW d \in Calls PROVE CallOk(d)' /\ TurnOk(d)' /\ SlotOk(d)'
  <2>1. CallOk(d) /\ TurnOk(d) /\ SlotOk(d)
    BY <1>5 DEF SessionInv, CallsOk
  <2>2. CallOk(d)'
    BY <1>1, <1>2, <1>3, <2>1 DEF CallOk, Pending, Early
  <2>3. TurnOk(d)'
    BY <1>1, <1>3, <2>1 DEF TurnOk
  <2>4. SlotOk(d)'
    BY <1>1, <1>2, <1>3, <2>1 DEF SlotOk, App!InTurn, App!InUse
  <2> QED
    BY <2>2, <2>3, <2>4
<1> QED
  BY <1>3, <1>4, <1>5 DEF SessionInv, CallsOk

LEMMA CloseSession ==
  ASSUME SessionInv, App!Close
  PROVE  SessionInv'
<1> DEFINE fails == {c \in Calls : \/ at[c] = "ask"
                                   \/ at[c] = "boot" /\ session = "starting"
                                   \/ at[c] = "open" /\ (session = "starting" \/ ThreadOf[c] \notin known)}
           X == fails \cup {c \in Calls : App!Unanswered(c)}
<1>1. /\ session' \in {"closed", "shut"} /\ UNCHANGED <<signalled, early, known, stale>>
      /\ App!Handover(X, App!Settled(fails)) /\ App!Unlock(fails)
      /\ start' = App!Dropped(start) /\ stop' = App!Dropped(stop)
      /\ turn' = [d \in Calls |-> App!Ended(d)]
  BY DEF App!Close
<1>2. /\ fails \in SUBSET Calls /\ \A d \in fails : at[d] # "slot"
      /\ \A d \in Calls : at[d] = "ask" => d \in fails
      /\ \A d \in Calls : (d \in fails \/ App!Unanswered(d)) <=> d \in X
  OBVIOUS
<1> HIDE DEF fails, X
<1>3. /\ SlotInv' /\ at' \in [Calls -> App!Labels] /\ lines' \in [Threads -> Seq(Calls)]
      /\ start' \in [Calls -> {"none", "queued", "sent", "over"}]
      /\ stop' \in [Calls -> {"none", "sent", "over"}]
      /\ turn' \in [Calls -> {"none", "running", "ended"}]
      /\ \A d \in Calls :
           /\ start'[d] = IF start[d] = "none" THEN "none" ELSE "over"
           /\ stop'[d] = IF stop[d] = "none" THEN "none" ELSE "over"
           /\ turn'[d] = IF turn[d] = "running" THEN "ended" ELSE turn[d]
           /\ \/ at[d] = "slot" /\ at'[d] = "open" /\ d \in slots'
              \/ d \in fails /\ at'[d] = "settled" /\ (d \in slots' <=> d \in slots \ X)
              \/ d \notin fails /\ at'[d] = at[d] /\ (d \in slots' <=> d \in slots \ X)
  BY <1>1, <1>2, ManyCalls
<1>4. SessionTyped'
  BY <1>1, <1>2, <1>3 DEF SessionInv, SessionTyped
<1>5. ASSUME NEW d \in Calls PROVE CallOk(d)' /\ TurnOk(d)' /\ SlotOk(d)'
  <2>1. CallOk(d) /\ TurnOk(d) /\ SlotOk(d)
    BY <1>5 DEF SessionInv, CallsOk
  <2>2. CallOk(d)'
    BY <1>1, <1>2, <1>3, <2>1 DEF CallOk, Pending, Early
  <2>3. TurnOk(d)'
    BY <1>1, <1>3, <2>1 DEF TurnOk
  <2>4. SlotOk(d)'
    BY <1>1, <1>2, <1>3, <2>1 DEF SlotOk, CallOk, Early, App!InTurn, App!InUse, App!Unanswered
  <2> QED
    BY <2>2, <2>3, <2>4
<1> QED
  BY <1>3, <1>4, <1>5 DEF SessionInv, CallsOk

LEMMA AbortSession ==
  ASSUME SessionInv, NEW c \in Calls, App!Abort(c)
  PROVE  SessionInv'
<1>1. SessionTyped /\ SlotInv /\ CallOk(c) /\ TurnOk(c) /\ SlotOk(c)
  BY DEF SessionInv, CallsOk
<1>2. /\ UNCHANGED <<known, stale, early, turn, session>>
      /\ signalled' = signalled \cup {c} /\ c \notin signalled /\ at[c] \notin {"idle", "settled"}
      /\ start' \in [Calls -> {"none", "queued", "sent", "over"}]
      /\ start'[c] = IF start[c] = "queued" THEN "over" ELSE start[c]
      /\ \A d \in Calls \ {c} : start'[d] = start[d]
  BY <1>1 DEF SessionTyped, App!Abort
<1>3. /\ stop' \in [Calls -> {"none", "sent", "over"}]
      /\ stop'[c] = IF at[c] = "turn" /\ session = "up" THEN "sent" ELSE stop[c]
      /\ \A d \in Calls \ {c} : stop'[d] = stop[d]
  BY <1>1 DEF SessionTyped, App!Abort
<1>4. CASE at[c] = "images"
  <2>1. UNCHANGED <<at, lines, slots, waiting>> /\ c \in WithImages
    BY <1>4 DEF App!Abort, App!occupancy
  <2>2. SessionTyped'
    BY <1>1, <1>2, <1>3, <2>1 DEF SessionTyped
  <2>3. SlotInv' /\ \A d \in Calls \ {c} : Passive(d)
    BY <2>1, StillSlots
  <2>4. CallOk(c)'
    BY <1>1, <1>2, <1>3, <1>4, <2>1 DEF CallOk, Pending, Early
  <2>5. TurnOk(c)'
    BY <1>1, <1>2, <1>4, <2>1 DEF TurnOk, CallOk, Early
  <2>6. SlotOk(c)'
    BY <1>1, <1>2, <1>4, <2>1 DEF SlotOk, App!InTurn, App!InUse
  <2> QED
    BY <1>2, <1>3, <2>2, <2>3, <2>4, <2>5, <2>6, OneCall
<1>5. ASSUME at[c] # "images", SlotInv', at' \in [Calls -> App!Labels], at'[c] = "settled",
             \A d \in Calls \ {c} : Passive(d),
             c \in slots' <=> (c \in slots /\ App!Deferred(c))
      PROVE  SessionInv'
  <2>1. lines' \in [Threads -> Seq(Calls)]
    BY <1>1, <1>5, UnlockTyped DEF App!Abort
  <2>2. SessionTyped'
    BY <1>1, <1>2, <1>3, <1>5, <2>1 DEF SessionTyped
  <2>3. CallOk(c)'
    BY <1>1, <1>2, <1>3, <1>5 DEF CallOk, Pending, Early
  <2>4. TurnOk(c)'
    BY <1>1, <1>2, <1>5 DEF TurnOk, CallOk, Pending, Early, SessionTyped, App!Labels, App!Deferred
  <2>5. SlotOk(c)'
    BY <1>1, <1>2, <1>3, <1>5 DEF SlotOk, App!InTurn, App!InUse, App!Unanswered, App!Deferred
  <2> QED
    BY <1>2, <1>3, <1>5, <2>2, <2>3, <2>4, <2>5, OneCall
<1>6. CASE at[c] = "slot"
  <2>1. waiting' = App!Without(waiting, c) /\ at' = [at EXCEPT ![c] = "settled"] /\ slots' = slots
    BY <1>6 DEF App!Abort, App!Moved
  <2>2. /\ at' \in [Calls -> App!Labels] /\ at'[c] = "settled"
        /\ \A d \in Calls \ {c} : at'[d] = at[d]
    BY <1>1, <2>1 DEF SessionTyped, App!Labels
  <2>3. SlotInv'
    <3> DEFINE W == {d \in Calls : at[d] = "slot"}
    <3>1. c \in W /\ Lists(waiting, W)
      BY <1>1, <1>6 DEF SlotInv
    <3>2. {d \in Calls : at'[d] = "slot"} = W \ {c}
      BY <2>2
    <3>3. waiting # <<>>
      BY <3>1, ListsNobody
    <3> HIDE DEF W
    <3>4. waiting' = Without(waiting, c)
      BY <2>1 DEF App!Without, Without
    <3>5. Lists(waiting', W \ {c})
      BY <3>1, <3>4, ListsWithout
    <3>6. Lists(waiting', {d \in Calls : at'[d] = "slot"})
      BY <3>2, <3>5
    <3>7. /\ slots' \subseteq Calls /\ Cardinality(slots') <= MaxInflight
          /\ Cardinality(slots') = MaxInflight
      BY <1>1, <2>1, <3>3 DEF SlotInv
    <3> QED
      BY <3>6, <3>7 DEF SlotInv
  <2>4. \A d \in Calls \ {c} : Passive(d)
    BY <2>1, <2>2 DEF Passive
  <2>5. c \notin slots
    BY <1>1, <1>6 DEF SlotOk, App!InTurn
  <2> QED
    BY <1>5, <1>6, <2>1, <2>2, <2>3, <2>4, <2>5
<1>7. CASE at[c] \notin {"images", "slot"}
  <2> DEFINE next == App!Settled({c})
             X == IF App!Deferred(c) THEN {} ELSE {c}
  <2>1. App!Handover(X, next)
    BY <1>7 DEF App!Abort
  <2>2. /\ next \in [Calls -> App!Labels]
        /\ \A d \in Calls : next[d] = IF d = c THEN "settled" ELSE at[d]
    BY <1>1 DEF SessionTyped, App!Settled, App!Labels
  <2>3. /\ c \in X <=> ~ App!Deferred(c)
        /\ \A d \in Calls \ {c} : d \notin X
    OBVIOUS
  <2> HIDE DEF next, X
  <2>4. \A d \in Calls : next[d] = "slot" <=> at[d] = "slot"
    BY <1>7, <2>2
  <2>5. \A d \in slots : at[d] # "slot"
    BY DEF SessionInv, CallsOk, SlotOk, SlotInv, App!InTurn
  <2>6. SlotInv' /\ at' \in [Calls -> App!Labels]
    BY <1>1, <2>1, <2>2, <2>4, <2>5, HandoverStep
  <2>7. PICK G \in SUBSET Calls : /\ \A d \in G : at[d] = "slot"
                                  /\ slots' = (slots \ X) \cup G
                                  /\ \A d \in Calls : at'[d] = IF d \in G THEN "open" ELSE next[d]
    BY <1>1, <2>1, <2>2, <2>4, <2>5, HandoverStep
  <2>8. at'[c] = "settled" /\ (c \in slots' <=> (c \in slots /\ App!Deferred(c)))
    BY <1>7, <2>2, <2>3, <2>7
  <2>9. \A d \in Calls \ {c} : Passive(d)
    BY <2>2, <2>3, <2>7 DEF Passive
  <2> QED
    BY <1>5, <1>7, <2>6, <2>8, <2>9
<1> QED
  BY <1>4, <1>6, <1>7

-----------------------------------------------------------------------------
(* What a session promises. *)

LEMMA InitSession == App!Init => SessionInv
<1> SUFFICES ASSUME App!Init PROVE SessionInv
  OBVIOUS
<1>1. SessionTyped
  BY EmptySeq DEF App!Init, SessionTyped, App!Labels
<1>2. SlotInv
  <2>1. Cardinality(slots) = 0 /\ slots \subseteq Calls
    BY FS_EmptySet DEF App!Init
  <2>2. {c \in Calls : at[c] = "slot"} = {} /\ waiting = <<>>
    BY DEF App!Init
  <2>3. Lists(waiting, {c \in Calls : at[c] = "slot"})
    BY <2>2, EmptyLists
  <2> QED
    BY <2>1, <2>2, <2>3, SupervisorAssumption DEF SlotInv
<1>3. CallsOk
  BY DEF App!Init, CallsOk, CallOk, TurnOk, SlotOk, Pending, Early, App!InTurn
<1> QED
  BY <1>1, <1>2, <1>3 DEF SessionInv

LEMMA NextSession == SessionInv /\ [App!Next]_App!vars => SessionInv'
<1> SUFFICES ASSUME SessionInv, [App!Next]_App!vars PROVE SessionInv'
  OBVIOUS
<1>1. ASSUME NEW c \in Calls,
             App!Run(c) \/ App!CallStep(c) \/ App!Flush(c) \/ App!Process(c) \/ App!Answer(c) \/ App!Abort(c)
      PROVE  SessionInv'
  BY <1>1, RunSession, AcquireSlotSession, EnsureThreadSession, AskTurnSession, FlushSession,
     TurnCompletesSession, StartAnsweredSession, StartRefusedSession, StopAnsweredSession, AbortSession
  DEF App!CallStep, App!Process, App!Answer
<1>2. CASE App!BootDone \/ UNCHANGED App!vars
  BY <1>2, BootDoneSession
<1>3. CASE App!Recycle
  BY <1>3, RecycleSession
<1>4. CASE App!Close
  BY <1>4, CloseSession
<1> QED
  BY <1>1, <1>2, <1>3, <1>4 DEF App!Next

LEMMA SessionInvariant == App!Spec => []SessionInv
BY InitSession, NextSession, PTL DEF App!Spec

\* The session of a shard keeps its state well formed, and never more slots
\* than it was configured with, through answers, refusals, aborts, recycling
\* and close() (codex-app-server.ts, app-server-client.ts).
THEOREM AppServerTypeCorrect == App!Spec => []App!TypeOK
<1>1. SessionInv => App!TypeOK
  <2> SUFFICES ASSUME SessionInv PROVE App!TypeOK
    OBVIOUS
  <2>1. App!Cardinality(slots) <= MaxInflight /\ slots \subseteq Calls
    BY SizeOf DEF SessionInv, SlotInv
  <2>2. waiting \in Seq(Calls)
    <3> DEFINE W == {c \in Calls : at[c] = "slot"}
    <3>1. waiting \in Seq(W) /\ W \subseteq Calls
      BY DEF SessionInv, SlotInv, Lists
    <3> HIDE DEF W
    <3>2. \A i \in 1..Len(waiting) : waiting[i] \in Calls
      BY <3>1
    <3> QED
      BY <3>1, <3>2, SeqMonotonic
  <2> QED
    BY <2>1, <2>2 DEF SessionInv, SessionTyped, App!TypeOK
<1> QED
  BY <1>1, SessionInvariant, PTL

\* Every turn the process runs is covered by a slot, every slot by a call in
\* progress or an answer that is due, and no slot is free while a call waits
\* for one: the occupancy of the backend is neither exceeded, leaked nor left
\* idle, whatever the order of late answers, aborts, recycling and close().
THEOREM SlotsStayInUse == App!Spec => []App!SlotsInUse
<1>1. SessionInv => App!SlotsInUse
  <2> SUFFICES ASSUME SessionInv PROVE App!SlotsInUse
    OBVIOUS
  <2>1. App!TurnsWithinSlots
    BY DEF SessionInv, CallsOk, TurnOk, App!TurnsWithinSlots
  <2>2. App!SlotsAccounted
    BY DEF SessionInv, CallsOk, SlotOk, SlotInv, App!SlotsAccounted
  <2>3. App!NoIdleSlot
    BY SizeOf DEF SessionInv, SlotInv, App!NoIdleSlot
  <2> QED
    BY <2>1, <2>2, <2>3 DEF App!SlotsInUse
<1> QED
  BY <1>1, SessionInvariant, PTL
=============================================================================
