---------------------------- MODULE GatewayProofs ----------------------------
(***************************************************************************)
(* Proofs about Gateway for every set of calls and threads and every       *)
(* setting of the pool.  The books of the pool and of the control store    *)
(* are a function of where the calls stand (Books), and no writer of the   *)
(* control store comes between a lease and its launch (CallInv).           *)
(***************************************************************************)
EXTENDS Gateway, SequenceTheorems, FiniteSetTheorems, WellFoundedInduction, TLAPS

-----------------------------------------------------------------------------
(* Queues.  Induction over a queue goes by its least counterexample: the     *)
(* library's well-foundedness of Nat speaks of sets.                         *)

LEMMA LeastNumber ==
  ASSUME NEW B \in SUBSET Nat, B # {}
  PROVE  \E n \in B : \A m \in B : n <= m
<1> DEFINE R == OpToRel(<, Nat)
<1>1. IsWellFoundedOn(R, Nat)
  BY NatLessThanWellFounded
<1>2. \A x \in B, y \in B : y < x => <<y, x>> \in R
  BY DEF OpToRel
<1> HIDE DEF R
<1>3. PICK x \in B : \A y \in B : ~ (<<y, x>> \in R)
  BY <1>1, WFMin
<1>4. ASSUME NEW m \in B PROVE x <= m
  <2>1. m \in Nat /\ x \in Nat /\ ~ (m < x)
    BY <1>2, <1>3
  <2> QED
    BY <2>1
<1> QED
  BY <1>4

\* The calls that remain in a queue are a queue of the same calls.
LEMMA RemainingIsQueue ==
  ASSUME NEW S, NEW queue \in Seq(S), NEW gone
  PROVE  Remaining(queue, gone) \in Seq(S)
<1> DEFINE Body(g, i) == IF i = 0 THEN <<>>
                         ELSE IF queue[i] \in gone THEN g[i - 1] ELSE Append(g[i - 1], queue[i])
           Fits(g, n) == g = [i \in 0..n |-> Body(g, i)]
           N == Len(queue)
           kept == CHOOSE g : Fits(g, N)
           B == {n \in 0..N : ~ \E g : Fits(g, n)}
           C == {n \in 0..N : kept[n] \notin Seq(S)}
<1>0. N \in Nat /\ \A i \in 1..N : queue[i] \in S
  OBVIOUS
<1>1. Remaining(queue, gone) = kept[N]
  BY DEF Remaining
<1>2. B = {}
  <2> SUFFICES ASSUME B # {} PROVE FALSE
    OBVIOUS
  <2>0. B \in SUBSET Nat
    BY <1>0
  <2> HIDE DEF B, Fits
  <2>1. PICK n \in B : \A m \in B : n <= m
    BY <2>0, LeastNumber
  <2>2. n \in 0..N /\ ~ \E g : Fits(g, n)
    BY DEF B
  <2>3. CASE n = 0
    <3>1. Fits([i \in 0..n |-> <<>>], n)
      BY <2>3 DEF Fits
    <3> QED
      BY <2>2, <3>1
  <2>4. CASE n # 0
    <3>1. n - 1 \in 0..N /\ ~ (n <= n - 1) /\ n - 1 \notin B
      BY <1>0, <2>1, <2>2, <2>4
    <3>2. PICK g : Fits(g, n - 1)
      BY <3>1 DEF B
    <3> DEFINE h == [i \in 0..n |-> IF i = n THEN Body(g, n) ELSE g[i]]
    <3> HIDE DEF Body
    <3>3. h[n] = Body(g, n) /\ \A i \in 0..(n - 1) : h[i] = g[i] /\ g[i] = Body(g, i)
      <4>1. g = [i \in 0..(n - 1) |-> Body(g, i)]
        BY <3>2 DEF Fits
      <4>2. \A i \in 0..(n - 1) : g[i] = Body(g, i)
        BY <4>1
      <4>3. h[n] = Body(g, n) /\ \A i \in 0..(n - 1) : h[i] = g[i]
        BY <2>2, <2>4
      <4> QED
        BY <4>2, <4>3
    <3> HIDE DEF h
    <3>4. \A i \in 0..n : Body(h, i) = Body(g, i)
      BY <2>2, <2>4, <3>3 DEF Body
    <3>5. \A i \in 0..n : h[i] = Body(h, i)
      BY <2>2, <2>4, <3>3, <3>4
    <3>6. h = [i \in 0..n |-> Body(h, i)]
      BY <3>5 DEF h
    <3>7. Fits(h, n)
      BY <3>6 DEF Fits
    <3> QED
      BY <2>2, <3>7
  <2> QED
    BY <2>3, <2>4
<1>3. Fits(kept, N)
  <2>0. N \in 0..N
    BY <1>0
  <2> HIDE DEF Fits
  <2>1. \E g : Fits(g, N)
    BY <1>2, <2>0
  <2> QED
    BY <2>1
<1>4. \A i \in 0..N : kept[i] = Body(kept, i)
  BY <1>3
<1> HIDE DEF kept
<1>5. C = {}
  <2> SUFFICES ASSUME C # {} PROVE FALSE
    OBVIOUS
  <2>0. C \in SUBSET Nat
    BY <1>0
  <2> HIDE DEF C
  <2>1. PICK n \in C : \A m \in C : n <= m
    BY <2>0, LeastNumber
  <2>2. n \in 0..N /\ kept[n] \notin Seq(S) /\ kept[n] = Body(kept, n)
    BY <1>4 DEF C
  <2>3. n # 0
    BY <2>2
  <2>4. n - 1 \in 0..N /\ ~ (n <= n - 1) /\ n - 1 \notin C
    BY <1>0, <2>1, <2>2, <2>3
  <2>5. kept[n - 1] \in Seq(S) /\ queue[n] \in S
    BY <1>0, <2>2, <2>3, <2>4 DEF C
  <2> QED
    BY <2>2, <2>3, <2>5
<1> QED
  BY <1>0, <1>1, <1>5

-----------------------------------------------------------------------------
(* The invariant. *)

\* The books of the pool and of the control store, for calls standing like this.
Books(state, queue, out, held) ==
  /\ queue = {c \in Calls : state[c] = "queued"}
  /\ out = {c \in Calls : state[c] \in Permitted}
  /\ held = {c \in Calls : state[c] \in Leased}

\* A call has attempts left when it is to begin another one, and a call with a
\* fresh lease finds the run running: nobody writes the control store meanwhile.
CallInv ==
  \A c \in Calls :
    /\ pc[c] \in {"idle", "thread"} => attempt[c] = 0
    /\ pc[c] \in {"backoff", "retrying"} => attempt[c] < MaxAttempts
    /\ pc[c] = "admitted" => mode = "running"

IInv == TypeOK /\ PermitsMatchCalls /\ CallInv

\* What the steps touch, by part.
CallsTyped ==
  /\ pc \in [Calls -> Labels] /\ attempt \in [Calls -> 0..MaxAttempts]
  /\ line \in [Threads -> Seq(Calls)]
PoolTyped ==
  /\ waiting \subseteq Calls /\ permits \subseteq Calls /\ Cardinality(permits) <= Max
  /\ wake \in Nat \cup {-1}
AimTyped ==
  target \in Min..Max /\ streak \in 0..(GrowEvery - 1) /\ paused \in Nat /\ nocut \in Nat
RestTyped ==
  /\ authFailed \in BOOLEAN /\ modelCalls \in Nat
  /\ mode \in {"running", "paused", "cancelled"} /\ cap \in 1..Max
  /\ leases \subseteq Calls /\ lost \in Nat
  /\ blocked \in BOOLEAN /\ aborted \in BOOLEAN
  /\ stopping \in {"no", "cancel", "interrupt", "abort"}
  /\ newCap \in 0..Max /\ commands \in Nat /\ faults \in Nat

LEMMA TypeParts == TypeOK <=> CallsTyped /\ PoolTyped /\ AimTyped /\ RestTyped
BY DEF TypeOK, CallsTyped, PoolTyped, AimTyped, RestTyped

LEMMA BooksParts == PermitsMatchCalls <=> modelCalls <= MaxTurns /\ Books(pc, waiting, permits, leases)
BY DEF PermitsMatchCalls, Books

\* The options are positive numbers in their order.
LEMMA Options ==
  /\ IsFiniteSet(Calls) /\ MaxAttempts \in Nat /\ MaxAttempts > 0 /\ MaxTurns \in Nat
  /\ Min \in Nat /\ Min > 0 /\ Max \in Nat /\ Initial \in Nat /\ Min <= Initial /\ Initial <= Max
  /\ GrowEvery \in Nat /\ GrowEvery > 0 /\ GrowBy \in Nat /\ Cooldown \in Nat
  /\ RetryAfter \subseteq Nat
BY GatewayAssumption

LEMMA LowestHighest ==
  ASSUME NEW a \in Int, NEW b \in Int
  PROVE  /\ Lowest(a, b) \in {a, b} /\ Lowest(a, b) <= a /\ Lowest(a, b) <= b
         /\ Highest(a, b) \in {a, b} /\ Highest(a, b) >= a /\ Highest(a, b) >= b
BY DEF Lowest, Highest

\* What pump makes of books that were right: they stay right, the permits stay
\* within the target, and nobody moves but to a permit.
LEMMA PumpKeepsBooks ==
  ASSUME paused \in Nat,
         NEW queue \in SUBSET Calls, NEW out \in SUBSET Calls, NEW held, NEW goal \in 0..Max,
         NEW timer \in Nat \cup {-1}, NEW next \in [Calls -> Labels],
         Cardinality(out) <= Max, Books(next, queue, out, held), Pump(queue, out, goal, timer, next)
  PROVE  /\ pc' \in [Calls -> Labels] /\ PoolTyped' /\ Books(pc', waiting', permits', held)
         /\ \A c \in Calls : pc'[c] = next[c] \/ pc'[c] = "granted"
<1>1. PICK granted \in SUBSET queue :
        /\ Cardinality(granted) = IF paused > 0 THEN 0
             ELSE Lowest(Cardinality(queue), Highest(0, goal - Cardinality(out)))
        /\ waiting' = queue \ granted
        /\ permits' = out \cup granted
        /\ pc' = [c \in Calls |-> IF c \in granted THEN "granted" ELSE next[c]]
        /\ wake' = Timer(queue, timer)
  BY DEF Pump
<1>2. pc' \in [Calls -> Labels] /\ \A c \in Calls : pc'[c] = next[c] \/ pc'[c] = "granted"
  BY <1>1 DEF Labels, Permitted
<1>3. Books(pc', waiting', permits', held)
  <2>1. \A c \in granted : c \in Calls /\ next[c] = "queued" /\ pc'[c] = "granted"
    BY <1>1 DEF Books
  <2>2. \A c \in Calls \ granted : pc'[c] = next[c]
    BY <1>1
  <2>3. waiting' = {c \in Calls : pc'[c] = "queued"}
    BY <1>1, <2>1, <2>2 DEF Books
  <2>4. permits' = {c \in Calls : pc'[c] \in Permitted}
    BY <1>1, <2>1, <2>2 DEF Books, Permitted
  <2>5. held = {c \in Calls : pc'[c] \in Leased}
    BY <1>1, <2>1, <2>2 DEF Books, Leased
  <2> QED
    BY <2>3, <2>4, <2>5 DEF Books
<1>4. Cardinality(permits') <= Max
  <2>1. IsFiniteSet(out) /\ IsFiniteSet(granted) /\ IsFiniteSet(queue)
    BY Options, FS_Subset
  <2>2. Cardinality(out) \in Nat /\ Cardinality(granted) \in Nat /\ Cardinality(queue) \in Nat
    BY <2>1, FS_CardinalityType
  <2>3. out \cap granted = {}
    BY DEF Books, Permitted, Leased
  <2>4. Cardinality(out \cup granted) = Cardinality(out) + Cardinality(granted)
    <3>1. Cardinality(out \cup granted) = Cardinality(out) + Cardinality(granted) - Cardinality(out \cap granted)
      BY <2>1, FS_Union
    <3>2. Cardinality(out \cap granted) = 0
      BY <2>3, FS_EmptySet
    <3> QED
      BY <2>2, <3>1, <3>2
  <2>5. Cardinality(granted) <= Highest(0, goal - Cardinality(out))
    BY <1>1, <2>2, Options DEF Lowest, Highest
  <2> QED
    BY <1>1, <2>2, <2>4, <2>5, Options DEF Highest
<1>5. wake' \in Nat \cup {-1}
  BY <1>1 DEF Timer
<1> QED
  BY <1>1, <1>2, <1>3, <1>4, <1>5 DEF PoolTyped

\* Books after one call has moved.
LEMMA MovedBooks ==
  ASSUME CallsTyped, Books(pc, waiting, permits, leases), NEW c \in Calls, NEW l \in Labels
  PROVE  /\ Moved(c, l) \in [Calls -> Labels]
         /\ Moved(c, l)[c] = l /\ \A d \in Calls \ {c} : Moved(c, l)[d] = pc[d]
         /\ Books(Moved(c, l), IF l = "queued" THEN waiting \cup {c} ELSE waiting \ {c},
                  IF l \in Permitted THEN permits \cup {c} ELSE permits \ {c},
                  IF l \in Leased THEN leases \cup {c} ELSE leases \ {c})
<1>1. /\ Moved(c, l) \in [Calls -> Labels]
      /\ Moved(c, l)[c] = l /\ \A d \in Calls \ {c} : Moved(c, l)[d] = pc[d]
  BY DEF Moved, CallsTyped
<1>2. (IF l = "queued" THEN waiting \cup {c} ELSE waiting \ {c}) = {d \in Calls : Moved(c, l)[d] = "queued"}
  BY <1>1 DEF Books
<1>3. (IF l \in Permitted THEN permits \cup {c} ELSE permits \ {c}) = {d \in Calls : Moved(c, l)[d] \in Permitted}
  BY <1>1 DEF Books
<1>4. (IF l \in Leased THEN leases \cup {c} ELSE leases \ {c}) = {d \in Calls : Moved(c, l)[d] \in Leased}
  BY <1>1 DEF Books
<1> QED
  BY <1>1, <1>2, <1>3, <1>4 DEF Books

LEMMA UnlockTyped ==
  ASSUME CallsTyped, NEW settled, Unlock(settled)
  PROVE  line' \in [Threads -> Seq(Calls)]
BY RemainingIsQueue DEF CallsTyped, Unlock

\* Giving a permit back does not make more of them.
LEMMA FewerPermits ==
  ASSUME PoolTyped, NEW c
  PROVE  Cardinality(permits \ {c}) <= Max
<1>1. IsFiniteSet(permits) /\ permits \ {c} \in SUBSET permits
  BY Options, FS_Subset DEF PoolTyped
<1>2. Cardinality(permits \ {c}) <= Cardinality(permits) /\ IsFiniteSet(permits \ {c})
  BY <1>1, FS_Subset
<1>3. Cardinality(permits) \in Nat /\ Cardinality(permits \ {c}) \in Nat
  BY <1>1, <1>2, FS_CardinalityType
<1> QED
  BY <1>2, <1>3, Options DEF PoolTyped

\* The invariant again, from its parts.
LEMMA Assemble ==
  ASSUME CallsTyped', PoolTyped', AimTyped', RestTyped', modelCalls' <= MaxTurns,
         Books(pc', waiting', permits', leases'), CallInv'
  PROVE  IInv'
<1>1. TypeOK'
  BY TypeParts, PTL
<1>2. PermitsMatchCalls'
  BY DEF PermitsMatchCalls, Books
<1> QED
  BY <1>1, <1>2 DEF IInv

LEMMA Disassemble ==
  ASSUME IInv
  PROVE  /\ CallsTyped /\ PoolTyped /\ AimTyped /\ RestTyped /\ modelCalls <= MaxTurns
         /\ Books(pc, waiting, permits, leases) /\ CallInv
BY TypeParts, BooksParts DEF IInv

\* Labels CallInv says nothing about.
Quiet == Labels \ {"idle", "thread", "backoff", "retrying", "admitted"}

LEMMA CallInvKept ==
  ASSUME CallInv, UNCHANGED attempt, mode' = mode \/ StoreFree,
         \A c \in Calls : pc'[c] = pc[c] \/ pc'[c] \in Quiet
  PROVE  CallInv'
BY DEF CallInv, StoreFree, Quiet

\* A call that fails, wherever it stood, gives everything back.
LEMMA RefuseKeeps ==
  ASSUME CallsTyped, PoolTyped, AimTyped, Books(pc, waiting, permits, leases),
         NEW c \in Calls, pc[c] # "queued", Refuse(c)
  PROVE  /\ pc' \in [Calls -> Labels] /\ line' \in [Threads -> Seq(Calls)] /\ PoolTyped'
         /\ Books(pc', waiting', permits', leases \ {c})
         /\ \A d \in Calls : pc'[d] = pc[d] \/ pc'[d] \in Quiet
<1> DEFINE next == Moved(c, "failed")
<1>1. "failed" \in Labels /\ "failed" \notin Permitted /\ "failed" \notin Leased
  BY DEF Labels, Settled, Permitted, Leased
<1>2. waiting \ {c} = waiting
  BY DEF Books
<1>3. /\ next \in [Calls -> Labels] /\ Books(next, waiting, permits \ {c}, leases \ {c})
      /\ next[c] = "failed" /\ \A d \in Calls \ {c} : next[d] = pc[d]
  <2>1. next \in [Calls -> Labels] /\ next[c] = "failed" /\ \A d \in Calls \ {c} : next[d] = pc[d]
    BY <1>1, MovedBooks
  <2>2. Books(next, waiting \ {c}, permits \ {c}, leases \ {c})
    BY <1>1, <2>1 DEF Books
  <2> QED
    BY <1>2, <2>1, <2>2
<1>4. Pump(waiting, permits \ {c}, target, wake, next) /\ Unlock({c})
  BY DEF Refuse
<1>5. target \in 0..Max /\ paused \in Nat /\ wake \in Nat \cup {-1}
      /\ waiting \in SUBSET Calls /\ permits \ {c} \in SUBSET Calls
  BY Options DEF AimTyped, PoolTyped
<1>6. Cardinality(permits \ {c}) <= Max
  BY FewerPermits
<1> HIDE DEF next
<1>7. /\ pc' \in [Calls -> Labels] /\ PoolTyped' /\ Books(pc', waiting', permits', leases \ {c})
      /\ \A d \in Calls : pc'[d] = next[d] \/ pc'[d] = "granted"
  BY <1>3, <1>4, <1>5, <1>6, PumpKeepsBooks
<1>8. "failed" \in Quiet /\ "granted" \in Quiet
  BY DEF Quiet, Labels, Settled, Permitted
<1> QED
  BY <1>3, <1>4, <1>7, <1>8, UnlockTyped

-----------------------------------------------------------------------------
(* The timers and the operator. *)

LEMMA TimersKeep == IInv /\ Timers => IInv'
<1> SUFFICES ASSUME IInv, Timers PROVE IInv'
  OBVIOUS
<1>0. /\ CallsTyped /\ PoolTyped /\ AimTyped /\ RestTyped /\ modelCalls <= MaxTurns
      /\ Books(pc, waiting, permits, leases) /\ CallInv
  BY Disassemble
<1>1. CASE Tick
  <2>1. PoolTyped' /\ AimTyped'
    BY <1>0, <1>1, LowestHighest DEF Tick, PoolTyped, AimTyped, Highest
  <2>2. UNCHANGED <<pc, attempt, line, waiting, permits, authFailed, modelCalls, mode, cap, leases, lost,
                    blocked, aborted, stopping, newCap, commands, faults>>
    BY <1>1 DEF Tick, control, operator
  <2>3. CallsTyped' /\ RestTyped'
    BY <1>0, <2>2 DEF CallsTyped, RestTyped
  <2>4. CallInv'
    BY <1>0, <2>2, CallInvKept
  <2> QED
    BY <1>0, <2>1, <2>2, <2>3, <2>4, Assemble
<1>2. CASE Wake
  <2>1. UNCHANGED <<attempt, line, target, streak, paused, nocut, authFailed, modelCalls, mode, cap, leases, lost,
                    blocked, aborted, stopping, newCap, commands, faults>>
    BY <1>2 DEF Wake, control, operator
  <2>2. /\ pc' \in [Calls -> Labels] /\ PoolTyped' /\ Books(pc', waiting', permits', leases)
        /\ \A c \in Calls : pc'[c] = pc[c] \/ pc'[c] = "granted"
    <3>1. Pump(waiting, permits, target, -1, pc) /\ -1 \in Nat \cup {-1}
      BY <1>2 DEF Wake
    <3>2. /\ target \in 0..Max /\ paused \in Nat /\ waiting \in SUBSET Calls /\ permits \in SUBSET Calls
          /\ pc \in [Calls -> Labels] /\ Cardinality(permits) <= Max
      BY <1>0, Options DEF AimTyped, PoolTyped, CallsTyped
    <3> QED
      BY <1>0, <3>1, <3>2, PumpKeepsBooks
  <2>3. CallsTyped' /\ AimTyped' /\ RestTyped'
    BY <1>0, <2>1, <2>2 DEF CallsTyped, AimTyped, RestTyped
  <2>4. CallInv'
    BY <1>0, <2>1, <2>2, CallInvKept DEF Quiet, Labels, Permitted
  <2> QED
    BY <1>0, <2>1, <2>2, <2>3, <2>4, Assemble
<1>3. CASE Expire
  <2>1. UNCHANGED <<pc, attempt, line, waiting, permits, target, streak, paused, nocut, wake, authFailed, modelCalls,
                    mode, cap, leases, blocked, aborted, stopping, newCap, commands, faults>>
    BY <1>3 DEF Expire, poolState, operator
  <2>2. CallsTyped' /\ PoolTyped' /\ AimTyped' /\ RestTyped'
    BY <1>0, <1>3, <2>1 DEF Expire, CallsTyped, PoolTyped, AimTyped, RestTyped
  <2>3. CallInv'
    BY <1>0, <2>1, CallInvKept
  <2> QED
    BY <1>0, <2>1, <2>2, <2>3, Assemble
<1> QED
  BY <1>1, <1>2, <1>3 DEF Timers

LEMMA OperateKeeps == IInv /\ Operate => IInv'
<1> SUFFICES ASSUME IInv, Operate PROVE IInv'
  OBVIOUS
<1>0. /\ CallsTyped /\ PoolTyped /\ AimTyped /\ RestTyped /\ modelCalls <= MaxTurns
      /\ Books(pc, waiting, permits, leases) /\ CallInv
  BY Disassemble
<1>1. CASE Pause \/ Resume \/ WriteCap \/ StopDurably \/ \E kind \in {"cancel", "interrupt"} : Stop(kind)
  <2>1. /\ UNCHANGED <<pc, attempt, line, waiting, permits, target, streak, paused, nocut, wake, authFailed, modelCalls,
                       leases, lost, aborted, faults>>
        /\ mode' = mode \/ StoreFree
    BY <1>1 DEF Pause, Resume, WriteCap, StopDurably, Stop, poolState, control
  <2>2. /\ mode' \in {"running", "paused", "cancelled"} /\ blocked' \in BOOLEAN
        /\ stopping' \in {"no", "cancel", "interrupt", "abort"}
    BY <1>0, <1>1 DEF RestTyped, Pause, Resume, WriteCap, StopDurably, Stop, control
  <2>3. cap' \in 1..Max /\ newCap' \in 0..Max /\ commands' \in Nat
    BY <1>0, <1>1, Options DEF RestTyped, Pause, Resume, WriteCap, StopDurably, Stop, control, Command
  <2>4. CallsTyped' /\ PoolTyped' /\ AimTyped' /\ RestTyped'
    BY <1>0, <2>1, <2>2, <2>3 DEF CallsTyped, PoolTyped, AimTyped, RestTyped
  <2>5. CallInv'
    BY <1>0, <2>1, CallInvKept
  <2> QED
    BY <1>0, <2>1, <2>4, <2>5, Assemble
<1>2. CASE \E n \in 1..Max : SetConcurrency(n)
  <2>1. PICK n \in 1..Max : SetConcurrency(n)
    BY <1>2
  <2>2. UNCHANGED <<attempt, line, streak, paused, nocut, authFailed, modelCalls, mode, cap, leases, lost,
                    blocked, aborted, stopping, faults>>
    BY <2>1 DEF SetConcurrency, control
  <2>3. target' \in Min..Max /\ newCap' \in 0..Max /\ commands' \in Nat
    BY <1>0, <2>1, Options DEF SetConcurrency, Highest, Lowest, Command, RestTyped
  <2>4. Pump(waiting, permits, target', wake, pc) /\ target' \in 0..Max
    BY <2>1, <2>3, Options DEF SetConcurrency
  <2>5. /\ pc' \in [Calls -> Labels] /\ PoolTyped' /\ Books(pc', waiting', permits', leases)
        /\ \A c \in Calls : pc'[c] = pc[c] \/ pc'[c] = "granted"
    BY <1>0, <2>4, PumpKeepsBooks DEF AimTyped, PoolTyped, CallsTyped
  <2>6. CallsTyped' /\ AimTyped' /\ RestTyped'
    BY <1>0, <2>2, <2>3, <2>5 DEF CallsTyped, AimTyped, RestTyped
  <2>7. CallInv'
    BY <1>0, <2>2, <2>5, CallInvKept DEF Quiet, Labels, Permitted
  <2> QED
    BY <1>0, <2>2, <2>5, <2>6, <2>7, Assemble
<1>3. CASE Abort
  <2> DEFINE hit == {c \in Calls :
                       \/ pc[c] = "queued"
                       \/ pc[c] = "thread" /\ Head(line[ThreadOf[c]]) # c}
  <2>1. /\ UNCHANGED <<attempt, permits, target, streak, paused, nocut, wake, authFailed, modelCalls,
                       mode, cap, leases, lost, blocked, newCap, commands, faults>>
        /\ aborted' = TRUE /\ stopping' = "no" /\ waiting' = {} /\ Unlock(hit)
        /\ pc' = [c \in Calls |-> IF c \in hit THEN "failed" ELSE pc[c]]
    BY <1>3 DEF Abort, control
  <2>2. \A c \in hit : pc[c] \in {"queued", "thread"}
    OBVIOUS
  <2>3. \A c \in Calls : pc[c] = "queued" => c \in hit
    OBVIOUS
  <2> HIDE DEF hit
  <2>4. "failed" \in Labels /\ "failed" \in Quiet /\ "failed" \notin Permitted /\ "failed" \notin Leased
    BY DEF Labels, Settled, Permitted, Leased, Quiet
  <2>5. CallsTyped'
    BY <1>0, <2>1, <2>4, UnlockTyped DEF CallsTyped
  <2>6. PoolTyped' /\ AimTyped' /\ RestTyped'
    BY <1>0, <2>1 DEF PoolTyped, AimTyped, RestTyped
  <2>7. Books(pc', waiting', permits', leases')
    <3>1. \A c \in Calls : pc'[c] = IF c \in hit THEN "failed" ELSE pc[c]
      BY <2>1
    <3>2. "queued" \notin Permitted /\ "queued" \notin Leased /\ "thread" \notin Permitted /\ "thread" \notin Leased
      BY DEF Permitted, Leased
    <3>3. waiting' = {c \in Calls : pc'[c] = "queued"}
      BY <2>1, <2>3, <3>1
    <3>4. permits' = {c \in Calls : pc'[c] \in Permitted} /\ leases' = {c \in Calls : pc'[c] \in Leased}
      BY <1>0, <2>1, <2>2, <2>4, <3>1, <3>2 DEF Books
    <3> QED
      BY <3>3, <3>4 DEF Books
  <2>8. CallInv'
    BY <1>0, <2>1, <2>4, CallInvKept
  <2> QED
    BY <1>0, <2>1, <2>5, <2>6, <2>7, <2>8, Assemble
<1> QED
  BY <1>1, <1>2, <1>3 DEF Operate

-----------------------------------------------------------------------------
(* The calls. *)

\* A call moves and keeps its place in the pool; its lease follows the label.
LEMMA MoveKeeps ==
  ASSUME CallsTyped, Books(pc, waiting, permits, leases), NEW c \in Calls, NEW l \in Labels,
         pc' = Moved(c, l), UNCHANGED <<waiting, permits>>,
         l # "queued", pc[c] # "queued", l \in Permitted <=> pc[c] \in Permitted,
         leases' = IF l \in Leased THEN leases \cup {c} ELSE leases \ {c}
  PROVE  /\ pc' \in [Calls -> Labels] /\ Books(pc', waiting', permits', leases')
         /\ pc'[c] = l /\ \A d \in Calls \ {c} : pc'[d] = pc[d]
<1>1. pc' \in [Calls -> Labels] /\ pc'[c] = l /\ \A d \in Calls \ {c} : pc'[d] = pc[d]
  BY MovedBooks
<1>2. waiting' = {d \in Calls : pc'[d] = "queued"}
  BY <1>1 DEF Books
<1>3. permits' = {d \in Calls : pc'[d] \in Permitted}
  BY <1>1 DEF Books
<1>4. leases' = {d \in Calls : pc'[d] \in Leased}
  BY <1>1 DEF Books
<1> QED
  BY <1>1, <1>2, <1>3, <1>4 DEF Books

\* A lease is there exactly when the label says so.
LEMMA LeaseFollows ==
  ASSUME Books(pc, waiting, permits, leases), NEW c \in Calls
  PROVE  leases = IF pc[c] \in Leased THEN leases \cup {c} ELSE leases \ {c}
BY DEF Books

LEMMA RunKeeps == \A c \in Calls : IInv /\ Run(c) => IInv'
<1> SUFFICES ASSUME NEW c \in Calls, IInv, Run(c) PROVE IInv'
  OBVIOUS
<1>0. /\ CallsTyped /\ PoolTyped /\ AimTyped /\ RestTyped /\ modelCalls <= MaxTurns
      /\ Books(pc, waiting, permits, leases) /\ CallInv
  BY Disassemble
<1>1. /\ pc[c] = "idle"
      /\ UNCHANGED <<attempt, waiting, permits, target, streak, paused, nocut, wake, authFailed, modelCalls, mode,
                     cap, leases, lost, blocked, aborted, stopping, newCap, commands, faults>>
  BY DEF Run, poolState, control, operator
<1>2. PICK l \in {"failed", "thread"} : pc' = Moved(c, l)
  BY DEF Run
<1>3. l \in Labels /\ l \notin Permitted /\ l \notin Leased /\ "idle" \notin Permitted /\ "idle" \notin Leased
  BY DEF Labels, Settled, Permitted, Leased
<1>4. /\ pc' \in [Calls -> Labels] /\ Books(pc', waiting', permits', leases')
      /\ pc'[c] = l /\ \A d \in Calls \ {c} : pc'[d] = pc[d]
  BY <1>0, <1>1, <1>2, <1>3, MoveKeeps, LeaseFollows
<1>5. line' \in [Threads -> Seq(Calls)]
  <2>1. line \in [Threads -> Seq(Calls)] /\ ThreadOf[c] \in Threads
    BY <1>0, GatewayAssumption DEF CallsTyped
  <2>2. Append(line[ThreadOf[c]], c) \in Seq(Calls)
    BY <2>1
  <2>3. UNCHANGED line \/ line' = [line EXCEPT ![ThreadOf[c]] = Append(@, c)]
    BY DEF Run
  <2> QED
    BY <2>1, <2>2, <2>3
<1>6. CallsTyped' /\ PoolTyped' /\ AimTyped' /\ RestTyped'
  BY <1>0, <1>1, <1>4, <1>5 DEF CallsTyped, PoolTyped, AimTyped, RestTyped
<1>7. CallInv'
  BY <1>0, <1>1, <1>2, <1>4 DEF CallInv
<1> QED
  BY <1>0, <1>1, <1>4, <1>6, <1>7, Assemble

LEMMA AttemptKeeps == \A c \in Calls : IInv /\ Attempt(c) => IInv'
<1> SUFFICES ASSUME NEW c \in Calls, IInv, Attempt(c) PROVE IInv'
  OBVIOUS
<1>0. /\ CallsTyped /\ PoolTyped /\ AimTyped /\ RestTyped /\ modelCalls <= MaxTurns
      /\ Books(pc, waiting, permits, leases) /\ CallInv
  BY Disassemble
<1>1. /\ pc[c] \in {"backoff", "thread"}
      /\ UNCHANGED <<target, streak, paused, nocut, authFailed, modelCalls, mode,
                     cap, leases, lost, blocked, aborted, stopping, newCap, commands, faults>>
  BY DEF Attempt, HasTurn, control, operator
<1>2. "backoff" \notin Permitted /\ "backoff" \notin Leased /\ "thread" \notin Permitted /\ "thread" \notin Leased
  BY DEF Permitted, Leased
<1>3. CASE authFailed \/ aborted
  <2>1. /\ pc' = Moved(c, "failed") /\ Unlock({c})
        /\ UNCHANGED <<attempt, waiting, permits, wake>>
    BY <1>3 DEF Attempt
  <2>2. "failed" \in Labels /\ "failed" \notin Permitted /\ "failed" \notin Leased /\ "failed" \in Quiet
    BY DEF Labels, Settled, Permitted, Leased, Quiet
  <2>3. /\ pc' \in [Calls -> Labels] /\ Books(pc', waiting', permits', leases')
        /\ pc'[c] = "failed" /\ \A d \in Calls \ {c} : pc'[d] = pc[d]
    BY <1>0, <1>1, <1>2, <2>1, <2>2, MoveKeeps, LeaseFollows
  <2>4. CallsTyped' /\ PoolTyped' /\ AimTyped' /\ RestTyped'
    BY <1>0, <1>1, <2>1, <2>3, UnlockTyped DEF CallsTyped, PoolTyped, AimTyped, RestTyped
  <2>5. CallInv'
    BY <1>0, <1>1, <2>1, <2>2, <2>3, CallInvKept
  <2> QED
    BY <1>0, <1>1, <2>3, <2>4, <2>5, Assemble
<1>4. CASE ~ (authFailed \/ aborted)
  <2> DEFINE next == Moved(c, "queued")
  <2>1. /\ attempt' = [attempt EXCEPT ![c] = @ + 1] /\ UNCHANGED line
        /\ Pump(waiting \cup {c}, permits, target, wake, next)
    BY <1>4 DEF Attempt
  <2>2. attempt[c] \in Nat /\ attempt[c] < MaxAttempts
    BY <1>0, <1>1, Options DEF CallInv, CallsTyped
  <2>3. attempt' \in [Calls -> 0..MaxAttempts] /\ \A d \in Calls \ {c} : attempt'[d] = attempt[d]
    BY <1>0, <2>1, <2>2, Options DEF CallsTyped
  <2>4. "queued" \in Labels /\ "queued" \notin Permitted /\ "queued" \notin Leased
    BY DEF Labels, Permitted, Leased
  <2>5. permits \ {c} = permits /\ leases \ {c} = leases
    BY <1>0, <1>1, <1>2 DEF Books
  <2>6. /\ next \in [Calls -> Labels] /\ next[c] = "queued" /\ \A d \in Calls \ {c} : next[d] = pc[d]
        /\ Books(next, waiting \cup {c}, permits, leases)
    <3>1. next \in [Calls -> Labels] /\ next[c] = "queued" /\ \A d \in Calls \ {c} : next[d] = pc[d]
      BY <1>0, <2>4, MovedBooks
    <3>2. Books(next, waiting \cup {c}, permits \ {c}, leases \ {c})
      BY <1>0, <2>4, <3>1 DEF Books
    <3> QED
      BY <2>5, <3>1, <3>2
  <2> HIDE DEF next
  <2>7. /\ target \in 0..Max /\ paused \in Nat /\ wake \in Nat \cup {-1} /\ Cardinality(permits) <= Max
        /\ waiting \cup {c} \in SUBSET Calls /\ permits \in SUBSET Calls
    BY <1>0, Options DEF AimTyped, PoolTyped
  <2>8. /\ pc' \in [Calls -> Labels] /\ PoolTyped' /\ Books(pc', waiting', permits', leases)
        /\ \A d \in Calls : pc'[d] = next[d] \/ pc'[d] = "granted"
    BY <2>1, <2>6, <2>7, PumpKeepsBooks
  <2>9. CallsTyped' /\ AimTyped' /\ RestTyped'
    BY <1>0, <1>1, <2>1, <2>3, <2>8 DEF CallsTyped, AimTyped, RestTyped
  <2>10. CallInv'
    BY <1>0, <1>1, <2>3, <2>6, <2>8 DEF CallInv
  <2> QED
    BY <1>0, <1>1, <2>8, <2>9, <2>10, Assemble
<1> QED
  BY <1>3, <1>4

\* The checks before a launch: refused, or one step on.
LEMMA AdmissionKeeps == \A c \in Calls : IInv /\ (Prepare(c) \/ Poll(c) \/ TryAcquireLease(c)) => IInv'
<1> SUFFICES ASSUME NEW c \in Calls, IInv, Prepare(c) \/ Poll(c) \/ TryAcquireLease(c) PROVE IInv'
  OBVIOUS
<1>0. /\ CallsTyped /\ PoolTyped /\ AimTyped /\ RestTyped /\ modelCalls <= MaxTurns
      /\ Books(pc, waiting, permits, leases) /\ CallInv
  BY Disassemble
<1>1. /\ pc[c] \in {"granted", "instructed", "polling"}
      /\ UNCHANGED <<attempt, target, streak, paused, nocut, authFailed, modelCalls, mode,
                     cap, lost, blocked, aborted, stopping, newCap, commands, faults>>
  BY DEF Prepare, Poll, TryAcquireLease, control, operator
<1>2. pc[c] \notin Leased /\ pc[c] \in Permitted /\ pc[c] # "queued"
  BY <1>1 DEF Permitted, Leased
<1>3. leases \ {c} = leases
  BY <1>0, <1>2 DEF Books
<1>4. CASE Refuse(c) /\ UNCHANGED leases
  <2>1. /\ pc' \in [Calls -> Labels] /\ line' \in [Threads -> Seq(Calls)] /\ PoolTyped'
        /\ Books(pc', waiting', permits', leases)
        /\ \A d \in Calls : pc'[d] = pc[d] \/ pc'[d] \in Quiet
    BY <1>0, <1>2, <1>3, <1>4, RefuseKeeps
  <2>2. CallsTyped' /\ AimTyped' /\ RestTyped'
    BY <1>0, <1>1, <1>4, <2>1 DEF CallsTyped, AimTyped, RestTyped
  <2>3. CallInv'
    BY <1>0, <1>1, <2>1, CallInvKept
  <2> QED
    BY <1>0, <1>1, <1>4, <2>1, <2>2, <2>3, Assemble
<1>5. ASSUME NEW l \in {"instructed", "polling", "admitted"}, pc' = Moved(c, l),
             UNCHANGED <<line, waiting, permits, wake>>,
             IF l = "admitted" THEN leases' = leases \cup {c} /\ mode = "running" ELSE UNCHANGED leases
      PROVE  IInv'
  <2>1. l \in Labels /\ l \in Permitted /\ l # "queued" /\ (l \in Leased <=> l = "admitted")
    BY DEF Labels, Permitted, Leased
  <2>2. leases' = IF l \in Leased THEN leases \cup {c} ELSE leases \ {c}
    BY <1>3, <1>5, <2>1
  <2>3. /\ pc' \in [Calls -> Labels] /\ Books(pc', waiting', permits', leases')
        /\ pc'[c] = l /\ \A d \in Calls \ {c} : pc'[d] = pc[d]
    BY <1>0, <1>2, <1>5, <2>1, <2>2, MoveKeeps
  <2>4. leases' \subseteq Calls
    BY <1>0, <1>5 DEF RestTyped
  <2>5. CallsTyped' /\ PoolTyped' /\ AimTyped' /\ RestTyped'
    BY <1>0, <1>1, <1>5, <2>3, <2>4 DEF CallsTyped, PoolTyped, AimTyped, RestTyped
  <2>6. CallInv'
    BY <1>0, <1>1, <1>5, <2>3 DEF CallInv
  <2> QED
    BY <1>0, <1>1, <2>3, <2>5, <2>6, Assemble
<1>6. CASE Prepare(c)
  <2>1. UNCHANGED leases
    BY <1>6 DEF Prepare, control
  <2>2. Refuse(c) \/ (pc' = Moved(c, "instructed") /\ UNCHANGED <<line, waiting, permits, wake>>)
    BY <1>6 DEF Prepare
  <2> QED
    BY <1>4, <1>5, <2>1, <2>2
<1>7. CASE Poll(c)
  <2>1. UNCHANGED leases
    BY <1>7 DEF Poll, control
  <2>2. Refuse(c) \/ (pc' = Moved(c, "polling") /\ UNCHANGED <<line, waiting, permits, wake>>)
    BY <1>7 DEF Poll
  <2> QED
    BY <1>4, <1>5, <2>1, <2>2
<1>8. CASE TryAcquireLease(c)
  <2>1. \/ Refuse(c) /\ UNCHANGED leases
        \/ /\ UNCHANGED <<line, waiting, permits, wake>>
           /\ \/ mode = "running" /\ leases' = leases \cup {c} /\ pc' = Moved(c, "admitted")
              \/ pc' = Moved(c, "instructed") /\ UNCHANGED leases
    BY <1>8 DEF TryAcquireLease
  <2> QED
    BY <1>4, <1>5, <2>1
<1> QED
  BY <1>6, <1>7, <1>8

\* The launch and answers that grant no permit.
LEMMA LaunchKeeps == \A c \in Calls : IInv /\ (Launch(c) \/ RateLimited(c) \/ Fails(c)) => IInv'
<1> SUFFICES ASSUME NEW c \in Calls, IInv, Launch(c) \/ RateLimited(c) \/ Fails(c) PROVE IInv'
  OBVIOUS
<1>0. /\ CallsTyped /\ PoolTyped /\ AimTyped /\ RestTyped /\ modelCalls <= MaxTurns
      /\ Books(pc, waiting, permits, leases) /\ CallInv
  BY Disassemble
<1>1. /\ pc[c] \in {"admitted", "running"}
      /\ UNCHANGED <<attempt, line, waiting, permits, mode, cap, leases, lost, blocked, aborted, stopping, newCap,
                     commands, faults>>
  BY DEF Launch, RateLimited, Fails, control, operator
<1>2. pc[c] \in Permitted /\ pc[c] \in Leased /\ pc[c] # "queued"
  BY <1>1 DEF Permitted, Leased
<1>3. PICK l \in {"running", "retrying", "failing"} :
        /\ pc' = Moved(c, l)
        /\ l = "retrying" => attempt[c] < MaxAttempts
  BY DEF Launch, RateLimited, Fails, Retry
<1>4. l \in Labels /\ l \in Permitted /\ l \in Leased /\ l # "queued"
  BY DEF Labels, Permitted, Leased
<1>5. /\ pc' \in [Calls -> Labels] /\ Books(pc', waiting', permits', leases')
      /\ pc'[c] = l /\ \A d \in Calls \ {c} : pc'[d] = pc[d]
  <2>1. leases' = IF l \in Leased THEN leases \cup {c} ELSE leases \ {c}
    BY <1>0, <1>1, <1>2, <1>4 DEF Books
  <2> QED
    BY <1>0, <1>1, <1>2, <1>3, <1>4, <2>1, MoveKeeps
<1>6. CallInv'
  BY <1>0, <1>1, <1>3, <1>5 DEF CallInv
<1>7. AimTyped' /\ wake' \in Nat \cup {-1}
  <2>1. CASE Launch(c) \/ Fails(c)
    BY <1>0, <2>1, Options DEF Launch, Fails, AimTyped, PoolTyped
  <2>2. CASE RateLimited(c)
    <3>1. PICK after \in RetryAfter : paused' = Highest(paused, Highest(Cooldown, after))
      BY <2>2 DEF RateLimited
    <3>2. paused' \in Nat
      BY <1>0, <3>1, Options DEF Highest, AimTyped
    <3>3. target \in Nat /\ target \div 2 \in Nat /\ target \div 2 <= target
      BY <1>0, Options DEF AimTyped
    <3>4. target' \in Min..Max /\ nocut' \in Nat
      BY <1>0, <2>2, <3>3, Options DEF RateLimited, Highest, AimTyped
    <3>5. streak' = 0 /\ wake' \in {wake, paused'}
      BY <2>2 DEF RateLimited
    <3> QED
      BY <1>0, <3>2, <3>4, <3>5, Options DEF AimTyped, PoolTyped
  <2> QED
    BY <2>1, <2>2
<1>8. authFailed' \in BOOLEAN /\ modelCalls' \in Nat /\ modelCalls' <= MaxTurns
  <2>1. UNCHANGED authFailed \/ \E kind \in {"abort", "auth", "transient", "permanent"} :
                                  authFailed' = (authFailed \/ kind = "auth")
    BY DEF Launch, RateLimited, Fails
  <2>2. authFailed \in BOOLEAN /\ modelCalls \in Nat
    BY <1>0 DEF RestTyped
  <2>3. authFailed' \in BOOLEAN
    BY <2>1, <2>2
  <2>4. UNCHANGED modelCalls \/ (modelCalls' = modelCalls + 1 /\ ~ (modelCalls >= MaxTurns))
    BY DEF Launch, RateLimited, Fails
  <2> QED
    BY <1>0, <2>2, <2>3, <2>4, Options
<1>9. CallsTyped' /\ PoolTyped' /\ RestTyped'
  BY <1>0, <1>1, <1>5, <1>7, <1>8 DEF CallsTyped, PoolTyped, RestTyped
<1> QED
  BY <1>5, <1>6, <1>7, <1>8, <1>9, Assemble

LEMMA SucceedKeeps == \A c \in Calls : IInv /\ Succeed(c) => IInv'
<1> SUFFICES ASSUME NEW c \in Calls, IInv, Succeed(c) PROVE IInv'
  OBVIOUS
<1>0. /\ CallsTyped /\ PoolTyped /\ AimTyped /\ RestTyped /\ modelCalls <= MaxTurns
      /\ Books(pc, waiting, permits, leases) /\ CallInv
  BY Disassemble
<1> DEFINE next == Moved(c, "returning")
<1>1. /\ pc[c] = "running"
      /\ UNCHANGED <<attempt, line, paused, nocut, authFailed, modelCalls, mode, cap, leases, lost, blocked, aborted,
                     stopping, newCap, commands, faults>>
  BY DEF Succeed, control, operator
<1>2. /\ "returning" \in Labels /\ "returning" \in Permitted /\ "returning" \in Leased /\ "returning" \in Quiet
      /\ pc[c] \in Permitted /\ pc[c] \in Leased /\ pc[c] # "queued" /\ "granted" \in Quiet
  BY <1>1 DEF Labels, Permitted, Leased, Quiet
<1>3. waiting \ {c} = waiting /\ permits \cup {c} = permits /\ leases \cup {c} = leases
  BY <1>0, <1>2 DEF Books
<1>4. /\ next \in [Calls -> Labels] /\ next[c] = "returning" /\ \A d \in Calls \ {c} : next[d] = pc[d]
      /\ Books(next, waiting, permits, leases)
  <2>1. next \in [Calls -> Labels] /\ next[c] = "returning" /\ \A d \in Calls \ {c} : next[d] = pc[d]
    BY <1>0, <1>2, MovedBooks
  <2>2. Books(next, waiting \ {c}, permits \cup {c}, leases \cup {c})
    BY <1>0, <1>2, <2>1 DEF Books
  <2> QED
    BY <1>3, <2>1, <2>2
<1> HIDE DEF next
<1>5. /\ target' \in Min..Max /\ streak' \in 0..(GrowEvery - 1)
      /\ \/ Pump(waiting, permits, target', wake, next)
         \/ pc' = next /\ UNCHANGED <<waiting, permits, wake>>
  <2>1. CASE paused = 0 /\ streak + 1 >= GrowEvery
    BY <1>0, <2>1, Options DEF Succeed, Grown, Lowest, AimTyped, next
  <2>2. CASE ~ (paused = 0 /\ streak + 1 >= GrowEvery)
    BY <1>0, <2>2, Options DEF Succeed, AimTyped, next
  <2> QED
    BY <2>1, <2>2
<1>6. /\ pc' \in [Calls -> Labels] /\ PoolTyped' /\ Books(pc', waiting', permits', leases)
      /\ \A d \in Calls : pc'[d] = next[d] \/ pc'[d] = "granted"
  <2>1. CASE Pump(waiting, permits, target', wake, next)
    <3>1. /\ target' \in 0..Max /\ paused \in Nat /\ wake \in Nat \cup {-1} /\ Cardinality(permits) <= Max
          /\ waiting \in SUBSET Calls /\ permits \in SUBSET Calls
      BY <1>0, <1>5, Options DEF AimTyped, PoolTyped
    <3> QED
      BY <1>4, <2>1, <3>1, PumpKeepsBooks
  <2>2. CASE pc' = next /\ UNCHANGED <<waiting, permits, wake>>
    BY <1>0, <1>4, <2>2 DEF PoolTyped
  <2> QED
    BY <1>5, <2>1, <2>2
<1>7. CallsTyped' /\ AimTyped' /\ RestTyped'
  BY <1>0, <1>1, <1>5, <1>6 DEF CallsTyped, AimTyped, RestTyped
<1>8. CallInv'
  BY <1>0, <1>1, <1>2, <1>4, <1>6, CallInvKept
<1> QED
  BY <1>0, <1>1, <1>6, <1>7, <1>8, Assemble

LEMMA ReleaseKeeps == \A c \in Calls : IInv /\ Release(c) => IInv'
<1> SUFFICES ASSUME NEW c \in Calls, IInv, Release(c) PROVE IInv'
  OBVIOUS
<1>0. /\ CallsTyped /\ PoolTyped /\ AimTyped /\ RestTyped /\ modelCalls <= MaxTurns
      /\ Books(pc, waiting, permits, leases) /\ CallInv
  BY Disassemble
<1> DEFINE l == After(pc[c])
           next == Moved(c, l)
<1>1. /\ pc[c] \in {"returning", "retrying", "failing"} /\ leases' = leases \ {c}
      /\ UNCHANGED <<attempt, target, streak, paused, nocut, authFailed, modelCalls, mode, cap, lost, blocked, aborted,
                     stopping, newCap, commands, faults>>
      /\ Pump(waiting, permits \ {c}, target, wake, next)
      /\ Unlock({c}) \/ UNCHANGED line
  BY DEF Release, operator
<1>2. /\ l \in Labels /\ l \notin Permitted /\ l \notin Leased /\ l # "queued"
      /\ l \in Quiet \/ (l = "backoff" /\ pc[c] = "retrying")
      /\ "granted" \in Quiet /\ pc[c] # "queued"
  BY <1>1 DEF After, Labels, Settled, Permitted, Leased, Quiet
<1> HIDE DEF l
<1>3. pc[c] # "queued" /\ waiting \ {c} = waiting
  BY <1>0, <1>1 DEF Books
<1>4. /\ next \in [Calls -> Labels] /\ next[c] = l /\ \A d \in Calls \ {c} : next[d] = pc[d]
      /\ Books(next, waiting, permits \ {c}, leases \ {c})
  <2>1. next \in [Calls -> Labels] /\ next[c] = l /\ \A d \in Calls \ {c} : next[d] = pc[d]
    BY <1>0, <1>2, MovedBooks
  <2>2. Books(next, waiting \ {c}, permits \ {c}, leases \ {c})
    BY <1>0, <1>2, <2>1 DEF Books
  <2> QED
    BY <1>3, <2>1, <2>2
<1> HIDE DEF next
<1>5. /\ pc' \in [Calls -> Labels] /\ PoolTyped' /\ Books(pc', waiting', permits', leases')
      /\ \A d \in Calls : pc'[d] = next[d] \/ pc'[d] = "granted"
  <2>1. /\ target \in 0..Max /\ paused \in Nat /\ wake \in Nat \cup {-1}
        /\ waiting \in SUBSET Calls /\ permits \ {c} \in SUBSET Calls
    BY <1>0, Options DEF AimTyped, PoolTyped
  <2>2. Cardinality(permits \ {c}) <= Max
    BY <1>0, FewerPermits
  <2> QED
    BY <1>1, <1>4, <2>1, <2>2, PumpKeepsBooks
<1>6. CallsTyped' /\ AimTyped' /\ RestTyped'
  BY <1>0, <1>1, <1>5, UnlockTyped DEF CallsTyped, AimTyped, RestTyped
<1>7. CallInv'
  BY <1>0, <1>1, <1>2, <1>4, <1>5 DEF CallInv, Quiet
<1> QED
  BY <1>0, <1>1, <1>5, <1>6, <1>7, Assemble

LEMMA StoreFailsKeeps == \A c \in Calls : IInv /\ StoreFails(c) => IInv'
<1> SUFFICES ASSUME NEW c \in Calls, IInv, StoreFails(c) PROVE IInv'
  OBVIOUS
<1>0. /\ CallsTyped /\ PoolTyped /\ AimTyped /\ RestTyped /\ modelCalls <= MaxTurns
      /\ Books(pc, waiting, permits, leases) /\ CallInv
  BY Disassemble
<1>1. /\ pc[c] # "queued" /\ leases' = leases \ {c} /\ Refuse(c)
      /\ UNCHANGED <<attempt, target, streak, paused, nocut, authFailed, modelCalls, mode, cap, blocked, aborted,
                     stopping, newCap, commands>>
      /\ faults' = faults + 1 /\ (lost' = lost \/ lost' = lost + 1)
  BY DEF StoreFails, operator
<1>2. /\ pc' \in [Calls -> Labels] /\ line' \in [Threads -> Seq(Calls)] /\ PoolTyped'
      /\ Books(pc', waiting', permits', leases')
      /\ \A d \in Calls : pc'[d] = pc[d] \/ pc'[d] \in Quiet
  BY <1>0, <1>1, RefuseKeeps
<1>3. CallsTyped' /\ AimTyped' /\ RestTyped'
  BY <1>0, <1>1, <1>2 DEF CallsTyped, AimTyped, RestTyped
<1>4. CallInv'
  BY <1>0, <1>1, <1>2, CallInvKept
<1> QED
  BY <1>0, <1>1, <1>2, <1>3, <1>4, Assemble

-----------------------------------------------------------------------------
(* The invariant and the theorems. *)

LEMMA InitIInv == Init => IInv
<1> SUFFICES ASSUME Init PROVE IInv
  OBVIOUS
<1>1. CallsTyped
  BY Options DEF Init, CallsTyped, Labels
<1>2. PoolTyped /\ AimTyped
  BY Options, FS_EmptySet DEF Init, PoolTyped, AimTyped
<1>3. RestTyped
  <2>1. authFailed \in BOOLEAN /\ blocked \in BOOLEAN /\ aborted \in BOOLEAN
    BY Zenon DEF Init
  <2>2. cap \in 1..Max /\ newCap \in 0..Max /\ modelCalls \in Nat /\ lost \in Nat /\ commands \in Nat /\ faults \in Nat
    BY Options DEF Init
  <2> QED
    BY <2>1, <2>2 DEF Init, RestTyped
<1>4. PermitsMatchCalls
  BY Options DEF Init, PermitsMatchCalls, Permitted, Leased
<1>5. CallInv
  BY DEF Init, CallInv
<1> QED
  BY <1>1, <1>2, <1>3, <1>4, <1>5, TypeParts DEF IInv

LEMMA NextIInv == IInv /\ [Next]_vars => IInv'
<1> SUFFICES ASSUME IInv, [Next]_vars PROVE IInv'
  OBVIOUS
<1>1. ASSUME NEW c \in Calls, Run(c) \/ CallStep(c) \/ StoreFails(c) PROVE IInv'
  BY <1>1, RunKeeps, AttemptKeeps, AdmissionKeeps, LaunchKeeps, SucceedKeeps, ReleaseKeeps, StoreFailsKeeps
     DEF CallStep, Answer
<1>2. CASE UNCHANGED vars
  BY <1>2 DEF vars, poolState, control, operator, IInv, TypeOK, PermitsMatchCalls, CallInv
<1> QED
  BY <1>1, <1>2, TimersKeep, OperateKeeps DEF Next

LEMMA SpecIInv == Spec => []IInv
BY InitIInv, NextIInv, PTL DEF Spec

\* Calls, queues, pool and control state keep their types: no more permits are
\* out than the pool's maximum, whatever the target does, and no call begins
\* more attempts than it may (AdaptivePermitPool.pump, AgentGateway.run).
THEOREM GatewayTypeCorrect == Spec => []TypeOK
BY SpecIInv, PTL DEF IInv

\* Permits, leases and queue are exactly those of the calls that should have
\* them, and the run's turn budget holds (AgentGateway.runUnlocked).
THEOREM PermitsAreAccounted == Spec => []PermitsMatchCalls
BY SpecIInv, PTL DEF IInv

\* No call is sent to the backend while the run is durably paused or cancelled
\* or the authentication circuit is open (AgentGateway.runUnlocked).
THEOREM LaunchesHeld == Spec => StopsHoldLaunches
<1>1. IInv /\ [Next]_vars => [mode # "running" \/ authFailed => modelCalls' = modelCalls]_vars
  <2> SUFFICES ASSUME IInv, Next, modelCalls' # modelCalls PROVE mode = "running" /\ ~authFailed
    OBVIOUS
  <2>1. ASSUME NEW c \in Calls, Launch(c) PROVE mode = "running" /\ ~authFailed
    BY <2>1 DEF Launch, IInv, CallInv
  <2>2. \E c \in Calls : Launch(c)
    BY DEF Next, Timers, Tick, Wake, Expire, Operate, Pause, Resume, WriteCap, StopDurably, Abort, SetConcurrency,
       Stop, Run, CallStep, StoreFails, Attempt, Prepare, Poll, TryAcquireLease, Answer, Succeed, RateLimited,
       Fails, Release
  <2> QED
    BY <2>1, <2>2
<1> QED
  BY <1>1, SpecIInv, PTL DEF Spec, StopsHoldLaunches
=============================================================================
