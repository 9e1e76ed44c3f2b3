----------------------------- MODULE Supervisor -----------------------------
(***************************************************************************)
(* AppServerSupervisor (src/src/backend/app-server-supervisor.ts): calls   *)
(* are admitted to the shard of their thread, take turns on their thread,  *)
(* wait for one of the shard's permits and run on its backend, behind a    *)
(* circuit breaker that lets one probe through after a cooldown.           *)
(*                                                                         *)
(* A step is what one call, the factory, the backend, a timer or the owner *)
(* does between two awaits.  Each call has an abort signal of its own.     *)
(***************************************************************************)
EXTENDS Integers, Sequences, FiniteSets

CONSTANTS Calls,      \* calls of run()
          Threads, ThreadOf,  \* ThreadOf[c]: the threadKey of c
          Shards, ShardOf,    \* ShardOf[t]: shardForThread
          None,       \* no call
          MaxInflight, MaxQueue,  \* maxInflightPerShard, maxQueuePerShard
          Threshold,  \* failureThreshold
          Cooldown,   \* circuitCooldownMs, in ticks
          MaxAborts   \* bound: aborted calls

ASSUME SupervisorAssumption ==
  /\ IsFiniteSet(Calls) /\ None \notin Calls
  /\ ThreadOf \in [Calls -> Threads] /\ ShardOf \in [Threads -> Shards]
  /\ MaxInflight \in Nat \ {0} /\ MaxQueue \in Nat
  /\ Threshold \in Nat \ {0} /\ Cooldown \in Nat /\ MaxAborts \in Nat

Shard(c) == ShardOf[ThreadOf[c]]
Capacity == MaxInflight + MaxQueue

VARIABLES
  pc,        \* pc[c]: where the call stands, see Labels
  aborted,   \* calls whose signal has fired
  probes,    \* calls that were let in as the probe of an open circuit
  holder,    \* holder[t]: the call that has the mutex of the thread
  line,      \* line[t]: calls that await it
  admitted,  \* admitted[s]: calls let in and not yet gone
  inflight,  \* inflight[s]: permits taken
  waiters,   \* waiters[s]: calls that await a permit
  failures,  \* failures[s]: consecutiveFailures
  cool,      \* cool[s]: ticks left before a probe, Closed when the circuit is not open
  halfOpen,  \* halfOpen[s]: halfOpenProbe
  backend,   \* backend[s]: the backend of the shard, see Backends
  close      \* what close() has come to

locks == <<holder, line>>
permits == <<inflight, waiters>>
circuit == <<failures, cool, halfOpen, probes>>
vars == <<pc, aborted, locks, admitted, permits, circuit, backend, close>>

Closed == -1
Labels == {"idle", "thread", "turn", "queued", "granted", "starting", "broken", "running",
           "unlocking", "leaving", "settled"}
Permitted == {"granted", "starting", "broken", "running"}
Locked == Permitted \cup {"turn", "queued", "unlocking"}
Inside == Labels \ {"idle", "settled"}
Backends == {"none", "starting", "up", "closing", "closed"}

In(labels, s) == {c \in Calls : Shard(c) = s /\ pc[c] \in labels}
closing == close # "open"

TypeOK ==
  /\ pc \in [Calls -> Labels] /\ aborted \subseteq Calls /\ probes \subseteq Calls
  /\ holder \in [Threads -> Calls \cup {None}] /\ line \in [Threads -> Seq(Calls)]
  /\ admitted \in [Shards -> 0..Capacity] /\ inflight \in [Shards -> 0..MaxInflight]
  /\ waiters \in [Shards -> Seq(Calls)]
  /\ failures \in [Shards -> Nat] /\ cool \in [Shards -> {Closed} \cup 0..Cooldown]
  /\ halfOpen \in [Shards -> BOOLEAN] /\ backend \in [Shards -> Backends]
  /\ close \in {"open", "draining", "drained", "shutdown", "timedout"}

Init ==
  /\ pc = [c \in Calls |-> "idle"] /\ aborted = {} /\ probes = {}
  /\ holder = [t \in Threads |-> None] /\ line = [t \in Threads |-> <<>>]
  /\ admitted = [s \in Shards |-> 0] /\ inflight = [s \in Shards |-> 0]
  /\ waiters = [s \in Shards |-> <<>>]
  /\ failures = [s \in Shards |-> 0] /\ cool = [s \in Shards |-> Closed]
  /\ halfOpen = [s \in Shards |-> FALSE]
  /\ backend = [s \in Shards |-> "none"] /\ close = "open"

-----------------------------------------------------------------------------
(* Queues and moves. *)

\* splice(indexOf(c), 1)
Without(queue, c) ==
  LET i == CHOOSE k \in DOMAIN queue : queue[k] = c
  IN [j \in 1..(Len(queue) - 1) |-> IF j < i THEN queue[j] ELSE queue[j + 1]]

Moved(c, label) == [pc EXCEPT ![c] = label]
MovedAll(from, next, label) == [c \in Calls |-> IF c \in from THEN label ELSE next[c]]

ReleaseTwice(s, queue, next) ==  \* (mutated form: handed over and given back)
  /\ inflight' = [inflight EXCEPT ![s] = @ - 1]
  /\ IF queue # <<>>
     THEN waiters' = [waiters EXCEPT ![s] = Tail(queue)] /\ pc' = [next EXCEPT ![Head(queue)] = "granted"]
     ELSE waiters' = [waiters EXCEPT ![s] = queue] /\ pc' = next

ReleaseOnly(s, queue, next) ==  \* (mutated form: nobody is woken)
  /\ inflight' = [inflight EXCEPT ![s] = @ - 1]
  /\ waiters' = [waiters EXCEPT ![s] = queue]
  /\ pc' = next

\* releasePermit: the permit goes to the first waiter, or back.  Waiters that
\* aborted have left the queue by then.
Release(s, queue, next) ==
  IF ~closing /\ queue # <<>>
  THEN /\ waiters' = [waiters EXCEPT ![s] = Tail(queue)]
       /\ pc' = [next EXCEPT ![Head(queue)] = "granted"]
       /\ UNCHANGED inflight
  ELSE /\ inflight' = [inflight EXCEPT ![s] = @ - 1]
       /\ waiters' = [waiters EXCEPT ![s] = queue]
       /\ pc' = next

-----------------------------------------------------------------------------
(* The life of a call. *)

\* authorizeCircuit refuses.
CircuitRefuses(s) == cool[s] > 0 \/ (cool[s] = 0 /\ halfOpen[s])

AtCapacity(s) == admitted[s] >= Capacity

Free(t) == holder[t] = None

\* run: refused, or let in and put in line for the thread.
Run(c) ==
  LET s == Shard(c)  t == ThreadOf[c]
      refused == closing \/ c \in aborted \/ CircuitRefuses(s) \/ AtCapacity(s)
  IN /\ pc[c] = "idle"
     /\ IF refused
        THEN pc' = Moved(c, "settled") /\ UNCHANGED <<locks, admitted, circuit>>
        ELSE /\ admitted' = [admitted EXCEPT ![s] = @ + 1]
             /\ IF cool[s] = Closed THEN UNCHANGED <<halfOpen, probes>>
                ELSE halfOpen' = [halfOpen EXCEPT ![s] = TRUE] /\ probes' = probes \cup {c}
             /\ IF Free(t)
                THEN holder' = [holder EXCEPT ![t] = c] /\ pc' = Moved(c, "turn") /\ UNCHANGED line
                ELSE line' = [line EXCEPT ![t] = Append(@, c)] /\ pc' = Moved(c, "thread")
                     /\ UNCHANGED holder
             /\ UNCHANGED <<failures, cool>>
     /\ UNCHANGED <<aborted, permits, backend, close>>

\* With the thread, the circuit is looked at again and a permit acquired.
AcquirePermit(c) ==
  LET s == Shard(c)
      refused == closing \/ c \in aborted \/ (c \notin probes /\ cool[s] # Closed)
  IN /\ pc[c] = "turn"
     /\ \/ refused /\ pc' = Moved(c, "unlocking") /\ UNCHANGED permits
        \/ ~refused /\ inflight[s] < MaxInflight
           /\ inflight' = [inflight EXCEPT ![s] = @ + 1]
           /\ pc' = Moved(c, "granted") /\ UNCHANGED waiters
        \/ /\ ~refused /\ inflight[s] >= MaxInflight
           /\ IF Len(waiters[s]) < MaxQueue
              THEN waiters' = [waiters EXCEPT ![s] = Append(@, c)] /\ pc' = Moved(c, "queued")
              ELSE pc' = Moved(c, "unlocking") /\ UNCHANGED waiters
           /\ UNCHANGED inflight
     /\ UNCHANGED <<aborted, locks, admitted, circuit, backend, close>>

\* ensureBackend: one startup per shard, which all calls share.
EnsureBackend(c) ==
  LET s == Shard(c)
  IN /\ pc[c] = "granted"
     /\ pc' = Moved(c, IF backend[s] \in {"none", "starting"} THEN "starting" ELSE "running")
     /\ backend' = [backend EXCEPT ![s] = IF @ = "none" THEN "starting" ELSE @]
     /\ UNCHANGED <<aborted, locks, admitted, permits, circuit, close>>

\* recordSuccess, whatever has happened to the circuit since the call began.
Succeed(c) ==
  LET s == Shard(c)
  IN /\ pc[c] = "running"
     /\ failures' = [failures EXCEPT ![s] = 0] /\ cool' = [cool EXCEPT ![s] = Closed]
     /\ Release(s, waiters[s], Moved(c, "unlocking"))
     /\ UNCHANGED <<aborted, locks, admitted, halfOpen, probes, backend, close>>

\* An error that says nothing of the backend's health.
Fail(c) ==
  /\ pc[c] \in {"running", "broken"}
  /\ Release(Shard(c), waiters[Shard(c)], Moved(c, "unlocking"))
  /\ UNCHANGED <<aborted, locks, admitted, circuit, backend, close>>

KeepWaiters(s) == {}  \* (mutated form: an opening circuit leaves the waiters alone)
Rejected(s) == In({"queued"}, s)

\* recordFailure: from the threshold on the circuit opens (again), and all who
\* wait for a permit are rejected.
FailTransport(c) ==
  LET s == Shard(c)  opens == failures[s] + 1 >= Threshold
  IN /\ pc[c] \in {"running", "broken"}
     /\ failures' = [failures EXCEPT ![s] = @ + 1]
     /\ cool' = [cool EXCEPT ![s] = IF opens THEN Cooldown ELSE @]
     /\ LET gone == IF opens THEN Rejected(s) ELSE {}
        IN Release(s, IF gone = {} THEN waiters[s] ELSE <<>>,
                   MovedAll(gone \cup {c}, pc, "unlocking"))
     /\ UNCHANGED <<aborted, locks, admitted, halfOpen, probes, backend, close>>

\* releaseThreadLock: the thread goes to the next in line.
Unlock(c) ==
  LET t == ThreadOf[c]
  IN /\ pc[c] = "unlocking"
     /\ IF line[t] = <<>>
        THEN holder' = [holder EXCEPT ![t] = None] /\ pc' = Moved(c, "leaving") /\ UNCHANGED line
        ELSE /\ holder' = [holder EXCEPT ![t] = Head(line[t])]
             /\ line' = [line EXCEPT ![t] = Tail(@)]
             /\ pc' = [Moved(c, "leaving") EXCEPT ![Head(line[t])] = "turn"]
     /\ UNCHANGED <<aborted, admitted, permits, circuit, backend, close>>

\* The outer finally: the probe is over, the place is free, and the last one
\* out ends the drain.
Leave(c) ==
  LET s == Shard(c)
  IN /\ pc[c] = "leaving" /\ pc' = Moved(c, "settled")
     /\ admitted' = [admitted EXCEPT ![s] = @ - 1]
     /\ IF c \in probes
        THEN halfOpen' = [halfOpen EXCEPT ![s] = FALSE] /\ probes' = probes \ {c}
        ELSE UNCHANGED <<halfOpen, probes>>
     /\ close' = IF close = "draining" /\ \A r \in Shards : admitted'[r] = 0 THEN "drained" ELSE close
     /\ UNCHANGED <<aborted, locks, permits, failures, cool, backend>>

\* The signal fires: a call that waits leaves its queue at once.
Abort(c) ==
  LET s == Shard(c)  t == ThreadOf[c]
  IN /\ c \notin aborted /\ pc[c] # "settled" /\ Cardinality(aborted) < MaxAborts
     /\ aborted' = aborted \cup {c}
     /\ IF pc[c] = "thread"
        THEN line' = [line EXCEPT ![t] = Without(@, c)] /\ pc' = Moved(c, "leaving")
             /\ UNCHANGED waiters
        ELSE IF pc[c] = "queued"
        THEN waiters' = [waiters EXCEPT ![s] = Without(@, c)] /\ pc' = Moved(c, "unlocking")
             /\ UNCHANGED line
        ELSE UNCHANGED <<line, pc, waiters>>
     /\ UNCHANGED <<holder, admitted, inflight, circuit, backend, close>>

-----------------------------------------------------------------------------
(* The factory, the clock and close(). *)

\* The startup settles for all who await it.
FactoryDone(s) ==
  /\ backend[s] = "starting"
  /\ \/ /\ backend' = [backend EXCEPT ![s] = IF close = "timedout" THEN "closing" ELSE "up"]
        /\ pc' = MovedAll(In({"starting"}, s), pc, "running")
     \/ /\ backend' = [backend EXCEPT ![s] = "none"]
        /\ pc' = MovedAll(In({"starting"}, s), pc, "broken")
  /\ UNCHANGED <<aborted, locks, admitted, permits, circuit, close>>

Tick(s) ==
  /\ cool[s] > 0 /\ cool' = [cool EXCEPT ![s] = @ - 1]
  /\ UNCHANGED <<pc, aborted, locks, admitted, permits, failures, halfOpen, probes, backend, close>>

\* closeOnce, up to its first await.
Close ==
  /\ close = "open"
  /\ close' = IF \A s \in Shards : admitted[s] = 0 THEN "drained" ELSE "draining"
  /\ waiters' = [s \in Shards |-> <<>>] /\ line' = [t \in Threads |-> <<>>]
  /\ pc' = [c \in Calls |-> CASE pc[c] = "queued" -> "unlocking"
                              [] pc[c] = "thread" -> "leaving"
                              [] OTHER -> pc[c]]
  /\ UNCHANGED <<aborted, holder, admitted, inflight, circuit, backend>>

\* Backends that are up are closed.
ClosingBackends == [s \in Shards |-> IF backend[s] = "up" THEN "closing" ELSE backend[s]]

ShutDown ==
  /\ close = "drained" /\ close' = "shutdown"
  /\ backend' = ClosingBackends
  /\ UNCHANGED <<pc, aborted, locks, admitted, permits, circuit>>

ReadyOnly ==  \* (mutated form: a backend that is starting is forgotten)
  /\ close = "draining" /\ close' = "shutdown"
  /\ \A c \in Calls : pc[c] \notin {"turn", "granted", "broken", "unlocking", "leaving"}
  /\ backend' = ClosingBackends
  /\ UNCHANGED <<pc, aborted, locks, admitted, permits, circuit>>

\* The drain timer fires when no call has a step to take by itself; backends
\* are closed under the calls, and one that is starting when it is up.
DrainTimesOut ==
  /\ close = "draining" /\ close' = "timedout"
  /\ \A c \in Calls : pc[c] \notin {"turn", "granted", "broken", "unlocking", "leaving"}
  /\ backend' = ClosingBackends
  /\ UNCHANGED <<pc, aborted, locks, admitted, permits, circuit>>

BackendCloses(s) ==
  /\ backend[s] = "closing" /\ backend' = [backend EXCEPT ![s] = "closed"]
  /\ UNCHANGED <<pc, aborted, locks, admitted, permits, circuit, close>>

CallStep(c) == Run(c) \/ AcquirePermit(c) \/ EnsureBackend(c) \/ Unlock(c) \/ Leave(c)
Answer(c) == Succeed(c) \/ Fail(c) \/ FailTransport(c)

Next ==
  \/ \E c \in Calls : CallStep(c) \/ Answer(c) \/ Abort(c)
  \/ \E s \in Shards : FactoryDone(s) \/ Tick(s) \/ BackendCloses(s)
  \/ Close \/ ShutDown \/ DrainTimesOut

Spec == Init /\ [][Next]_vars

-----------------------------------------------------------------------------
(* Properties. *)

\* Every permit has an owner, every call that was let in is counted, and the
\* counters never pass their limits.  Capacity at admission is enough: the
\* second check, of the permit queue, never refuses a call.
CapacityHolds ==
  \A s \in Shards :
    /\ inflight[s] = Cardinality(In(Permitted, s))
    /\ admitted[s] = Cardinality(In(Inside, s))
    /\ admitted[s] <= Capacity
    /\ In({"turn"}, s) # {} /\ inflight[s] >= MaxInflight => Len(waiters[s]) < MaxQueue

\* No handover is lost: while a call waits for a permit all permits are out,
\* while one waits for its thread another one has the thread, and who is past
\* the mutex is the one that has it, however aborts, failures and close() fall.
NoLostHandover ==
  /\ \A c \in Calls : pc[c] = "queued" => inflight[Shard(c)] = MaxInflight
  /\ \A c \in Calls : pc[c] = "thread" => holder[ThreadOf[c]] # None
  /\ \A t \in Threads : holder[t] # None =>
       ThreadOf[holder[t]] = t /\ pc[holder[t]] \in Locked
  /\ \A c \in Calls : pc[c] \in Locked => holder[ThreadOf[c]] = c

\* The half-open flag always belongs to exactly one call inside, even when
\* the circuit was closed and opened again under the probe.
OneProbe ==
  \A s \in Shards :
    LET inside == {c \in probes : Shard(c) = s}
    IN /\ halfOpen[s] <=> inside # {}
       /\ Cardinality(inside) <= 1 /\ inside \subseteq In(Inside, s)

\* Permits, places, threads and the probe are never lost or handed out twice.
NothingLost == CapacityHolds /\ NoLostHandover /\ OneProbe

\* While the circuit is open only its probe gets a permit or waits for one.
OpenGrantsProbe ==
  [][\A c \in Calls :
       pc[c] # "granted" /\ pc'[c] = "granted" /\ cool'[Shard(c)] # Closed => c \in probes]_vars

\* close() ends: no backend is left running, even one that starts late, and
\* every call settles but those a backend does not answer and nobody aborts.
\* (A backend that is closed need not answer the turns it runs, see AppServer.)
CloseSettles ==
  closing ~> /\ \A c \in Calls : pc[c] \in {"idle", "settled"} \/ (pc[c] = "running" /\ c \notin aborted)
             /\ \A s \in Shards : backend[s] \in {"none", "closed"}

\* The event loop runs what is ready, timers fire, a startup has a deadline, and
\* a backend answers an aborted call.  It may leave others without an answer.
Fairness ==
  /\ \A c \in Calls : WF_vars(AcquirePermit(c) \/ EnsureBackend(c) \/ Unlock(c) \/ Leave(c))
  /\ \A c \in Calls : WF_vars((pc[c] = "broken" \/ c \in aborted) /\ Answer(c))
  /\ \A s \in Shards : WF_vars(FactoryDone(s)) /\ WF_vars(BackendCloses(s))
  /\ WF_vars(ShutDown) /\ WF_vars(DrainTimesOut)

FairSpec == Spec /\ Fairness
=============================================================================
