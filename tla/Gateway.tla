------------------------------- MODULE Gateway -------------------------------
(***************************************************************************)
(* Admission of model calls: AgentGateway (src/src/runtime/gateway.ts)     *)
(* with its permit pool (src/src/runtime/adaptive-pool.ts), its durable    *)
(* launch leases (src/src/controls) and the operator of the run, who is in *)
(* the same process.                                                       *)
(*                                                                         *)
(* JavaScript runs to the next await, so a step of the model is what       *)
(* happens between two awaits of a call, of an operator command or of a    *)
(* timer.  Time is what is left of the cooldown, of the period in which    *)
(* the target is not cut again, and of the wake timer.                     *)
(***************************************************************************)
EXTENDS Integers, Sequences, FiniteSets

CONSTANTS Calls,         \* logical calls (AgentGateway.run)
          Threads, ThreadOf,  \* ThreadOf[c]: the threadKey of c
          MaxAttempts,   \* gatewayMaxAttempts
          MaxTurns,      \* maxAgentTurns
          Min, Initial, Max, GrowEvery, GrowBy,  \* the pool's options
          Cooldown,      \* rateLimitCooldownMs, in ticks
          RetryAfter,    \* cooldowns a 429 may ask for, in ticks
          MaxCommands,   \* bound: operator commands
          MaxFaults      \* bound: failing accesses to the control store

Lowest(a, b) == IF a <= b THEN a ELSE b
Highest(a, b) == IF a >= b THEN a ELSE b

ASSUME GatewayAssumption ==
  /\ ThreadOf \in [Calls -> Threads] /\ IsFiniteSet(Calls)
  /\ MaxAttempts \in Nat \ {0} /\ MaxTurns \in Nat \ {0}
  /\ {Min, Initial, Max, GrowEvery, GrowBy, Cooldown} \subseteq Nat \ {0}
  /\ Min <= Initial /\ Initial <= Max
  /\ RetryAfter \subseteq Nat
  /\ MaxCommands \in Nat /\ MaxFaults \in Nat

VARIABLES
  pc,         \* pc[c]: where the call stands, see Labels
  attempt,    \* attempt[c]: attempts begun
  line,       \* line[t]: calls that hold (head) or await the mutex of a thread
  waiting,    \* calls in the queue of the pool
  permits,    \* calls that hold a permit of the pool
  target,     \* concurrency the pool aims at
  streak,     \* successes since the last growth or failure
  paused,     \* ticks left of the cooldown (pausedUntil)
  nocut,      \* ticks in which the target is not cut again (nextRateCutAt)
  wake,       \* ticks until the pool's wake timer fires, -1 when there is none
  authFailed, \* the authentication circuit is open
  modelCalls, \* calls sent to the backend
  mode, cap,  \* the durable control state, and its leases:
  leases,     \* calls with a launch lease
  lost,       \* leases nobody will release; they expire
  blocked,    \* launchBlockedReason is set
  aborted,    \* the signal shared by all calls
  stopping,   \* a cancel or an interrupt under way, see Stop
  newCap,     \* a concurrency cap still to be made durable, 0 if none
  commands, faults

poolState == <<waiting, permits, target, streak, paused, nocut, wake>>
control == <<mode, cap, leases, lost>>
operator == <<blocked, aborted, stopping, newCap, commands>>
vars == <<pc, attempt, line, poolState, authFailed, modelCalls, control, operator, faults>>

\* Where a call holds a permit, and where it holds a lease as well.
Leased == {"admitted", "running", "returning", "retrying", "failing"}
Permitted == {"granted", "instructed", "polling"} \cup Leased
Settled == {"done", "failed"}
Labels == {"idle", "thread", "queued", "backoff"} \cup Permitted \cup Settled

TypeOK ==
  /\ pc \in [Calls -> Labels] /\ attempt \in [Calls -> 0..MaxAttempts]
  /\ line \in [Threads -> Seq(Calls)]
  /\ waiting \subseteq Calls /\ permits \subseteq Calls /\ Cardinality(permits) <= Max
  /\ target \in Min..Max /\ streak \in 0..(GrowEvery - 1)
  /\ paused \in Nat /\ nocut \in Nat /\ wake \in Nat \cup {-1}
  /\ authFailed \in BOOLEAN /\ modelCalls \in Nat
  /\ mode \in {"running", "paused", "cancelled"} /\ cap \in 1..Max
  /\ leases \subseteq Calls /\ lost \in Nat
  /\ blocked \in BOOLEAN /\ aborted \in BOOLEAN
  /\ stopping \in {"no", "cancel", "interrupt", "abort"}
  /\ newCap \in 0..Max /\ commands \in Nat /\ faults \in Nat

Init ==
  /\ pc = [c \in Calls |-> "idle"] /\ attempt = [c \in Calls |-> 0]
  /\ line = [t \in Threads |-> <<>>]
  /\ waiting = {} /\ permits = {} /\ target = Initial /\ streak = 0
  /\ paused = 0 /\ nocut = 0 /\ wake = -1
  /\ authFailed = FALSE /\ modelCalls = 0
  /\ mode = "running" /\ cap = Max /\ leases = {} /\ lost = 0
  /\ blocked = FALSE /\ aborted = FALSE /\ stopping = "no"
  /\ newCap = 0 /\ commands = 0 /\ faults = 0

-----------------------------------------------------------------------------
(* The permit pool. *)

NoTimer(queue, timer) == timer  \* (mutated form: scheduleWake is forgotten)
\* scheduleWake.
Timer(queue, timer) == IF paused > 0 /\ queue # {} /\ timer = -1 THEN paused ELSE timer

\* pump: with these calls queued, permits out and target, grants as many permits
\* as it may, none in a cooldown.  The queue is ordered by role, task priority
\* and age; which call comes first is left open.  The calls move to state next,
\* those with a new permit to "granted".
Pump(queue, out, goal, timer, next) ==
  \E granted \in SUBSET queue :
    /\ Cardinality(granted) =
         IF paused > 0 THEN 0
         ELSE Lowest(Cardinality(queue), Highest(0, goal - Cardinality(out)))
    /\ waiting' = queue \ granted
    /\ permits' = out \cup granted
    /\ pc' = [c \in Calls |-> IF c \in granted THEN "granted" ELSE next[c]]
    /\ wake' = Timer(queue, timer)

Moved(c, label) == [pc EXCEPT ![c] = label]

\* The calls of a queue that stay, in their order.
Remaining(queue, gone) ==
  LET kept[i \in 0..Len(queue)] ==
        IF i = 0 THEN <<>>
        ELSE IF queue[i] \in gone THEN kept[i - 1] ELSE Append(kept[i - 1], queue[i])
  IN kept[Len(queue)]

\* A call that settles leaves the mutex of its thread to the next one.
Unlock(settled) == line' = [t \in Threads |-> Remaining(line[t], settled)]

\* releasePermits without a lease, and the call fails.
Refuse(c) ==
  /\ Pump(waiting, permits \ {c}, target, wake, Moved(c, "failed"))
  /\ Unlock({c})

\* The wake timer of a cooldown fires.
Wake ==
  /\ wake = 0
  /\ Pump(waiting, permits, target, -1, pc)
  /\ UNCHANGED <<attempt, line, target, streak, paused, nocut, authFailed, modelCalls,
                 control, operator, faults>>

Tick ==
  /\ paused > 0 \/ nocut > 0 \/ wake > 0
  /\ paused' = Highest(0, paused - 1) /\ nocut' = Highest(0, nocut - 1)
  /\ wake' = IF wake > 0 THEN wake - 1 ELSE wake
  /\ UNCHANGED <<pc, attempt, line, waiting, permits, target, streak, authFailed, modelCalls,
                 control, operator, faults>>

-----------------------------------------------------------------------------
(* A call up to its launch. *)

Run(c) ==
  /\ pc[c] = "idle"
  /\ IF aborted THEN pc' = Moved(c, "failed") /\ UNCHANGED line
     ELSE /\ pc' = Moved(c, "thread")
          /\ line' = [line EXCEPT ![ThreadOf[c]] = Append(@, c)]
  /\ UNCHANGED <<attempt, poolState, authFailed, modelCalls, control, operator, faults>>

HasTurn(c) == pc[c] = "backoff" \/ (pc[c] = "thread" /\ Head(line[ThreadOf[c]]) = c)

\* An attempt asks the pool for a permit, unless the circuit is open.
Attempt(c) ==
  /\ HasTurn(c)
  /\ IF authFailed \/ aborted
     THEN /\ pc' = Moved(c, "failed") /\ Unlock({c})
          /\ UNCHANGED <<attempt, waiting, permits, wake>>
     ELSE /\ attempt' = [attempt EXCEPT ![c] = @ + 1]
          /\ Pump(waiting \cup {c}, permits, target, wake, Moved(c, "queued"))
          /\ UNCHANGED line
  /\ UNCHANGED <<target, streak, paused, nocut, authFailed, modelCalls, control, operator, faults>>

\* The permit arrives: circuit and turn budget are checked, and the operator's
\* instruction is fetched.
Prepare(c) ==
  /\ pc[c] = "granted"
  /\ IF authFailed \/ modelCalls >= MaxTurns THEN Refuse(c)
     ELSE pc' = Moved(c, "instructed") /\ UNCHANGED <<line, waiting, permits, wake>>
  /\ UNCHANGED <<attempt, target, streak, paused, nocut, authFailed, modelCalls,
                 control, operator, faults>>

\* ExecutionController.acquire polls for a lease.
Poll(c) ==
  /\ pc[c] = "instructed"
  /\ IF blocked \/ aborted THEN Refuse(c)
     ELSE pc' = Moved(c, "polling") /\ UNCHANGED <<line, waiting, permits, wake>>
  /\ UNCHANGED <<attempt, target, streak, paused, nocut, authFailed, modelCalls,
                 control, operator, faults>>

AnyTime == TRUE  \* (mutated form: more I/O between the lease and the launch)

\* The control store is written under its lock.  A call that got its lease
\* launches before another writer can follow: no I/O lies between.
StoreFree == \A c \in Calls : pc[c] # "admitted"

TryAcquireLease(c) ==
  /\ pc[c] = "polling" /\ StoreFree
  /\ IF mode = "cancelled" THEN Refuse(c) /\ UNCHANGED leases
     ELSE /\ IF mode = "running" /\ Cardinality(leases) + lost < cap
             THEN leases' = leases \cup {c} /\ pc' = Moved(c, "admitted")
             ELSE pc' = Moved(c, "instructed") /\ UNCHANGED leases
          /\ UNCHANGED <<line, waiting, permits, wake>>
  /\ UNCHANGED <<attempt, target, streak, paused, nocut, authFailed, modelCalls,
                 mode, cap, lost, operator, faults>>

\* Circuit and budget are checked again, and the backend is called.
Launch(c) ==
  /\ pc[c] = "admitted"
  /\ IF authFailed \/ modelCalls >= MaxTurns
     THEN pc' = Moved(c, "failing") /\ streak' = 0 /\ UNCHANGED modelCalls
     ELSE pc' = Moved(c, "running") /\ modelCalls' = modelCalls + 1 /\ UNCHANGED streak
  /\ UNCHANGED <<attempt, line, waiting, permits, target, paused, nocut, wake, authFailed,
                 control, operator, faults>>

-----------------------------------------------------------------------------
(* The answer of the backend. *)

GrownFreely == target + GrowBy  \* (mutated form: the maximum is forgotten)
Grown == Lowest(Max, target + GrowBy)

\* recordSuccess: no growth in a cooldown.
Succeed(c) ==
  /\ pc[c] = "running"
  /\ IF paused = 0 /\ streak + 1 >= GrowEvery
     THEN /\ target' = Grown /\ streak' = 0
          /\ Pump(waiting, permits, target', wake, Moved(c, "returning"))
     ELSE /\ streak' = (IF paused = 0 THEN streak + 1 ELSE streak)
          /\ pc' = Moved(c, "returning") /\ UNCHANGED <<target, waiting, permits, wake>>
  /\ UNCHANGED <<attempt, line, paused, nocut, authFailed, modelCalls, control, operator, faults>>

Retry(c) == Moved(c, IF attempt[c] < MaxAttempts THEN "retrying" ELSE "failing")

\* recordRateLimit: the target is halved once per Cooldown, the cooldown may
\* last longer when the answer says so.
RateLimited(c) ==
  /\ pc[c] = "running" /\ ~aborted
  /\ \E after \in RetryAfter : paused' = Highest(paused, Highest(Cooldown, after))
  /\ IF nocut = 0 THEN target' = Highest(Min, target \div 2) /\ nocut' = Cooldown
     ELSE UNCHANGED <<target, nocut>>
  /\ wake' = IF waiting # {} /\ wake = -1 THEN paused' ELSE wake
  /\ streak' = 0 /\ pc' = Retry(c)
  /\ UNCHANGED <<attempt, line, waiting, permits, authFailed, modelCalls, control, operator, faults>>

\* Every other failure; 401 opens the circuit, a timeout is transient, and
\* after an abort nothing is retried.
Fails(c) ==
  /\ pc[c] = "running"
  /\ \E kind \in IF aborted THEN {"abort"} ELSE {"auth", "transient", "permanent"} :
       /\ pc' = IF kind = "transient" THEN Retry(c) ELSE Moved(c, "failing")
       /\ authFailed' = (authFailed \/ kind = "auth")
  /\ streak' = 0
  /\ UNCHANGED <<attempt, line, waiting, permits, target, paused, nocut, wake, modelCalls,
                 control, operator, faults>>

After(label) == CASE label = "returning" -> "done" [] label = "retrying" -> "backoff"
                  [] OTHER -> "failed"

SleepWithPermit(c) ==  \* (mutated form: the backoff keeps the permit)
  /\ pc[c] \in {"returning", "retrying", "failing"} /\ StoreFree
  /\ leases' = leases \ {c}
  /\ Pump(waiting, IF pc[c] = "retrying" THEN permits ELSE permits \ {c}, target, wake,
          Moved(c, After(pc[c])))
  /\ IF After(pc[c]) \in Settled THEN Unlock({c}) ELSE UNCHANGED line
  /\ UNCHANGED <<attempt, target, streak, paused, nocut, authFailed, modelCalls,
                 mode, cap, lost, operator, faults>>

\* releasePermits: first the lease, then the permit; a retry sleeps afterwards.
Release(c) ==
  /\ pc[c] \in {"returning", "retrying", "failing"} /\ StoreFree
  /\ leases' = leases \ {c}
  /\ Pump(waiting, permits \ {c}, target, wake, Moved(c, After(pc[c])))
  /\ IF After(pc[c]) \in Settled THEN Unlock({c}) ELSE UNCHANGED line
  /\ UNCHANGED <<attempt, target, streak, paused, nocut, authFailed, modelCalls,
                 mode, cap, lost, operator, faults>>

-----------------------------------------------------------------------------
(* Failing accesses to the control store. *)

\* The lease may have been written; a call that cannot release its lease gives
\* the permit back all the same, and rejects even after a success.
StoreFails(c) ==
  /\ pc[c] \in {"polling", "returning", "retrying", "failing"} /\ StoreFree
  /\ faults < MaxFaults /\ faults' = faults + 1
  /\ Refuse(c)
  /\ leases' = leases \ {c}
  /\ \/ lost' = lost
     \/ pc[c] = "polling" /\ mode = "running" /\ Cardinality(leases) + lost < cap /\ lost' = lost + 1
     \/ pc[c] # "polling" /\ lost' = lost + 1
  /\ UNCHANGED <<attempt, target, streak, paused, nocut, authFailed, modelCalls,
                 mode, cap, operator>>

\* reapExpiredLeases: a call ends long before its own lease expires.
Expire ==
  /\ lost > 0 /\ lost' = lost - 1
  /\ UNCHANGED <<pc, attempt, line, poolState, authFailed, modelCalls, mode, cap, leases,
                 operator, faults>>

-----------------------------------------------------------------------------
(* The operator: pause, resume, concurrency, cancel, and signals. *)

Command == commands < MaxCommands /\ commands' = commands + 1

Pause ==
  /\ Command /\ StoreFree /\ mode = "running"
  /\ mode' = "paused"
  /\ UNCHANGED <<pc, attempt, line, poolState, authFailed, modelCalls, cap, leases, lost,
                 blocked, aborted, stopping, newCap, faults>>

Resume ==
  /\ StoreFree /\ mode = "paused"
  /\ mode' = "running" /\ blocked' = FALSE
  /\ UNCHANGED <<pc, attempt, line, poolState, authFailed, modelCalls, cap, leases, lost,
                 aborted, stopping, newCap, commands, faults>>

\* The pool follows at once, the durable cap afterwards.
SetConcurrency(n) ==
  /\ Command /\ newCap = 0
  /\ target' = Highest(Min, Lowest(Max, n)) /\ newCap' = target'
  /\ Pump(waiting, permits, target', wake, pc)
  /\ UNCHANGED <<attempt, line, streak, paused, nocut, authFailed, modelCalls, control,
                 blocked, aborted, stopping, faults>>

WriteCap ==
  /\ newCap > 0 /\ StoreFree
  /\ cap' = newCap /\ newCap' = 0
  /\ UNCHANGED <<pc, attempt, line, poolState, authFailed, modelCalls, mode, leases, lost,
                 blocked, aborted, stopping, commands, faults>>

\* cancel and interrupt block further launches at once, ...
Stop(kind) ==
  /\ Command /\ stopping = "no"
  /\ blocked' = TRUE /\ stopping' = kind
  /\ UNCHANGED <<pc, attempt, line, poolState, authFailed, modelCalls, control,
                 aborted, newCap, faults>>

\* ... then durably (a cancelled run stays cancelled), ...
StopDurably ==
  /\ stopping \in {"cancel", "interrupt"} /\ StoreFree
  /\ mode' = IF stopping = "cancel" \/ mode = "cancelled" THEN "cancelled" ELSE "paused"
  /\ stopping' = "abort"
  /\ UNCHANGED <<pc, attempt, line, poolState, authFailed, modelCalls, cap, leases, lost,
                 blocked, aborted, newCap, commands, faults>>

\* ... and then abort the calls: waiters leave the pool and the mutexes.
Abort ==
  /\ stopping = "abort"
  /\ aborted' = TRUE /\ stopping' = "no"
  /\ LET hit == {c \in Calls : \/ pc[c] = "queued"
                               \/ pc[c] = "thread" /\ Head(line[ThreadOf[c]]) # c}
     IN  /\ pc' = [c \in Calls |-> IF c \in hit THEN "failed" ELSE pc[c]]
         /\ Unlock(hit)
  /\ waiting' = {}
  /\ UNCHANGED <<attempt, permits, target, streak, paused, nocut, wake, authFailed, modelCalls,
                 control, blocked, newCap, commands, faults>>

-----------------------------------------------------------------------------
Answer(c) == Succeed(c) \/ RateLimited(c) \/ Fails(c)

CallStep(c) ==
  \/ Attempt(c) \/ Prepare(c) \/ Poll(c) \/ TryAcquireLease(c) \/ Launch(c)
  \/ Answer(c) \/ Release(c)

Timers == Tick \/ Wake \/ Expire

Operate ==
  \/ Pause \/ Resume \/ WriteCap \/ StopDurably \/ Abort
  \/ \E n \in 1..Max : SetConcurrency(n)
  \/ \E kind \in {"cancel", "interrupt"} : Stop(kind)

Next == Timers \/ Operate \/ \E c \in Calls : Run(c) \/ CallStep(c) \/ StoreFails(c)

Spec == Init /\ [][Next]_vars

\* Timers fire, the backend answers or its deadline passes, awaited code goes on;
\* nobody has to start a call or to give a command.
FairSpec ==
  /\ Spec /\ WF_vars(Tick) /\ WF_vars(Wake) /\ WF_vars(Expire)
  /\ WF_vars(WriteCap) /\ WF_vars(StopDurably) /\ WF_vars(Abort)
  /\ \A c \in Calls : WF_vars(CallStep(c))

-----------------------------------------------------------------------------
(* Properties. *)

\* A permit is out exactly for the calls between their grant and their release,
\* and a lease for those between admission and release: a call that sleeps in
\* its backoff, was refused or has settled holds nothing (releasePermits).  The
\* turn budget of the run is never exceeded, however many calls passed the
\* first check before any of them launched (maxAgentTurns).
PermitsMatchCalls ==
  /\ modelCalls <= MaxTurns
  /\ permits = {c \in Calls : pc[c] \in Permitted}
  /\ leases = {c \in Calls : pc[c] \in Leased}
  /\ waiting = {c \in Calls : pc[c] = "queued"}

\* "Durable admission is the final await before backend invocation. This leaves
\* no coordinator work where a completed pause/cancel can race an already-issued
\* launch lease into a new remote call" (src/src/runtime/gateway.ts:205).  A 401 stops
\* the launches of calls that already hold a permit and a lease too: the circuit
\* opens at once (README.md:428).
StopsHoldLaunches == [][mode # "running" \/ authFailed => modelCalls' = modelCalls]_vars

\* Every call settles: no wake-up, permit, lease or mutex is lost on the way,
\* unless the operator keeps the run paused.
CallsSettle == \A c \in Calls : pc[c] # "idle" ~> (pc[c] \in Settled \/ mode = "paused")
=============================================================================
