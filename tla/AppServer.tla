------------------------------ MODULE AppServer ------------------------------
(***************************************************************************)
(* CodexAppServerBackend (src/src/backend/codex-app-server.ts) over        *)
(* AppServerClient (src/src/backend/app-server-client.ts): logical calls   *)
(* share one app-server process.  A slot of the occupancy semaphore stands *)
(* for a turn the process may be running, and so outlives a call that was  *)
(* aborted before its turn was known to be over.                           *)
(*                                                                         *)
(* The process is external: it starts turns, answers late or never, refuses *)
(* requests, dies.  Steps between which only microtasks lie are one step.  *)
(***************************************************************************)
EXTENDS Integers, Sequences, FiniteSets

CONSTANTS Calls,          \* calls of run()
          Threads, ThreadOf,  \* ThreadOf[c]: the threadKey of c
          MaxConcurrency, \* config.maxConcurrency
          WithImages      \* calls with local image inputs, which are read first

ASSUME AppServerAssumption ==
  /\ IsFiniteSet(Calls) /\ ThreadOf \in [Calls -> Threads]
  /\ MaxConcurrency \in Nat \ {0} /\ WithImages \subseteq Calls

VARIABLES
  pc,       \* pc[c]: where the call stands, see Labels
  aborted,  \* calls whose signal has fired
  line,     \* line[t]: calls that hold (head) or await the mutex of a thread
  slots,    \* calls whose slot was not released
  queue,    \* calls that await a slot
  known,    \* threads with a thread id in the cache
  stale,    \* calls whose thread id belongs to a session that is gone
  start,    \* start[c]: the turn/start request of c
  early,    \* calls whose turn/completed arrived before the turn id
  stop,     \* stop[c]: the turn/interrupt request of c
  session,  \* the process; "closed" and "shut" after close() of one that was, was not up
  turn      \* turn[c]: the turn of c in the process

calls == <<pc, aborted, line>>
occupancy == <<slots, queue>>
requests == <<start, early, stop>>
vars == <<calls, occupancy, known, stale, requests, session, turn>>

Labels == {"idle", "boot", "thread", "slot", "open", "images", "ask", "turn", "settled"}
InTurn == {"open", "images", "ask", "turn"}   \* labels of a call with a slot

TypeOK ==
  /\ pc \in [Calls -> Labels] /\ aborted \subseteq Calls
  /\ line \in [Threads -> Seq(Calls)]
  /\ slots \subseteq Calls /\ Cardinality(slots) <= MaxConcurrency /\ queue \in Seq(Calls)
  /\ known \subseteq Threads /\ stale \subseteq Calls /\ early \subseteq Calls
  /\ start \in [Calls -> {"none", "queued", "sent", "over"}]
  /\ stop \in [Calls -> {"none", "sent", "over"}]
  /\ session \in {"down", "starting", "up", "closed", "shut"}
  /\ turn \in [Calls -> {"none", "running", "ended"}]

Init ==
  /\ pc = [c \in Calls |-> "idle"] /\ aborted = {} /\ line = [t \in Threads |-> <<>>]
  /\ slots = {} /\ queue = <<>> /\ known = {} /\ stale = {}
  /\ start = [c \in Calls |-> "none"] /\ early = {} /\ stop = [c \in Calls |-> "none"]
  /\ session = "down" /\ turn = [c \in Calls |-> "none"]

Least(m, n) == IF m <= n THEN m ELSE n
Without(seq, c) ==
  LET i == CHOOSE k \in DOMAIN seq : seq[k] = c
  IN [j \in 1..(Len(seq) - 1) |-> IF j < i THEN seq[j] ELSE seq[j + 1]]

-----------------------------------------------------------------------------
(* AsyncSemaphore and Mutex. *)

DropSlot(calls_, next) ==  \* (mutated form: a released slot wakes nobody)
  /\ slots' = slots \ calls_
  /\ pc' = next /\ UNCHANGED queue

\* The slots of these calls are released (each at most once) while the calls
\* move to next; the first waiters get them.
Handover(calls_, next) ==
  LET free == slots \cap calls_
      n == Least(Cardinality(free), Len(queue))
      granted == {queue[i] : i \in 1..n}
  IN /\ slots' = (slots \ free) \cup granted
     /\ queue' = SubSeq(queue, n + 1, Len(queue))
     /\ pc' = [c \in Calls |-> IF c \in granted THEN "open" ELSE next[c]]

Moved(c, label) == [pc EXCEPT ![c] = label]
Settled(calls_) == [c \in Calls |-> IF c \in calls_ THEN "settled" ELSE pc[c]]

\* The calls of a queue that are not gone, in their order.
Remaining(seq, gone) ==
  LET kept[i \in 0..Len(seq)] ==
        IF i = 0 THEN <<>>
        ELSE IF seq[i] \in gone THEN kept[i - 1] ELSE Append(kept[i - 1], seq[i])
  IN kept[Len(seq)]

\* A call that settles leaves its thread to the next in line.
Unlock(calls_) == line' = [t \in Threads |-> Remaining(line[t], calls_)]

\* The call settles and its slot, if it still has one, is released.
Finish(c) == Handover({c}, Settled({c})) /\ Unlock({c})

-----------------------------------------------------------------------------
(* A call up to its turn/start. *)

Run(c) ==
  /\ pc[c] = "idle" /\ pc' = Moved(c, "boot")
  /\ UNCHANGED <<aborted, line, occupancy, known, stale, requests, session, turn>>

\* ensureStarted: the first call starts the process, all await it.
Boot(c) ==
  /\ pc[c] \in {"boot", "open"} /\ session = "down" /\ session' = "starting"
  /\ UNCHANGED <<calls, occupancy, known, stale, requests, turn>>

BootDone ==
  /\ session = "starting" /\ session' = "up"
  /\ UNCHANGED <<calls, occupancy, known, stale, requests, turn>>

Enter(c) ==
  /\ pc[c] = "boot" /\ session \in {"up", "closed", "shut"}
  /\ IF session = "shut" THEN pc' = Moved(c, "settled") /\ UNCHANGED line
     ELSE /\ pc' = Moved(c, "thread")
          /\ line' = [line EXCEPT ![ThreadOf[c]] = Append(@, c)]
  /\ UNCHANGED <<aborted, occupancy, known, stale, requests, session, turn>>

OneMore == Cardinality(slots) <= MaxConcurrency  \* (mutated form: off by one)
SlotFree == Cardinality(slots) < MaxConcurrency

AcquireSlot(c) ==
  /\ pc[c] = "thread" /\ Head(line[ThreadOf[c]]) = c
  /\ IF SlotFree
     THEN slots' = slots \cup {c} /\ pc' = Moved(c, "open") /\ UNCHANGED queue
     ELSE queue' = Append(queue, c) /\ pc' = Moved(c, "slot") /\ UNCHANGED slots
  /\ UNCHANGED <<aborted, line, known, stale, requests, session, turn>>

\* ensureThread: the cached thread, or one the process opens, or its refusal.
EnsureThread(c) ==
  /\ pc[c] = "open" /\ session \in {"up", "closed", "shut"}
  /\ \/ /\ session = "up" \/ (session = "closed" /\ ThreadOf[c] \in known)
        /\ known' = known \cup {ThreadOf[c]} /\ pc' = Moved(c, "images")
        /\ UNCHANGED <<line, occupancy>>
     \/ /\ ThreadOf[c] \notin known \/ session = "shut"
        /\ Finish(c) /\ UNCHANGED known
  /\ UNCHANGED <<aborted, stale, requests, session, turn>>

\* verifiedLocalImageInputs, then turn/start, which a backpressured writer
\* queues.  A call aborted meanwhile keeps its slot: only an answer to a
\* turn/start would release it, and none was sent.
AskTurn(c) ==
  /\ pc[c] = "images"
  /\ \/ /\ c \in aborted
        /\ pc' = Moved(c, "settled") /\ Unlock({c}) /\ UNCHANGED <<occupancy, start>>
     \/ /\ c \notin aborted /\ (session # "up" \/ c \in WithImages)
        /\ Finish(c) /\ UNCHANGED start
     \/ /\ c \notin aborted /\ session = "up"
        /\ \E how \in {"queued", "sent"} : start' = [start EXCEPT ![c] = how]
        /\ pc' = Moved(c, "ask") /\ UNCHANGED <<line, occupancy>>
  /\ UNCHANGED <<aborted, known, stale, early, stop, session, turn>>

Flush(c) ==
  /\ start[c] = "queued" /\ start' = [start EXCEPT ![c] = "sent"]
  /\ UNCHANGED <<calls, occupancy, known, stale, early, stop, session, turn>>

-----------------------------------------------------------------------------
(* The process, and how its answers are taken. *)

\* The process begins a turn on a thread of this session.
TurnBegins(c) ==
  /\ start[c] = "sent" /\ turn[c] = "none" /\ c \notin stale
  /\ turn' = [turn EXCEPT ![c] = "running"]
  /\ UNCHANGED <<calls, occupancy, known, stale, requests, session>>

\* turn/completed ends a call that has its turn id, is kept for one that has
\* not, and finds nobody after an abort.
TurnCompletes(c) ==
  /\ turn[c] = "running" /\ turn' = [turn EXCEPT ![c] = "ended"]
  /\ IF pc[c] = "turn" THEN Finish(c) /\ UNCHANGED early
     ELSE /\ early' = IF pc[c] = "ask" THEN early \cup {c} ELSE early
          /\ UNCHANGED <<pc, line, occupancy>>
  /\ UNCHANGED <<aborted, known, stale, start, stop, session>>

IgnoreLate(c) == stop[c]  \* (mutated form: a late turn is not interrupted)
\* onLateResult: the turn of an aborted call is interrupted.
LateStop(c) == IF c \in aborted THEN "sent" ELSE stop[c]

StartAnswered(c) ==
  /\ start[c] = "sent" /\ turn[c] # "none"
  /\ start' = [start EXCEPT ![c] = "over"]
  /\ stop' = [stop EXCEPT ![c] = LateStop(c)]
  /\ IF pc[c] = "ask" /\ c \in early THEN Finish(c)
     ELSE /\ pc' = IF pc[c] = "ask" THEN Moved(c, "turn") ELSE pc
          /\ UNCHANGED <<line, occupancy>>
  /\ UNCHANGED <<aborted, known, stale, early, session, turn>>

\* An error: a call that waits fails; of an aborted one onLateSettled frees the slot.
StartRefused(c) ==
  /\ start[c] = "sent" /\ turn[c] = "none"
  /\ start' = [start EXCEPT ![c] = "over"] /\ Finish(c)
  /\ UNCHANGED <<aborted, known, stale, early, stop, session, turn>>

\* An acknowledged interrupt: the turn is over.
StopAnswered(c) ==
  /\ stop[c] = "sent" /\ stop' = [stop EXCEPT ![c] = "over"]
  /\ turn' = [turn EXCEPT ![c] = "ended"] /\ Handover({c}, pc)
  /\ UNCHANGED <<aborted, line, known, stale, start, early, session>>

\* Turns and requests end with the process.
Ended(c) == IF turn[c] = "running" THEN "ended" ELSE turn[c]
Unanswered(c) == start[c] \in {"queued", "sent"} \/ stop[c] = "sent"
Dropped(request) == [c \in Calls |-> IF request[c] \in {"queued", "sent"} THEN "over" ELSE request[c]]

\* The session is recycled: the process died, an answer was malformed, a request
\* or an interrupt timed out or failed.  failAll and the fatal listeners: who
\* awaits an answer fails, slots of unanswered requests come back, and a call
\* that reads its images loses its slot and goes on.
Recycle ==
  /\ session \in {"starting", "up"} /\ session' = "down"
  /\ LET fails == {c \in Calls : \/ pc[c] \in {"ask", "turn"}
                                 \/ pc[c] = "boot" /\ session = "starting"
                                 \/ pc[c] = "open" }
         reading == {c \in Calls : pc[c] = "images"}
     IN /\ Handover(fails \cup reading \cup {c \in Calls : Unanswered(c)}, Settled(fails))
        /\ Unlock(fails)
        /\ stale' = stale \cup reading
  /\ known' = {}
  /\ start' = Dropped(start) /\ stop' = Dropped(stop) /\ turn' = [c \in Calls |-> Ended(c)]
  /\ UNCHANGED <<aborted, early>>

-----------------------------------------------------------------------------
(* Aborts and close(). *)

\* releaseDeferred: the turn may be running, or begin, after the abort.
Deferred(c) == (pc[c] = "ask" /\ start[c] = "sent") \/ (pc[c] = "turn" /\ session = "up")

\* An abort ends a waiting call at once.  A turn/start still in the writer's queue is
\* cancelled; one that was sent is answered late; a turn is interrupted (in
\* vain when the client is closed); images are read to the end.
Abort(c) ==
  /\ c \notin aborted /\ pc[c] \notin {"idle", "settled"}
  /\ pc[c] = "images" => c \in WithImages
  /\ aborted' = aborted \cup {c}
  /\ IF pc[c] = "images" THEN UNCHANGED <<pc, line, occupancy>>
     ELSE /\ Unlock({c})
          /\ IF pc[c] = "slot"
             THEN queue' = Without(queue, c) /\ pc' = Moved(c, "settled") /\ UNCHANGED slots
             ELSE Handover(IF Deferred(c) THEN {} ELSE {c}, Settled({c}))
  /\ start' = [start EXCEPT ![c] = IF @ = "queued" THEN "over" ELSE @]
  /\ stop' = [stop EXCEPT ![c] = IF pc[c] = "turn" /\ session = "up" THEN "sent" ELSE @]
  /\ UNCHANGED <<known, stale, early, session, turn>>

\* close(): requests fail and the process is killed, but no fatal listener is
\* called: a call that awaits its turn/completed is left to its abort signal.
Close ==
  /\ session \notin {"closed", "shut"}
  /\ session' = IF session = "up" THEN "closed" ELSE "shut"
  /\ LET fails == {c \in Calls : \/ pc[c] = "ask"
                                 \/ pc[c] = "boot" /\ session = "starting"
                                 \/ pc[c] = "open" /\ (session = "starting" \/ ThreadOf[c] \notin known)}
     IN /\ Handover(fails \cup {c \in Calls : Unanswered(c)}, Settled(fails))
        /\ Unlock(fails)
  /\ start' = Dropped(start) /\ stop' = Dropped(stop) /\ turn' = [c \in Calls |-> Ended(c)]
  /\ UNCHANGED <<aborted, known, stale, early>>

CallStep(c) == Enter(c) \/ Boot(c) \/ AcquireSlot(c) \/ EnsureThread(c) \/ AskTurn(c)
Process(c) == TurnBegins(c) \/ TurnCompletes(c)
Answer(c) == StartAnswered(c) \/ StartRefused(c) \/ StopAnswered(c)

Next ==
  \/ \E c \in Calls : Run(c) \/ CallStep(c) \/ Flush(c) \/ Process(c) \/ Answer(c) \/ Abort(c)
  \/ BootDone \/ Recycle \/ Close

Spec == Init /\ [][Next]_vars

\* The event loop runs what is ready.  A request is answered, or its deadline recycles
\* the session.  A turn may last for ever.
Fairness ==
  /\ \A c \in Calls : WF_vars(CallStep(c))
  /\ \A c \in Calls : WF_vars(Answer(c) \/ (Unanswered(c) /\ Recycle))
  /\ WF_vars(BootDone \/ (session = "starting" /\ Recycle))

FairSpec == Spec /\ Fairness

-----------------------------------------------------------------------------
(* Properties. *)

\* The process never runs more turns than there are slots: every turn it runs is covered
\* by a slot nobody else can take, also when its call was aborted, its answer is
\* late or the session was replaced.
TurnsWithinSlots == \A c \in Calls : turn[c] = "running" => c \in slots

\* A slot is held for a call in progress or for an answer that will come, ...
InUse(c) == pc[c] \in InTurn \/ Unanswered(c)
\* ... so aborts do not leak occupancy.
SlotsAccounted == \A c \in slots \ WithImages : InUse(c)
\* No slot stays free while a call waits for one, whatever ends a turn.
NoIdleSlot == queue # <<>> => Cardinality(slots) = MaxConcurrency
\* Slots are neither leaked nor forgotten, however answers, aborts, recycling
\* and close() interleave (a call aborted while it reads images does leak its
\* slot: AskTurn).
SlotsInUse == TurnsWithinSlots /\ SlotsAccounted /\ NoIdleSlot

\* An abort settles the call, ends its turn in the process and gives back its
\* slot, though answers come late or never.
AbortReleases ==
  \A c \in Calls \ WithImages :
    c \in aborted ~> pc[c] = "settled" /\ turn[c] # "running" /\ c \notin slots
=============================================================================
