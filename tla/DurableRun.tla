----------------------------- MODULE DurableRun -----------------------------
(***************************************************************************)
(* What the run store of src/src/store.ts promises its callers, without    *)
(* files: one authoritative revision that advances by one, transitions     *)
(* that are never forgotten once committed, and an event log in which the  *)
(* effect of every transition appears once and in commit order.            *)
(***************************************************************************)
EXTENDS Integers, Sequences

VARIABLES rev,        \* authoritative state revision, -1 before the first save
          committed,  \* number of transitions committed so far
          log         \* transitions whose event has been published, in order

vars == <<rev, committed, log>>

Init == rev = -1 /\ committed = 0 /\ log = <<>>

\* A save records a new state and no transition.
Save == rev' = rev + 1 /\ UNCHANGED <<committed, log>>

\* A commit records a new state together with the intent to publish its event.
Commit == rev' = rev + 1 /\ committed' = committed + 1 /\ UNCHANGED log

\* The event of the oldest unpublished transition is published, once.
Publish ==
  /\ Len(log) < committed
  /\ log' = Append(log, Len(log) + 1)
  /\ UNCHANGED <<rev, committed>>

Next == Save \/ Commit \/ Publish

Spec == Init /\ [][Next]_vars
=============================================================================
