---------------------------- MODULE RevisionChains ----------------------------
(***************************************************************************)
(* What the blackboard promises to the pipeline (blackboard.ts:113-219): an  *)
(* artifact is a chain of revisions that only grows at its end, one revision *)
(* at a time and all of it at once.  A revision supersedes the one before it *)
(* and is made from revisions that were published earlier; publish returns   *)
(* references to published revisions only.  Here are no processes, locks,    *)
(* files, faults or crashes.                                               *)
(***************************************************************************)
EXTENDS Naturals, Sequences

CONSTANTS Artifacts, Contents

VARIABLES
  chain,      \* chain[a]: the revisions of a, the last one its head
  returned    \* references that callers of publish hold

vars == <<chain, returned>>

Ref(a, n) == [artifact |-> a, revision |-> n, content |-> chain[a][n].content]
Published == UNION {{Ref(a, n) : n \in 1..Len(chain[a])} : a \in Artifacts}

Init == chain = [a \in Artifacts |-> <<>>] /\ returned = {}

Revision(c, inputs, last) == [content |-> c, inputs |-> inputs, supersedes |-> last]

\* The next revision is there, and its author is told unless the process dies
\* or fails before it can be.
Publish(a) ==
  \E c \in Contents, inputs \in SUBSET Published :
    /\ chain' = [chain EXCEPT ![a] = Append(@, Revision(c, inputs, Len(@)))]
    /\ \/ returned' = returned
       \/ returned' = returned \cup
            {[artifact |-> a, revision |-> Len(chain[a]) + 1, content |-> c]}

\* The same submission again gets the revision that is there.
Return ==
  /\ \E ref \in Published : returned' = returned \cup {ref}
  /\ UNCHANGED chain

Next == Return \/ \E a \in Artifacts : Publish(a)

Spec == Init /\ [][Next]_vars
=============================================================================
