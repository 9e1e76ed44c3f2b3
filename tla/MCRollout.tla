----------------------------- MODULE MCRollout -----------------------------
(* One run with a request in flight and the operator, on two rollouts. *)
EXTENDS Rollout, TLC

CONSTANTS run1, r1, r2, q1

MCRuns == {run1}
MCRollouts == {r1, r2}
MCRequests == {q1}
MCSymmetry == Permutations(MCRollouts)

=============================================================================
