---------------------------- MODULE MCBlackboard ----------------------------
(***************************************************************************)
(* Two processes publish to two artifacts, each an input of the other.     *)
(***************************************************************************)
EXTENDS Blackboard, TLC

CONSTANTS p1, p2, a1, a2, c1, c2
MCProcs == {p1, p2}
MCArtifacts == {a1, a2}
MCContents == {c1, c2}
MCSymmetry == Permutations(MCProcs) \cup Permutations(MCArtifacts) \cup Permutations(MCContents)
=============================================================================
