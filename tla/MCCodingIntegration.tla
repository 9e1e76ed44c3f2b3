------------------------ MODULE MCCodingIntegration ------------------------
(***************************************************************************)
(* Two processes execute two orders, or one order twice, on one target ref.*)
(***************************************************************************)
EXTENDS CodingIntegration, TLC

CONSTANTS p1, p2, o1, o2, f1, f2
MCProcs == {p1, p2}
MCOrders == {o1, o2}
MCFindings == {f1, f2}
MCSymmetry == Permutations(MCProcs) \cup Permutations(MCOrders) \cup Permutations(MCFindings)
=============================================================================
