--------------------------- MODULE MCKdumpService ---------------------------
(* TLC instances of KdumpService: up to three hotplug events. *)
EXTENDS KdumpService, TLC

CONSTANTS p1, p2, p3

TwoProcs   == {p1, p2}
ThreeProcs == {p1, p2, p3}
Symmetry   == Permutations(ThreeProcs)
=============================================================================
