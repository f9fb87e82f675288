----------------------------- MODULE MCLifetimes -----------------------------
(* Instances of the lifetime check for TLC.                                  *)
EXTENDS LifetimesProperties, TLC

CONSTANTS p, q, r, s

Three == {p, q, r}
One   == {s}
None  == {}
Symmetry == Permutations(Three)
=============================================================================
