----------------------------- MODULE MCRcuRef -----------------------------
(* Instances of RcuRef for TLC.                                            *)
EXTENDS RcuRef, TLC

Symmetry == Permutations(Objects) \cup Permutations(Rings)
=============================================================================
