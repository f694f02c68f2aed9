---------------------------- MODULE MCLogStore ----------------------------
(* LogStore with symmetric appenders.                                      *)
EXTENDS LogStore, TLC

Symmetry == Permutations(Appenders)
=============================================================================
