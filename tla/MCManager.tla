----------------------------- MODULE MCManager -----------------------------
(* Manager with two browser connections that follow each other.            *)
EXTENDS Manager, TLC

Symmetry == Permutations(Conns)
=============================================================================
