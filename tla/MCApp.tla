------------------------------- MODULE MCApp -------------------------------
(* App with bridges that overlap and follow each other.                    *)
EXTENDS App, TLC

Symmetry == Permutations(Procs)
=============================================================================
