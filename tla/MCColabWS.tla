----------------------------- MODULE MCColabWS -----------------------------
(* ColabWS with a few browser connections.                                 *)
EXTENDS ColabWS, TLC

Symmetry == Permutations(Conns)
=============================================================================
