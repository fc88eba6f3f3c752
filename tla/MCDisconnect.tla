---------------------------- MODULE MCDisconnect ----------------------------
(* Instances of Disconnect for TLC.                                        *)
EXTENDS Disconnect, TLC

Symmetry == Permutations(Calls) \cup Permutations(Ids)
=============================================================================
