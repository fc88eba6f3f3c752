------------------------------ MODULE MCDoctor ------------------------------
(* App with bridges that overlap and follow each other, and doctor beside   *)
(* them.  Bound: no browser comes in the behaviours in which doctor runs,   *)
(* which does not look at browsers.                                         *)
EXTENDS Doctor, TLC

MCNext == DocNext /\ (step # "never" => UNCHANGED browsers)

MCSpec == DocInit /\ [][MCNext]_doctorVars
=============================================================================
