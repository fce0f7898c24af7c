---------------------------- MODULE MCHangoutSetup ----------------------------
(* Instances of HangoutSetup.                                                 *)
EXTENDS HangoutSetup, TLC

MCSymmetry == Permutations(Requests)
=============================================================================
