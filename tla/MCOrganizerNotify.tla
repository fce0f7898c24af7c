-------------------------- MODULE MCOrganizerNotify --------------------------
(* Instances of OrganizerNotify for TLC.                                      *)
EXTENDS OrganizerNotify, TLC

CONSTANTS w1, w2

Alike == Permutations(Workers)
=============================================================================
