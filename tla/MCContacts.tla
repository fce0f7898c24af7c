------------------------------ MODULE MCContacts ------------------------------
(* Instances of Contacts for TLC.                                            *)
EXTENDS Contacts, TLC

CONSTANTS r1, r2, c2, c3, p2, p3

Lower == [n \in Names |-> IF n = "Vegan" THEN "vegan" ELSE n]

Alike == Permutations(Requests) \cup Permutations({c2, c3}) \cup Permutations({p2, p3})
=============================================================================
