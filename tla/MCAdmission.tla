----------------------------- MODULE MCAdmission -----------------------------
(* Instances of Admission: two users and two addresses, both bootstrapped.   *)
EXTENDS Admission, TLC

CONSTANTS a, b

MCEmails    == {a, b}
MCBootstrap == <<a, b>>

\* Slots and users are interchangeable; addresses are not, their order counts.
MCSymmetry == Permutations(Requests) \cup Permutations(Users)
=============================================================================
