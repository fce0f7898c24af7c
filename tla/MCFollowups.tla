---------------------------- MODULE MCFollowups ----------------------------
(* Instances of Followups for TLC. *)
EXTENDS Followups, TLC

CONSTANTS w1, w2, h1, h2, p1, p2

\* Two people invited to one hangout, each with a phone.
OneHangout == [i \in Invites |-> h1]
OwnPhone   == [i \in Invites |-> IF i = 1 THEN p1 ELSE p2]

\* One person invited to two hangouts.
TwoHangouts == [i \in Invites |-> IF i = 1 THEN h1 ELSE h2]
OnePhone    == [i \in Invites |-> p1]

ShortDelays == <<2, 1>>
OneDelay    == <<1>>

WorkersAlike == Permutations(Workers)
=============================================================================
