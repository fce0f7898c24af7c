------------------------------ MODULE MCInbound ------------------------------
(* Instances of Inbound for TLC.                                              *)
EXTENDS Inbound, TLC

CONSTANTS r1, r2, p1, p2

Texts == {<<"yes">>, <<"no">>, <<"stop", "all">>, <<"opt", "in">>}

Alike == Permutations(Requests) \cup Permutations(Phones)
=============================================================================
