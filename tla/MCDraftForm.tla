----------------------------- MODULE MCDraftForm -----------------------------
(* DraftForm with two places, which the model treats alike. *)
EXTENDS DraftForm, TLC

CONSTANTS p1, p2

Alike == Permutations({p1, p2})
=============================================================================
