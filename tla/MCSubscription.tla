--------------------------- MODULE MCSubscription ---------------------------
(***************************************************************************)
(* Small instances of Subscription for TLC.                                *)
(***************************************************************************)
EXTENDS Subscription, TLC

Symmetry == Permutations(Codes) \cup Permutations(Refs) \cup Permutations(Workers)
=============================================================================
