-------------------------- MODULE MCTicketPurchase --------------------------
(***************************************************************************)
(* Small instances of TicketPurchase for TLC.                              *)
(***************************************************************************)
EXTENDS TicketPurchase, TLC

Symmetry == Permutations(Invites) \cup Permutations(Purchases)
              \cup Permutations(Refs) \cup Permutations(Workers)
=============================================================================
