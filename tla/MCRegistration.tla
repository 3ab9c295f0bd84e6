--------------------------- MODULE MCRegistration ---------------------------
(***************************************************************************)
(* Small instances of Registration for TLC.                                *)
(***************************************************************************)
EXTENDS Registration, TLC

Symmetry == Permutations(Guests) \cup Permutations(Plus) \cup Permutations(Workers)
              \cup Permutations(Emails) \cup Permutations(Days)

\* The properties that end in IfFresh say nothing of what follows a stale
\* commit: it need not be explored.
Fresh == ~stale

\* A bound of the run with invites archived on their own: one at a time, and
\* with at most one request in progress.
InviteApart ==
    LET apart == {x \in People : inviteLive[x] # (row[x] = "live")} IN
    \/ apart = {}
    \/ Cardinality(apart) = 1 /\ \E w \in Workers : job[w] = Idle
=============================================================================
