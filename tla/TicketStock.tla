----------------------------- MODULE TicketStock -----------------------------
(***************************************************************************)
(* What the ticketing code promises about one ticket type, without         *)
(* counters, references, locks, webhooks or workers: a hold is granted to  *)
(* one buyer only while everything held or paid still leaves room for it,  *)
(* lapsed holds being given back in the same step; money that has moved    *)
(* is always recorded, even for a hold already given back.                 *)
(***************************************************************************)
EXTENDS Integers, FiniteSets

CONSTANTS Purchases, MaxQty, Limits

VARIABLES phase, qty, limit, open, late, peak

vars == <<phase, qty, limit, open, late, peak>>

In(s) == {p \in Purchases : phase[p] = s}

Tickets(S, q) == Cardinality({u \in S \X (1..MaxQty) : u[2] <= q[u[1]]})

Init ==
    /\ phase = [p \in Purchases |-> "none"]
    /\ qty = [p \in Purchases |-> 0]
    /\ limit \in Limits
    /\ peak = limit
    /\ open = TRUE
    /\ late = {}

\* What is still committed when the holds in R are given back.
Committed(R) == (In("held") \ R) \cup In("paid")

Room(R, q) == Tickets(Committed(R), qty) + q <= limit

Hold(p, q, R) ==
    /\ open
    /\ phase[p] \in {"none", "released"}
    /\ Room(R, q)
    /\ phase' = [x \in Purchases |->
                   IF x = p THEN "held" ELSE IF x \in R THEN "released" ELSE phase[x]]
    /\ qty' = [qty EXCEPT ![p] = q]
    /\ UNCHANGED <<limit, open, late, peak>>

Release(p) ==
    /\ phase[p] = "held"
    /\ phase' = [phase EXCEPT ![p] = "released"]
    /\ UNCHANGED <<qty, limit, open, late, peak>>

Pay(p) ==
    /\ phase[p] \in {"held", "released"}
    /\ phase' = [phase EXCEPT ![p] = "paid"]
    /\ late' = IF phase[p] = "held" THEN late ELSE late \cup {p}
    /\ UNCHANGED <<qty, limit, open, peak>>

SetLimit(n) ==
    /\ limit' = n
    /\ peak' = IF n > peak THEN n ELSE peak
    /\ UNCHANGED <<phase, qty, open, late>>

SetOpen(b) ==
    /\ open' = b
    /\ UNCHANGED <<phase, qty, limit, late, peak>>

Next ==
    \/ \E p \in Purchases, q \in 1..MaxQty, R \in SUBSET In("held") : Hold(p, q, R)
    \/ \E p \in Purchases : Release(p)
    \/ \E p \in Purchases : Pay(p)
    \/ \E n \in Limits : SetLimit(n)
    \/ \E b \in BOOLEAN : SetOpen(b)

Spec == Init /\ [][Next]_vars
=============================================================================
