------------------------ MODULE TicketPurchaseProofs ------------------------
(***************************************************************************)
(* Theorems about TicketPurchase, for every number of invitations,         *)
(* purchases, references and concurrent requests.                          *)
(***************************************************************************)
EXTENDS TicketPurchase, FiniteSetTheorems, TLAPS

-----------------------------------------------------------------------------
(* Counting tickets.                                                       *)

\* The tickets of a set of purchases are finitely many.
LEMMA UnitsFinite ==
    ASSUME NEW S \in SUBSET Purchases, NEW q
    PROVE  IsFiniteSet(Units(S, q)) /\ Cardinality(Units(S, q)) \in Nat
<1>1. IsFiniteSet(S)
  BY ConstantsAssumption, FS_Subset
<1>2. IsFiniteSet(1..MaxQty)
  BY ConstantsAssumption, FS_Interval
<1>3. IsFiniteSet(S \X (1..MaxQty))
  BY <1>1, <1>2, FS_Product
<1>4. Units(S, q) \in SUBSET (S \X (1..MaxQty))
  BY DEF Units
<1> QED
  BY <1>3, <1>4, FS_Subset, FS_CardinalityType

\* The tickets of disjoint sets of purchases add up.
LEMMA UnitsUnion ==
    ASSUME NEW S \in SUBSET Purchases, NEW T \in SUBSET Purchases, NEW q, S \cap T = {}
    PROVE  Cardinality(Units(S \cup T, q)) = Cardinality(Units(S, q)) + Cardinality(Units(T, q))
<1>1. Units(S \cup T, q) = Units(S, q) \cup Units(T, q)
  BY DEF Units
<1>2. Units(S, q) \cap Units(T, q) = {}
  BY DEF Units
<1>3. IsFiniteSet(Units(S, q)) /\ IsFiniteSet(Units(T, q))
  BY UnitsFinite
<1>4. Cardinality(Units(S, q)) \in Nat /\ Cardinality(Units(T, q)) \in Nat
  BY UnitsFinite
<1>5. Cardinality({}) = 0
  BY FS_EmptySet
<1>6. Cardinality(Units(S, q) \cup Units(T, q)) =
        Cardinality(Units(S, q)) + Cardinality(Units(T, q)) - Cardinality({})
  BY <1>2, <1>3, FS_Union
<1>7. Cardinality(Units(S, q)) + Cardinality(Units(T, q)) - 0 =
        Cardinality(Units(S, q)) + Cardinality(Units(T, q))
  BY <1>4
<1> QED
  BY <1>1, <1>5, <1>6, <1>7, Zenon

\* One purchase has as many tickets as its quantity.
LEMMA UnitsOne ==
    ASSUME NEW p \in Purchases, NEW q \in [Purchases -> 0..MaxQty]
    PROVE  Cardinality(Units({p}, q)) = q[p]
<1>1. q[p] \in 0..MaxQty /\ MaxQty \in Nat
  BY ConstantsAssumption
<1>2. Units({p}, q) = {p} \X (1..q[p])
  BY <1>1 DEF Units
<1>3. IsFiniteSet({p}) /\ Cardinality({p}) = 1
  BY FS_Singleton
<1>4. IsFiniteSet(1..q[p]) /\ Cardinality(1..q[p]) = q[p]
  BY <1>1, FS_Interval
<1>5. Cardinality({p} \X (1..q[p])) = Cardinality({p}) * Cardinality(1..q[p])
  BY <1>3, <1>4, FS_Product
<1>6. 1 * q[p] = q[p]
  BY <1>1
<1> QED
  BY <1>2, <1>3, <1>4, <1>5, <1>6, Zenon

\* Taking a subset out of a set of purchases takes its tickets out.
LEMMA UnitsMinus ==
    ASSUME NEW S \in SUBSET Purchases, NEW T \in SUBSET S, NEW q
    PROVE  Cardinality(Units(S \ T, q)) = Cardinality(Units(S, q)) - Cardinality(Units(T, q))
<1>1. ASSUME NEW R, R = S \ T
      PROVE  Cardinality(Units(S, q)) = Cardinality(Units(R, q)) + Cardinality(Units(T, q))
  <2>1. R \in SUBSET Purchases /\ T \in SUBSET Purchases /\ R \cap T = {}
    BY <1>1
  <2>2. R \cup T = S
    BY <1>1
  <2>3. Cardinality(Units(R \cup T, q)) = Cardinality(Units(R, q)) + Cardinality(Units(T, q))
    BY <2>1, UnitsUnion
  <2> QED
    BY <2>2, <2>3
<1>3. Cardinality(Units(S, q)) = Cardinality(Units(S \ T, q)) + Cardinality(Units(T, q))
  BY <1>1
<1>4. Cardinality(Units(S \ T, q)) \in Nat /\ Cardinality(Units(T, q)) \in Nat
  BY UnitsFinite
<1> QED
  BY <1>3, <1>4

\* Adding a purchase adds its quantity, taking one out subtracts it.
LEMMA UnitsAdd ==
    ASSUME NEW S \in SUBSET Purchases, NEW p \in Purchases \ S,
           NEW q \in [Purchases -> 0..MaxQty]
    PROVE  Cardinality(Units(S \cup {p}, q)) = Cardinality(Units(S, q)) + q[p]
<1>1. {p} \in SUBSET Purchases /\ S \cap {p} = {}
  OBVIOUS
<1>2. Cardinality(Units(S \cup {p}, q)) = Cardinality(Units(S, q)) + Cardinality(Units({p}, q))
  BY <1>1, UnitsUnion, Zenon
<1> QED
  BY <1>2, UnitsOne, Zenon

LEMMA UnitsRemove ==
    ASSUME NEW S \in SUBSET Purchases, NEW p \in S,
           NEW q \in [Purchases -> 0..MaxQty]
    PROVE  Cardinality(Units(S \ {p}, q)) = Cardinality(Units(S, q)) - q[p]
<1>1. {p} \in SUBSET S /\ p \in Purchases
  OBVIOUS
<1>2. Cardinality(Units(S \ {p}, q)) = Cardinality(Units(S, q)) - Cardinality(Units({p}, q))
  BY <1>1, UnitsMinus, Zenon
<1> QED
  BY <1>1, <1>2, UnitsOne, Zenon

\* Only the quantities of the purchases counted matter.
LEMMA UnitsAgree ==
    ASSUME NEW S \in SUBSET Purchases, NEW q, NEW r, \A p \in S : q[p] = r[p]
    PROVE  Units(S, q) = Units(S, r)
BY DEF Units

\* The arithmetic of StockBound, apart from the sets.
LEMMA BoundArithmetic ==
    /\ \A s, h \in Int, u, l, k \in Nat : s + h <= l /\ l <= k => s + h - u <= k
    /\ \A s, h, x, y \in Int, u, k \in Nat :
          x + y = s + h /\ s + h - u <= k => x + y - u <= k
OBVIOUS

-----------------------------------------------------------------------------
(* Types.                                                                  *)

LEMMA InitTypeOK == Init => TypeOK
<1>1. Idle \in Jobs
  BY DEF Idle, Jobs, JobRecords, EventNames
<1> SUFFICES ASSUME Init PROVE TypeOK
  OBVIOUS
<1>2. ledger \in [Purchases -> LedgerCounts]
  BY DEF Init, LedgerCounts
<1>3. job \in [Workers -> Jobs]
  BY <1>1 DEF Init
<1>4. /\ qty \in [Purchases -> 0..MaxQty]
      /\ status \in [Purchases -> Statuses]
      /\ aborts \in 0..MaxAborts
  BY ConstantsAssumption DEF Init, Statuses
<1>5. /\ invite \in [Purchases -> Invites \cup {None}]
      /\ payRef \in [Purchases -> Refs \cup {None}]
      /\ lapsed \in [Purchases -> BOOLEAN]
      /\ issued \in [Refs -> Purchases \cup {None}]
      /\ paystack \in [Refs -> {"unknown", "open", "charged"}]
  BY DEF Init
<1>6. onSale \in BOOLEAN /\ payout \in BOOLEAN /\ duplicates \in BOOLEAN
  BY Zenon DEF Init
<1>7. /\ limit \in Limits /\ peak \in Limits
      /\ sold \in Int /\ held \in Int
      /\ late \in SUBSET Purchases
      /\ processed \in SUBSET Events /\ unhandled \in SUBSET Events /\ sent \in SUBSET Events
  BY DEF Init
<1> QED
  BY <1>2, <1>3, <1>4, <1>5, <1>6, <1>7 DEF TypeOK

\* A lookup by reference returns a row or nothing.
LEMMA FindType == \A r : Find(r) \in Purchases \cup {None}
BY DEF Find, RowOf

\* The jobs the actions hand out.
LEMMA JobType ==
    /\ Idle \in Jobs
    /\ \A i \in Invites :
          [Idle EXCEPT !.step = "reserve", !.kind = "submit", !.invite = i] \in Jobs
    /\ \A r \in Refs \cup {None} :
          /\ [Idle EXCEPT !.step = "checkout", !.kind = "retry", !.ref = r] \in Jobs
          /\ [Idle EXCEPT !.step = "verify", !.kind = "reconcile", !.ref = r] \in Jobs
    /\ \A k \in Events, r \in Refs :
          [Idle EXCEPT !.step = "settle", !.kind = k[1], !.ref = k[2], !.found = Find(r)] \in Jobs
    /\ \A j \in Jobs, r \in Refs : [j EXCEPT !.step = "checkout", !.ref = r] \in Jobs
    /\ \A j \in Jobs, r \in Refs \cup {None} :
          /\ [j EXCEPT !.step = "settle", !.found = Find(r)] \in Jobs
          /\ [j EXCEPT !.step = "settle", !.kind = "checkoutFailed", !.found = Find(r)] \in Jobs
BY FindType DEF Idle, Jobs, JobRecords, EventNames, Events

\* Taking a hold keeps the types of what it writes.
LEMMA TakeHoldType ==
    ASSUME TypeOK, NEW p \in Purchases, NEW r \in Refs, NEW q \in 0..MaxQty, TakeHold(p, r, q)
    PROVE  /\ status' \in [Purchases -> Statuses]
           /\ qty' \in [Purchases -> 0..MaxQty]
           /\ held' \in Int
<1>1. Lapsed \in SUBSET Purchases
  BY DEF Lapsed
<1>2. UnitsOf(Lapsed) \in Nat
  BY <1>1, UnitsFinite DEF UnitsOf
<1>3. q \in Int /\ held \in Int
  BY DEF TypeOK
<1>4. held' = held - UnitsOf(Lapsed) + q
  BY DEF TakeHold
<1> QED
  BY <1>2, <1>3, <1>4 DEF TakeHold, TypeOK, Statuses

\* What settling a row may write.
SettledType ==
    /\ status' \in [Purchases -> Statuses]
    /\ sold' \in Int /\ held' \in Int
    /\ late' \in SUBSET Purchases
    /\ ledger' \in [Purchases -> LedgerCounts]
    /\ UNCHANGED <<invite, qty, payRef, lapsed, issued>>

\* Every step keeps the types.
LEMMA NextTypeOK == TypeOK /\ [Next]_vars => TypeOK'
<1> SUFFICES ASSUME TypeOK, [Next]_vars PROVE TypeOK'
  OBVIOUS
<1> USE ConstantsAssumption
<1> USE DEF TypeOK, vars, rowVars, ticketVars, stockVars, hookVars, envVars
<1>0. Idle \in Jobs
  BY JobType
<1>1. ASSUME NEW w \in Workers, NEW i \in Invites, SubmitRead(w, i) PROVE TypeOK'
  <2>1. job' \in [Workers -> Jobs]
    BY <1>1, JobType DEF SubmitRead
  <2> QED
    BY <1>1, <2>1 DEF SubmitRead
<1>2. ASSUME NEW w \in Workers, NEW p \in Purchases, NEW r \in Refs, NEW q \in 1..MaxQty,
             SubmitReserve(w, p, r, q)
      PROVE  TypeOK'
  <2>1. /\ status' \in [Purchases -> Statuses]
        /\ qty' \in [Purchases -> 0..MaxQty]
        /\ held' \in Int
    BY <1>2, TakeHoldType DEF SubmitReserve
  <2>2. job' = [job EXCEPT ![w] = [job[w] EXCEPT !.step = "checkout", !.ref = r]]
    BY <1>2 DEF SubmitReserve
  <2>3. job' \in [Workers -> Jobs]
    BY <2>2, JobType
  <2>4. invite' \in [Purchases -> Invites \cup {None}]
    BY <1>2 DEF SubmitReserve, Jobs, JobRecords
  <2> QED
    BY <1>2, <2>1, <2>3, <2>4 DEF SubmitReserve, TakeHold
<1>3. ASSUME NEW w \in Workers, SubmitRefused(w) PROVE TypeOK'
  BY <1>0, <1>3 DEF SubmitRefused
<1>4. ASSUME NEW w \in Workers, NEW p \in Purchases, NEW r \in Refs, RetryPayment(w, p, r)
      PROVE  TypeOK'
  <2>1. /\ status' \in [Purchases -> Statuses]
        /\ qty' \in [Purchases -> 0..MaxQty]
        /\ held' \in Int
    BY <1>4, TakeHoldType DEF RetryPayment
  <2>2. job' \in [Workers -> Jobs]
    BY <1>4, JobType DEF RetryPayment
  <2> QED
    BY <1>4, <2>1, <2>2 DEF RetryPayment, TakeHold
<1>5. ASSUME NEW w \in Workers, CheckoutStarts(w) PROVE TypeOK'
  BY <1>0, <1>5 DEF CheckoutStarts
<1>6. ASSUME NEW w \in Workers, CheckoutFails(w) PROVE TypeOK'
  <2>1. job[w] \in Jobs /\ job[w].ref \in Refs \cup {None}
    BY DEF Jobs, JobRecords
  <2>2. job' = [job EXCEPT ![w] = [job[w] EXCEPT !.step = "settle", !.kind = "checkoutFailed",
                                                !.found = Find(job[w].ref)]]
    BY <1>6 DEF CheckoutFails
  <2>3. job' \in [Workers -> Jobs]
    BY <2>1, <2>2, JobType
  <2> QED
    BY <1>6, <2>3 DEF CheckoutFails
<1>7. ASSUME NEW w \in Workers, NEW k \in Events, HookStart(w, k) PROVE TypeOK'
  <2>1. job' \in [Workers -> Jobs]
    BY <1>7, JobType DEF HookStart, Events
  <2> QED
    BY <1>7, <2>1 DEF HookStart
<1>8. ASSUME NEW k \in Events, HookDuplicate(k) PROVE TypeOK'
  BY <1>8 DEF HookDuplicate
<1>9. ASSUME NEW w \in Workers, NEW p \in Purchases, ReconcileRead(w, p) PROVE TypeOK'
  <2>1. job' \in [Workers -> Jobs]
    BY <1>9, JobType DEF ReconcileRead
  <2> QED
    BY <1>9, <2>1 DEF ReconcileRead
<1>10. ASSUME NEW w \in Workers, ReconcileVerify(w) PROVE TypeOK'
  <2>1. job[w] \in Jobs /\ job[w].ref \in Refs \cup {None}
    BY DEF Jobs, JobRecords
  <2>2. [job[w] EXCEPT !.step = "settle", !.found = Find(job[w].ref)] \in Jobs
    BY <2>1, JobType
  <2>3. job' \in [Workers -> Jobs]
    BY <1>0, <1>10, <2>2 DEF ReconcileVerify
  <2> QED
    BY <1>10, <2>3 DEF ReconcileVerify
<1>11. ASSUME NEW w \in Workers, Settle(w) PROVE TypeOK'
  <2>1. job[w] \in Jobs /\ job[w].found \in Purchases \cup {None}
    BY DEF Jobs, JobRecords
  <2>2. ASSUME NEW p \in Purchases, ConfirmRow(p) PROVE SettledType
    <3>3. ledger' \in [Purchases -> LedgerCounts]
      BY <2>2 DEF ConfirmRow, LedgerCounts
    <3>4. sold' \in Int /\ held' \in Int
      BY <2>2 DEF ConfirmRow, ReleasedByConfirm
    <3> QED
      BY <2>2, <3>3, <3>4 DEF ConfirmRow, Statuses, SettledType
  <2>3. ASSUME NEW p \in Purchases, FailRow(p) PROVE SettledType
    <3>1. ledger' = [ledger EXCEPT ![p] = [ledger[p] EXCEPT !.FAILED = @ + 1]]
      BY <2>3 DEF FailRow
    <3>2. [ledger[p] EXCEPT !.FAILED = @ + 1] \in LedgerCounts
      BY DEF LedgerCounts
    <3>3. ledger' \in [Purchases -> LedgerCounts]
      BY <3>1, <3>2
    <3> QED
      BY <2>3, <3>3 DEF FailRow, Statuses, SettledType
  <2>4. ASSUME RowUntouched PROVE SettledType
    BY <2>4 DEF RowUntouched, SettledType
  <2>5. SettledType
    BY <1>11, <2>1, <2>2, <2>3, <2>4 DEF Settle
  <2>6. job' \in [Workers -> Jobs]
    BY <1>0, <1>11 DEF Settle
  <2>7. job[w].kind \in EventNames => <<job[w].kind, job[w].ref>> \in Events
    BY <2>1 DEF Jobs, JobRecords, Events, EventNames
  <2>8. processed' \in SUBSET Events /\ unhandled' \in SUBSET Events
    BY <1>11, <2>7 DEF Settle
  <2> QED
    BY <1>11, <2>5, <2>6, <2>8 DEF Settle, SettledType
<1>12. ASSUME NEW w \in Workers, Abort(w) PROVE TypeOK'
  BY <1>0, <1>12 DEF Abort
<1>13. ASSUME NEW p \in Purchases, HoldLapses(p) PROVE TypeOK'
  BY <1>13 DEF HoldLapses
<1>14. ASSUME NEW n \in Limits, SetLimit(n) PROVE TypeOK'
  BY <1>14 DEF SetLimit
<1>15. ASSUME NEW b \in Switches, SetOnSale(b) \/ SetPayout(b) PROVE TypeOK'
  BY <1>15 DEF SetOnSale, SetPayout
<1>16. ASSUME NEW r \in Refs, PaystackDeclines(r) \/ PaystackCharges(r) PROVE TypeOK'
  BY <1>16 DEF PaystackDeclines, PaystackCharges, Events
<1>17. CASE UNCHANGED vars
  BY <1>17
<1> QED
  BY <1>1, <1>2, <1>3, <1>4, <1>5, <1>6, <1>7, <1>8, <1>9, <1>10, <1>11, <1>12,
     <1>13, <1>14, <1>15, <1>16, <1>17 DEF Next

\* Every reachable state is well typed.
THEOREM TypeCorrect == Spec => []TypeOK
<1>1. Init => TypeOK
  BY InitTypeOK
<1>2. TypeOK /\ [Next]_vars => TypeOK'
  BY NextTypeOK
<1> QED
  BY <1>1, <1>2, PTL DEF Spec

-----------------------------------------------------------------------------
(* Stock.                                                                  *)

\* The inductive invariant behind the stock properties.  StockBound alone is
\* not inductive: that a hold found room says something about the counters,
\* and only HeldExact and SoldExact tie those to the rows; that a late
\* confirmation adds a purchase to late which was not there needs late to be
\* PAID purchases.
StockInv ==
    /\ TypeOK
    /\ HeldExact
    /\ SoldExact
    /\ StockBound
    /\ late \subseteq WithStatus("PAID")
    /\ limit <= peak

LEMMA InitStockInv == Init => StockInv
<1> SUFFICES ASSUME Init PROVE StockInv
  OBVIOUS
<1>1. TypeOK
  BY InitTypeOK
<1>2. /\ WithStatus("PENDING") = {}
      /\ WithStatus("PAID") = {}
  BY DEF Init, WithStatus
<1>3. Units({}, qty) = {}
  BY DEF Units
<1>4. UnitsOf({}) = 0
  BY <1>3, FS_EmptySet, Zenon DEF UnitsOf
<1>5. HeldExact /\ SoldExact
  BY <1>2, <1>4, Zenon DEF Init, HeldExact, SoldExact
<1>6. limit \in Nat /\ peak = limit /\ sold = 0 /\ held = 0 /\ late = {}
  BY ConstantsAssumption DEF Init
<1>7. UnitsOf(late) = 0
  BY <1>4, <1>6, Zenon
<1>8. StockBound
  BY <1>6, <1>7 DEF StockBound
<1> QED
  BY <1>1, <1>5, <1>6, <1>8 DEF StockInv

\* A step that leaves the rows and the counters alone keeps the invariant,
\* provided peak follows limit.
LEMMA SameStock ==
    ASSUME StockInv, TypeOK', UNCHANGED <<status, qty, sold, held, late>>,
           peak' >= peak, limit' <= peak'
    PROVE  StockInv'
<1>1. /\ WithStatus("PENDING")' = WithStatus("PENDING")
      /\ WithStatus("PAID")' = WithStatus("PAID")
  BY DEF WithStatus
<1>2. /\ UnitsOf(WithStatus("PENDING"))' = UnitsOf(WithStatus("PENDING"))
      /\ UnitsOf(WithStatus("PAID"))' = UnitsOf(WithStatus("PAID"))
      /\ UnitsOf(late)' = UnitsOf(late)
  BY <1>1 DEF UnitsOf
<1>3. HeldExact' /\ SoldExact'
  BY <1>2 DEF StockInv, HeldExact, SoldExact
<1>4. late \in SUBSET Purchases /\ UnitsOf(late) \in Nat
  BY UnitsFinite DEF StockInv, TypeOK, UnitsOf
<1>5. sold \in Int /\ held \in Int /\ peak \in Nat /\ peak' \in Nat
  BY ConstantsAssumption DEF StockInv, TypeOK
<1>6. StockBound'
  BY <1>2, <1>4, <1>5 DEF StockInv, StockBound
<1> QED
  BY <1>1, <1>3, <1>6 DEF StockInv

\* Sweeping and taking a hold, for a row that is neither held nor paid: what
\* is swept leaves heldCount as it leaves PENDING, and the hold that is added
\* found room among all that is really held or paid.
LEMMA TakeHoldStock ==
    ASSUME StockInv, TypeOK', NEW p \in Purchases, NEW r \in Refs, NEW q \in 0..MaxQty,
           status[p] \notin {"PENDING", "PAID"}, TakeHold(p, r, q),
           UNCHANGED <<limit, peak>>
    PROVE  StockInv'
<1> DEFINE P == WithStatus("PENDING")
           D == WithStatus("PAID")
           n(S) == Cardinality(Units(S, qty))
<1>1. /\ P \in SUBSET Purchases /\ D \in SUBSET Purchases
      /\ Lapsed \in SUBSET P /\ (P \ Lapsed) \in SUBSET Purchases
      /\ p \in Purchases \ (P \ Lapsed) /\ p \notin D
  BY DEF WithStatus, Lapsed
<1>2. status' = [x \in Purchases |-> IF x = p THEN "PENDING"
                                     ELSE IF x \in Lapsed THEN "EXPIRED" ELSE status[x]]
  BY DEF TakeHold
<1>3. WithStatus("PENDING")' = (P \ Lapsed) \cup {p}
  BY <1>1, <1>2 DEF WithStatus, Lapsed
<1>4. WithStatus("PAID")' = D
  BY <1>1, <1>2 DEF WithStatus, Lapsed
<1>5. /\ qty' \in [Purchases -> 0..MaxQty] /\ qty'[p] = q
      /\ \A x \in Purchases : x # p => qty'[x] = qty[x]
  BY DEF TakeHold, StockInv, TypeOK
<1>6. Units(P \ Lapsed, qty') = Units(P \ Lapsed, qty)
  <2>1. \A x \in P \ Lapsed : qty'[x] = qty[x]
    BY <1>1, <1>5
  <2> QED
    BY <1>1, <2>1, UnitsAgree, Zenon
<1>7. Units(D, qty') = Units(D, qty)
  <2>1. \A x \in D : qty'[x] = qty[x]
    BY <1>1, <1>5
  <2> QED
    BY <1>1, <2>1, UnitsAgree, Zenon
<1>8. UnitsOf(WithStatus("PENDING"))' = n(P \ Lapsed) + q
  <2>1. Cardinality(Units((P \ Lapsed) \cup {p}, qty')) = Cardinality(Units(P \ Lapsed, qty')) + qty'[p]
    BY <1>1, <1>5, UnitsAdd, Zenon
  <2> QED
    BY <1>3, <1>5, <1>6, <2>1, Zenon DEF UnitsOf
<1>9. n(P \ Lapsed) = n(P) - n(Lapsed)
  BY <1>1, UnitsMinus, Zenon
<1>10. held' = held - n(Lapsed) + q /\ sold' = sold /\ sold + held - n(Lapsed) + q <= limit /\ late' = late
  BY DEF TakeHold, HasRoom, UnitsOf
<1>11. held = n(P) /\ sold = n(D)
  BY DEF StockInv, HeldExact, SoldExact, UnitsOf
<1>12. n(P) \in Nat /\ n(Lapsed) \in Nat /\ n(D) \in Nat /\ q \in Nat
  BY <1>1, UnitsFinite
<1> HIDE DEF n
<1>13. HeldExact'
  <2>1. held' = n(P) - n(Lapsed) + q
    BY <1>10, <1>11
  <2> QED
    BY <2>1, <1>8, <1>9 DEF HeldExact
<1>14. SoldExact'
  BY <1>4, <1>7, <1>10, <1>11, Zenon DEF SoldExact, UnitsOf, n
<1>15. StockBound'
  <2>1. UnitsOf(late)' \in Nat
    <3>1. late' \in SUBSET Purchases
      BY DEF TypeOK
    <3> QED
      BY <3>1, UnitsFinite DEF UnitsOf
  <2>2. limit \in Nat /\ peak \in Nat /\ limit <= peak /\ peak' = peak
    BY ConstantsAssumption DEF StockInv, TypeOK
  <2>3. sold' + held' <= limit /\ sold' \in Int /\ held' \in Int
    BY <1>10, <1>11, <1>12
  <2>4. sold' + held' - UnitsOf(late)' <= peak'
    BY <2>1, <2>2, <2>3, BoundArithmetic, Zenon
  <2> QED
    BY <2>4 DEF StockBound
<1>16. late' \subseteq WithStatus("PAID")'
  BY <1>4, <1>10 DEF StockInv
<1> QED
  BY <1>13, <1>14, <1>15, <1>16 DEF StockInv

\* Confirming: from PENDING a hold becomes a sale, from any other status the
\* sale is counted and the purchase joins late.
LEMMA ConfirmStock ==
    ASSUME StockInv, TypeOK', NEW p \in Purchases, ConfirmRow(p), UNCHANGED <<limit, peak>>
    PROVE  StockInv'
<1> DEFINE P == WithStatus("PENDING")
           D == WithStatus("PAID")
           n(S) == Cardinality(Units(S, qty))
<1>1. /\ P \in SUBSET Purchases /\ D \in SUBSET Purchases /\ p \in Purchases \ D
      /\ late \in SUBSET D /\ late \in SUBSET Purchases
  BY DEF WithStatus, ConfirmRow, Confirmable, StockInv
<1>2. status' = [status EXCEPT ![p] = "PAID"] /\ qty' = qty /\ sold' = sold + qty[p]
  BY DEF ConfirmRow
<1>3. WithStatus("PAID")' = D \cup {p} /\ WithStatus("PENDING")' = P \ {p}
  BY <1>2 DEF WithStatus, StockInv, TypeOK
<1>4. qty \in [Purchases -> 0..MaxQty] /\ qty[p] \in Nat
  BY ConstantsAssumption DEF StockInv, TypeOK
<1>5. UnitsOf(WithStatus("PAID"))' = n(D) + qty[p]
  BY <1>1, <1>2, <1>3, <1>4, UnitsAdd, Zenon DEF UnitsOf
<1>6. held = n(P) /\ sold = n(D)
  BY DEF StockInv, HeldExact, SoldExact, UnitsOf
<1>7. SoldExact'
  BY <1>2, <1>5, <1>6, Zenon DEF SoldExact
<1>8. /\ n(P) \in Nat /\ n(D) \in Nat /\ n(late) \in Nat
      /\ limit \in Nat /\ peak \in Nat /\ limit <= peak
      /\ sold + held - n(late) <= peak
  <2>1. n(P) \in Nat /\ n(D) \in Nat /\ n(late) \in Nat
    BY <1>1, UnitsFinite
  <2> QED
    BY <2>1, ConstantsAssumption DEF StockInv, TypeOK, StockBound, UnitsOf
<1>9. CASE status[p] = "PENDING"
  <2>1. p \in P
    BY <1>9 DEF WithStatus
  <2>2. held' = held - qty[p] /\ late' = late
    BY <1>9 DEF ConfirmRow, ReleasedByConfirm
  <2>3. UnitsOf(WithStatus("PENDING"))' = n(P) - qty[p]
    BY <1>1, <1>2, <1>3, <1>4, <2>1, UnitsRemove, Zenon DEF UnitsOf
  <2>4. HeldExact'
    BY <1>6, <2>2, <2>3, Zenon DEF HeldExact
  <2>5. UnitsOf(late)' = n(late)
    BY <1>2, <2>2, Zenon DEF UnitsOf
  <2> HIDE DEF n
  <2>6. sold' + held' = sold + held
    BY <1>2, <1>4, <1>6, <1>8, <2>2
  <2>7. sold \in Int /\ held \in Int /\ sold' \in Int /\ held' \in Int /\ peak' = peak
    BY DEF StockInv, TypeOK
  <2>8. sold' + held' - n(late) <= peak
    BY <1>8, <2>6, <2>7, BoundArithmetic, Zenon
  <2>9. StockBound'
    BY <2>5, <2>7, <2>8, Zenon DEF StockBound
  <2> QED
    BY <1>1, <1>3, <1>7, <2>2, <2>4, <2>9 DEF StockInv
<1>10. CASE status[p] # "PENDING"
  <2>1. P \ {p} = P /\ p \in Purchases \ late
    BY <1>1, <1>10 DEF WithStatus
  <2>2. held' = held /\ late' = late \cup {p}
    <3>1. ReleasedByConfirm(p) = 0
      BY <1>10 DEF ReleasedByConfirm
    <3>2. held' = held - 0 /\ late' = late \cup {p}
      BY <1>10, <3>1 DEF ConfirmRow
    <3> QED
      BY <3>2 DEF StockInv, TypeOK
  <2>3. UnitsOf(WithStatus("PENDING"))' = n(P)
    BY <1>2, <1>3, <2>1, Zenon DEF UnitsOf
  <2>4. HeldExact'
    BY <1>6, <2>2, <2>3, Zenon DEF HeldExact
  <2>5. UnitsOf(late)' = n(late) + qty[p]
    BY <1>1, <1>2, <1>4, <2>1, <2>2, UnitsAdd, Zenon DEF UnitsOf
  <2> HIDE DEF n
  <2>6. sold' + held' - (n(late) + qty[p]) = sold + held - n(late)
    BY <1>2, <1>4, <1>6, <1>8, <2>2
  <2>7. StockBound'
    <3>1. peak' = peak
      OBVIOUS
    <3>2. sold' + held' - UnitsOf(late)' <= peak
      BY <1>8, <2>5, <2>6
    <3> QED
      BY <3>1, <3>2 DEF StockBound
  <2> QED
    BY <1>1, <1>3, <1>7, <2>2, <2>4, <2>7 DEF StockInv
<1> QED
  BY <1>9, <1>10

\* Failing a PENDING row gives its hold back.
LEMMA FailStock ==
    ASSUME StockInv, TypeOK', NEW p \in Purchases, FailRow(p), UNCHANGED <<limit, peak>>
    PROVE  StockInv'
<1> DEFINE P == WithStatus("PENDING")
           n(S) == Cardinality(Units(S, qty))
<1>1. P \in SUBSET Purchases /\ p \in P
  BY DEF WithStatus, FailRow, Failable
<1>2. /\ status' = [status EXCEPT ![p] = "FAILED"] /\ qty' = qty
      /\ sold' = sold /\ late' = late /\ held' = held - qty[p]
  BY DEF FailRow
<1>3. WithStatus("PENDING")' = P \ {p} /\ WithStatus("PAID")' = WithStatus("PAID")
  BY <1>1, <1>2 DEF WithStatus, StockInv, TypeOK
<1>4. qty \in [Purchases -> 0..MaxQty] /\ qty[p] \in Nat
  BY ConstantsAssumption DEF StockInv, TypeOK, WithStatus, FailRow
<1>5. held = n(P)
  BY DEF StockInv, HeldExact, UnitsOf
<1>6. UnitsOf(WithStatus("PENDING"))' = n(P) - qty[p]
  BY <1>1, <1>2, <1>3, <1>4, UnitsRemove, Zenon DEF UnitsOf
<1>7. HeldExact'
  BY <1>2, <1>5, <1>6, Zenon DEF HeldExact
<1>8. SoldExact'
  BY <1>2, <1>3, Zenon DEF StockInv, SoldExact, UnitsOf
<1>9. UnitsOf(late)' = UnitsOf(late) /\ UnitsOf(late) \in Nat
  <2>1. late \in SUBSET Purchases
    BY DEF StockInv, TypeOK
  <2> QED
    BY <1>2, <2>1, UnitsFinite DEF UnitsOf
<1>10. StockBound'
  <2>1. sold \in Int /\ held \in Int /\ peak \in Nat
    BY ConstantsAssumption DEF StockInv, TypeOK
  <2>2. sold + held - UnitsOf(late) <= peak
    BY DEF StockInv, StockBound
  <2> QED
    <3>1. peak' = peak
      OBVIOUS
    <3>2. sold' + held' - UnitsOf(late) <= peak
      BY <1>2, <1>4, <1>9, <2>1, <2>2
    <3> QED
      BY <1>9, <3>1, <3>2 DEF StockBound
<1> QED
  BY <1>2, <1>3, <1>7, <1>8, <1>10 DEF StockInv

\* Every step keeps the stock invariant and, with it, every PAID row PAID.
LEMMA NextStockInv == StockInv /\ [Next]_vars => StockInv'
<1> SUFFICES ASSUME StockInv, [Next]_vars PROVE StockInv'
  OBVIOUS
<1> USE DEF vars, rowVars, ticketVars, stockVars, hookVars, envVars
<1>0. TypeOK'
  BY NextTypeOK DEF StockInv
<1>a. /\ peak \in Nat /\ limit \in Nat /\ limit <= peak
      /\ MaxQty \in Nat /\ 1..MaxQty \subseteq 0..MaxQty
      /\ \A p \in Purchases : qty[p] \in 0..MaxQty
  BY ConstantsAssumption DEF StockInv, TypeOK
<1>1. ASSUME UNCHANGED <<status, qty, sold, held, late>>, UNCHANGED <<limit, peak>>
      PROVE  StockInv'
  <2>1. peak' >= peak /\ limit' <= peak'
    BY <1>a, <1>1
  <2> QED
    BY <1>0, <1>1, <2>1, SameStock
<1>2. ASSUME NEW w \in Workers, NEW p \in Purchases, NEW r \in Refs, NEW q \in 1..MaxQty,
             SubmitReserve(w, p, r, q)
      PROVE  StockInv'
  <2>1. status[p] \notin {"PENDING", "PAID"} /\ TakeHold(p, r, q) /\ UNCHANGED <<limit, peak>>
    BY <1>2 DEF SubmitReserve
  <2>2. q \in 0..MaxQty
    BY <1>a
  <2> QED
    BY <1>0, <2>1, <2>2, TakeHoldStock
<1>3. ASSUME NEW w \in Workers, NEW p \in Purchases, NEW r \in Refs, RetryPayment(w, p, r)
      PROVE  StockInv'
  <2>1. status[p] \notin {"PENDING", "PAID"} /\ TakeHold(p, r, qty[p]) /\ UNCHANGED <<limit, peak>>
    BY <1>3 DEF RetryPayment, Retryable
  <2> QED
    BY <1>0, <1>a, <2>1, TakeHoldStock
<1>4. ASSUME NEW w \in Workers, Settle(w) PROVE StockInv'
  <2>1. job[w].found # None => job[w].found \in Purchases
    BY DEF StockInv, TypeOK, Jobs, JobRecords
  <2>2. UNCHANGED <<limit, peak>>
    BY <1>4 DEF Settle
  <2>3. ASSUME RowUntouched PROVE StockInv'
    BY <1>1, <2>2, <2>3 DEF RowUntouched
  <2>4. \/ \E p \in Purchases : ConfirmRow(p) \/ FailRow(p)
        \/ RowUntouched
    BY <1>4, <2>1 DEF Settle
  <2> QED
    BY <1>0, <2>2, <2>3, <2>4, ConfirmStock, FailStock
<1>5. ASSUME NEW n \in Limits, SetLimit(n) PROVE StockInv'
  <2>1. n \in Nat
    BY ConstantsAssumption
  <2>2. peak' >= peak /\ limit' <= peak'
    BY <1>5, <1>a, <2>1 DEF SetLimit
  <2>3. UNCHANGED <<status, qty, sold, held, late>>
    BY <1>5 DEF SetLimit
  <2> QED
    BY <1>0, <2>2, <2>3, SameStock
<1>6. ASSUME NEW w \in Workers,
             \/ \E i \in Invites : SubmitRead(w, i)
             \/ SubmitRefused(w)
             \/ CheckoutStarts(w)
             \/ CheckoutFails(w)
             \/ \E k \in Events : HookStart(w, k)
             \/ \E p \in Purchases : ReconcileRead(w, p)
             \/ ReconcileVerify(w)
             \/ Abort(w)
      PROVE  StockInv'
  BY <1>1, <1>6 DEF SubmitRead, SubmitRefused, CheckoutStarts, CheckoutFails, HookStart,
                    ReconcileRead, ReconcileVerify, Abort
<1>7. ASSUME \/ \E k \in Events : HookDuplicate(k)
             \/ \E p \in Purchases : HoldLapses(p)
             \/ \E b \in Switches : SetOnSale(b) \/ SetPayout(b)
             \/ \E r \in Refs : PaystackDeclines(r) \/ PaystackCharges(r)
             \/ UNCHANGED vars
      PROVE  StockInv'
  BY <1>1, <1>7 DEF HookDuplicate, HoldLapses, SetOnSale, SetPayout, PaystackDeclines,
                    PaystackCharges
<1> QED
  BY <1>2, <1>3, <1>4, <1>5, <1>6, <1>7 DEF Next

LEMMA StockInvariant == Spec => []StockInv
<1>1. Init => StockInv
  BY InitStockInv
<1>2. StockInv /\ [Next]_vars => StockInv'
  BY NextStockInv
<1> QED
  BY <1>1, <1>2, PTL DEF Spec

\* Whoever releases a hold first, and in whatever order, heldCount is the
\* tickets of the PENDING purchases.
THEOREM HeldCountIsExact == Spec => []HeldExact
<1>1. StockInv => HeldExact
  BY DEF StockInv
<1> QED
  BY <1>1, StockInvariant, PTL

\* No sale is counted twice or forgotten: soldCount is the tickets of the
\* PAID purchases.
THEOREM SoldCountIsExact == Spec => []SoldExact
<1>1. StockInv => SoldExact
  BY DEF StockInv
<1> QED
  BY <1>1, StockInvariant, PTL

\* The code oversells by late confirmations and in no other way.
THEOREM OversoldOnlyByLateConfirmations == Spec => []StockBound
<1>1. StockInv => StockBound
  BY DEF StockInv
<1> QED
  BY <1>1, StockInvariant, PTL

\* Nothing that arrives after a payment takes it back.
THEOREM PaidStaysPaid == Spec => PaidIsFinal
<1>1. TypeOK /\ [Next]_vars =>
         [\A p \in Purchases : status[p] = "PAID" => status'[p] = "PAID"]_vars
  <2> SUFFICES ASSUME TypeOK, Next
               PROVE  \A p \in Purchases : status[p] = "PAID" => status'[p] = "PAID"
    OBVIOUS
  <2> USE DEF TypeOK, rowVars
  <2>1. ASSUME NEW p \in Purchases, NEW r \in Refs, NEW q, TakeHold(p, r, q),
               status[p] # "PAID"
        PROVE  \A x \in Purchases : status[x] = "PAID" => status'[x] = "PAID"
    BY <2>1 DEF TakeHold, Lapsed
  <2>2. ASSUME NEW w \in Workers, NEW p \in Purchases, NEW r \in Refs, NEW q \in 1..MaxQty,
               SubmitReserve(w, p, r, q)
        PROVE  \A x \in Purchases : status[x] = "PAID" => status'[x] = "PAID"
    BY <2>1, <2>2 DEF SubmitReserve
  <2>3. ASSUME NEW w \in Workers, NEW p \in Purchases, NEW r \in Refs, RetryPayment(w, p, r)
        PROVE  \A x \in Purchases : status[x] = "PAID" => status'[x] = "PAID"
    BY <2>1, <2>3 DEF RetryPayment, Retryable
  <2>4. ASSUME NEW w \in Workers, Settle(w)
        PROVE  \A x \in Purchases : status[x] = "PAID" => status'[x] = "PAID"
    BY <2>4 DEF Settle, ConfirmRow, FailRow, Failable, RowUntouched
  <2>5. UNCHANGED status => \A x \in Purchases : status[x] = "PAID" => status'[x] = "PAID"
    OBVIOUS
  <2> QED
    BY <2>2, <2>3, <2>4, <2>5
       DEF Next, SubmitRead, SubmitRefused, CheckoutStarts, CheckoutFails, HookStart,
           HookDuplicate, ReconcileRead, ReconcileVerify, Abort, HoldLapses, SetLimit,
           SetOnSale, SetPayout, PaystackDeclines, PaystackCharges
<1> QED
  BY <1>1, TypeCorrect, PTL DEF Spec, PaidIsFinal

-----------------------------------------------------------------------------
(* The ledger.                                                             *)

\* The references a purchase was given.
Attempts(p) == {r \in Refs : issued[r] = p}

\* The inductive invariant behind LedgerExact: there are only ever finitely
\* many attempts, so that they can be counted.
LedgerInv == LedgerExact /\ \A p \in Purchases : IsFiniteSet(Attempts(p))

\* A new attempt is one more, and no other purchase's.
LEMMA OneMoreAttempt ==
    ASSUME TypeOK, LedgerInv, NEW p \in Purchases, NEW r \in Refs, NEW q, TakeHold(p, r, q)
    PROVE  /\ Cardinality(Attempts(p)') = Cardinality(Attempts(p)) + 1
           /\ \A x \in Purchases : x # p => Attempts(x)' = Attempts(x)
           /\ \A x \in Purchases : IsFiniteSet(Attempts(x)') /\ Cardinality(Attempts(x)) \in Nat
<1>1. issued' = [issued EXCEPT ![r] = p] /\ issued[r] = None
  BY DEF TakeHold, Fresh
<1>2. p # None /\ issued \in [Refs -> Purchases \cup {None}]
  BY ConstantsAssumption DEF TypeOK
<1>3. Attempts(p)' = Attempts(p) \cup {r} /\ r \notin Attempts(p)
  BY <1>1, <1>2 DEF Attempts
<1>4. \A x \in Purchases : x # p => Attempts(x)' = Attempts(x)
  <2> SUFFICES ASSUME NEW x \in Purchases, x # p PROVE Attempts(x)' = Attempts(x)
    OBVIOUS
  <2>1. x # None
    BY ConstantsAssumption
  <2> QED
    BY <1>1, <1>2, <2>1 DEF Attempts
<1>5. \A x \in Purchases : IsFiniteSet(Attempts(x)) /\ Cardinality(Attempts(x)) \in Nat
  BY FS_CardinalityType DEF LedgerInv
<1>6. IsFiniteSet(Attempts(p)') /\ Cardinality(Attempts(p)') = Cardinality(Attempts(p)) + 1
  BY <1>3, <1>5, FS_AddElement
<1> QED
  BY <1>4, <1>5, <1>6

\* A new attempt at a purchase that is neither held nor paid.
LEMMA TakeHoldLedger ==
    ASSUME TypeOK, LedgerInv, NEW p \in Purchases, NEW r \in Refs, NEW q, TakeHold(p, r, q),
           status[p] \notin {"PENDING", "PAID"}
    PROVE  LedgerInv'
<1>1. /\ ledger' = ledger /\ ledger \in [Purchases -> LedgerCounts]
      /\ \A x \in Purchases : status'[x] = IF x = p THEN "PENDING"
                                           ELSE IF x \in Lapsed THEN "EXPIRED" ELSE status[x]
  BY DEF TakeHold, TypeOK
<1>2. \A x \in Purchases : ledger[x].FAILED \in Nat /\ Cardinality(Attempts(x)) \in Nat
  BY <1>1, OneMoreAttempt DEF LedgerCounts
<1>3. ASSUME NEW x \in Purchases
      PROVE  /\ ledger[x].SUCCEEDED = (IF status'[x] = "PAID" THEN 1 ELSE 0)
             /\ ledger[x].COMMISSION = ledger[x].SUCCEEDED
             /\ ledger[x].FAILED + (IF status'[x] = "PENDING" THEN 1 ELSE 0) <= Cardinality(Attempts(x)')
  <2>1. /\ ledger[x].SUCCEEDED = (IF status[x] = "PAID" THEN 1 ELSE 0)
        /\ ledger[x].COMMISSION = ledger[x].SUCCEEDED
        /\ ledger[x].FAILED + (IF status[x] = "PENDING" THEN 1 ELSE 0) <= Cardinality(Attempts(x))
    BY DEF LedgerInv, LedgerExact, Attempts
  <2>2. CASE x = p
    BY <1>1, <1>2, <2>1, <2>2, OneMoreAttempt
  <2>3. CASE x # p
    <3>1. Attempts(x)' = Attempts(x)
      BY <2>3, OneMoreAttempt
    <3>2. status'[x] = status[x] \/ (status[x] = "PENDING" /\ status'[x] = "EXPIRED")
      BY <1>1, <2>3 DEF Lapsed
    <3> QED
      BY <1>2, <2>1, <3>1, <3>2
  <2> QED
    BY <2>2, <2>3
<1> QED
  BY <1>1, <1>3, OneMoreAttempt DEF LedgerInv, LedgerExact, Attempts

\* Confirming and failing write the entries their status asks for.
LEMMA SettleLedger ==
    ASSUME TypeOK, LedgerInv, NEW p \in Purchases, ConfirmRow(p) \/ FailRow(p)
    PROVE  LedgerInv'
<1>1. ledger \in [Purchases -> LedgerCounts] /\ status \in [Purchases -> Statuses]
  BY DEF TypeOK
<1>2. \A x \in Purchases : Attempts(x)' = Attempts(x) /\ Cardinality(Attempts(x)) \in Nat
  BY FS_CardinalityType DEF LedgerInv, ConfirmRow, FailRow, Attempts
<1>3. ASSUME NEW x \in Purchases
      PROVE  /\ ledger'[x].SUCCEEDED = (IF status'[x] = "PAID" THEN 1 ELSE 0)
             /\ ledger'[x].COMMISSION = ledger'[x].SUCCEEDED
             /\ ledger'[x].FAILED + (IF status'[x] = "PENDING" THEN 1 ELSE 0) <= Cardinality(Attempts(x))
  <2>1. /\ ledger[x].SUCCEEDED = (IF status[x] = "PAID" THEN 1 ELSE 0)
        /\ ledger[x].COMMISSION = ledger[x].SUCCEEDED
        /\ ledger[x].FAILED + (IF status[x] = "PENDING" THEN 1 ELSE 0) <= Cardinality(Attempts(x))
    BY DEF LedgerInv, LedgerExact, Attempts
  <2>2. ledger[x].FAILED \in Nat /\ Cardinality(Attempts(x)) \in Nat
    BY <1>1, <1>2 DEF LedgerCounts
  <2>3. CASE ConfirmRow(p)
    BY <1>1, <2>1, <2>2, <2>3 DEF ConfirmRow, Confirmable, LedgerCounts
  <2>4. CASE FailRow(p)
    BY <1>1, <2>1, <2>2, <2>4 DEF FailRow, Failable, LedgerCounts
  <2> QED
    BY <2>3, <2>4
<1> QED
  BY <1>2, <1>3 DEF LedgerInv, LedgerExact, Attempts

\* The steps that write rows: a new attempt, a settlement, and the others that
\* leave rows, references and the ledger as they are.
LEMMA RowSteps ==
    ASSUME TypeOK, [Next]_vars
    PROVE  \/ \E w \in Workers, p \in Purchases, r \in Refs :
                 \/ \E q \in 1..MaxQty : SubmitReserve(w, p, r, q)
                 \/ RetryPayment(w, p, r)
           \/ \E w \in Workers : Settle(w) /\ job[w].found \in Purchases
                                   /\ (ConfirmRow(job[w].found) \/ FailRow(job[w].found))
           \/ UNCHANGED <<status, qty, payRef, issued, ledger, sold, held, late>>
<1> USE DEF vars, rowVars, ticketVars, stockVars, hookVars, envVars
<1>1. ASSUME NEW w \in Workers, Settle(w)
      PROVE  \/ job[w].found \in Purchases /\ (ConfirmRow(job[w].found) \/ FailRow(job[w].found))
             \/ UNCHANGED <<status, qty, payRef, issued, ledger, sold, held, late>>
  <2>1. job[w].found # None => job[w].found \in Purchases
    BY DEF TypeOK, Jobs, JobRecords
  <2> QED
    BY <1>1, <2>1 DEF Settle, RowUntouched
<1>2. ASSUME NEW w \in Workers,
             \/ \E i \in Invites : SubmitRead(w, i)
             \/ SubmitRefused(w)
             \/ CheckoutStarts(w)
             \/ CheckoutFails(w)
             \/ \E k \in Events : HookStart(w, k)
             \/ \E p \in Purchases : ReconcileRead(w, p)
             \/ ReconcileVerify(w)
             \/ Abort(w)
      PROVE  UNCHANGED <<status, qty, payRef, issued, ledger, sold, held, late>>
  BY <1>2 DEF SubmitRead, SubmitRefused, CheckoutStarts, CheckoutFails, HookStart,
              ReconcileRead, ReconcileVerify, Abort
<1>3. ASSUME \/ \E k \in Events : HookDuplicate(k)
             \/ \E p \in Purchases : HoldLapses(p)
             \/ \E n \in Limits : SetLimit(n)
             \/ \E b \in Switches : SetOnSale(b) \/ SetPayout(b)
             \/ \E r \in Refs : PaystackDeclines(r) \/ PaystackCharges(r)
             \/ UNCHANGED vars
      PROVE  UNCHANGED <<status, qty, payRef, issued, ledger, sold, held, late>>
  BY <1>3 DEF HookDuplicate, HoldLapses, SetLimit, SetOnSale, SetPayout, PaystackDeclines,
              PaystackCharges
<1> QED
  BY <1>1, <1>2, <1>3 DEF Next

LEMMA NextLedgerInv == TypeOK /\ LedgerInv /\ [Next]_vars => LedgerInv'
<1> SUFFICES ASSUME TypeOK, LedgerInv, [Next]_vars PROVE LedgerInv'
  OBVIOUS
<1>1. CASE UNCHANGED <<status, qty, payRef, issued, ledger, sold, held, late>>
  BY <1>1 DEF LedgerInv, LedgerExact, Attempts
<1>2. ASSUME NEW w \in Workers, NEW p \in Purchases, NEW r \in Refs,
             (\E q \in 1..MaxQty : SubmitReserve(w, p, r, q)) \/ RetryPayment(w, p, r)
      PROVE  LedgerInv'
  <2>1. (\E q : TakeHold(p, r, q)) /\ status[p] \notin {"PENDING", "PAID"}
    BY <1>2 DEF SubmitReserve, RetryPayment, Retryable
  <2> QED
    BY <2>1, TakeHoldLedger
<1> QED
  BY <1>1, <1>2, RowSteps, SettleLedger

\* The books agree with the rows: through crashes, duplicated and late webhooks
\* and retries, a PAID purchase has exactly one payment and one commission
\* entry, any other has none, and there are no more failures than attempts.
THEOREM LedgerAgrees == Spec => []LedgerExact
<1>1. Init => LedgerInv
  <2> SUFFICES ASSUME Init PROVE LedgerInv
    OBVIOUS
  <2>1. \A p \in Purchases : Attempts(p) = {}
    BY ConstantsAssumption DEF Init, Attempts
  <2>2. \A p \in Purchases : IsFiniteSet(Attempts(p)) /\ Cardinality(Attempts(p)) = 0
    BY <2>1, FS_EmptySet
  <2>3. \A p \in Purchases : /\ ledger[p].SUCCEEDED = 0 /\ ledger[p].COMMISSION = 0 /\ ledger[p].FAILED = 0
                             /\ status[p] = "NONE"
    BY DEF Init
  <2> QED
    BY <2>2, <2>3 DEF LedgerInv, LedgerExact, Attempts
<1>2. TypeOK /\ LedgerInv /\ [Next]_vars => LedgerInv'
  BY NextLedgerInv
<1>3. LedgerInv => LedgerExact
  BY DEF LedgerInv
<1> QED
  BY <1>1, <1>2, <1>3, TypeCorrect, PTL DEF Spec

-----------------------------------------------------------------------------
(* References.                                                             *)

\* The purchase has gone on to another reference.
Superseded(r) == issued[r] # None /\ payRef[issued[r]] # r

\* What a request being served knows of the reference it carries: at a checkout
\* it was issued; once looked up, the row found exists, and a webhook's
\* reference that found none has been superseded.
Knows(w) ==
    /\ job[w].step = "checkout" => job[w].ref \in Refs /\ issued[job[w].ref] # None
    /\ job[w].step = "verify" => job[w].kind = "reconcile"
    /\ job[w].step = "settle" /\ job[w].found # None => status[job[w].found] # "NONE"
    /\ job[w].step = "settle" /\ job[w].kind \in EventNames /\ job[w].found = None => Superseded(job[w].ref)

\* The inductive invariant behind UnclaimedOnlyIfSuperseded: Paystack knows, and
\* tells of, references that were issued only, each for a row that exists.
TraceInv ==
    /\ \A r \in Refs : issued[r] # None => status[issued[r]] # "NONE"
    /\ \A r \in Refs : paystack[r] # "unknown" => issued[r] # None
    /\ \A k \in sent : issued[k[2]] # None
    /\ \A w \in Workers : Knows(w)
    /\ UnclaimedOnlyIfSuperseded

\* What is found by a reference exists; and a reference that was issued and
\* finds nothing has been superseded.
LEMMA Found ==
    ASSUME TypeOK, TraceInv, NEW r
    PROVE  /\ Find(r) # None => status[Find(r)] # "NONE"
           /\ r \in Refs /\ issued[r] # None /\ Find(r) = None => Superseded(r)
<1>1. RowOf(r) # {} => Find(r) \in RowOf(r)
  BY DEF Find
<1>2. Find(r) # None => Find(r) \in RowOf(r)
  BY <1>1 DEF Find
<1>3. Find(r) = None => RowOf(r) = {}
  <2>1. None \notin RowOf(r)
    BY ConstantsAssumption DEF RowOf
  <2> QED
    BY <1>1, <2>1
<1>4. ASSUME r \in Refs, issued[r] # None, RowOf(r) = {}
      PROVE  Superseded(r)
  <2>1. issued[r] \in Purchases /\ status[issued[r]] # "NONE"
    BY <1>4 DEF TypeOK, TraceInv
  <2> QED
    BY <1>4, <2>1 DEF RowOf, Superseded
<1> QED
  BY <1>2, <1>3, <1>4 DEF RowOf

\* Rows that exist go on existing; references stay issued, and superseded ones
\* superseded.
LEMMA RowsLast ==
    ASSUME TypeOK, TraceInv, [Next]_vars
    PROVE  /\ \A p \in Purchases : status[p] # "NONE" => status'[p] # "NONE"
           /\ \A r \in Refs : issued[r] # None => issued'[r] = issued[r]
           /\ \A r \in Refs : Superseded(r) => Superseded(r)'
           /\ \A r \in Refs : issued'[r] # None => status'[issued'[r]] # "NONE"
<1> DEFINE Lasting ==
        /\ \A p \in Purchases : status[p] # "NONE" => status'[p] # "NONE"
        /\ \A r \in Refs : issued[r] # None => issued'[r] = issued[r]
        /\ \A r \in Refs : Superseded(r) => Superseded(r)'
        /\ \A r \in Refs : issued'[r] # None => status'[issued'[r]] # "NONE"
<1>1. CASE UNCHANGED <<status, qty, payRef, issued, ledger, sold, held, late>>
  BY <1>1 DEF TraceInv, Superseded
<1>2. ASSUME NEW p \in Purchases, ConfirmRow(p) \/ FailRow(p)
      PROVE  Lasting
  BY <1>2 DEF ConfirmRow, FailRow, TypeOK, TraceInv, Superseded
<1>3. ASSUME NEW p \in Purchases, NEW r \in Refs, NEW q, TakeHold(p, r, q)
      PROVE  Lasting
  <2>1. /\ issued[r] = None /\ issued' = [issued EXCEPT ![r] = p] /\ payRef' = [payRef EXCEPT ![p] = r]
        /\ \A x \in Purchases : status'[x] = status[x] \/ status'[x] \in {"PENDING", "EXPIRED"}
        /\ status'[p] = "PENDING"
    BY <1>3 DEF TakeHold, Fresh, TypeOK
  <2>2. /\ p # None /\ payRef \in [Purchases -> Refs \cup {None}]
        /\ issued \in [Refs -> Purchases \cup {None}]
    BY ConstantsAssumption DEF TypeOK
  <2>3. \A x \in Refs : issued[x] # None => issued'[x] = issued[x] /\ x # r
    BY <2>1, <2>2
  <2>4. \A x \in Refs : Superseded(x) => Superseded(x)'
    BY <2>1, <2>2, <2>3 DEF Superseded
  <2>5. \A x \in Refs : issued'[x] # None => status'[issued'[x]] # "NONE"
    <3> SUFFICES ASSUME NEW x \in Refs, issued'[x] # None PROVE status'[issued'[x]] # "NONE"
      OBVIOUS
    <3>1. CASE x = r
      BY <2>1, <2>2, <3>1
    <3>2. CASE x # r
      BY <2>1, <2>2, <3>2 DEF TraceInv
    <3> QED
      BY <3>1, <3>2
  <2> QED
    BY <2>1, <2>3, <2>4, <2>5
<1> QED
  BY <1>1, <1>2, <1>3, RowSteps DEF SubmitReserve, RetryPayment

\* What a request knew it still knows.
LEMMA KnowsLasts ==
    ASSUME TypeOK, TraceInv, [Next]_vars, NEW w \in Workers, job'[w] = job[w] \/ job'[w] = Idle
    PROVE  Knows(w)'
<1>1. CASE job'[w] = job[w]
  <2>1. /\ job[w].found \in Purchases \cup {None}
        /\ job[w].kind \in EventNames => job[w].ref \in Refs
    BY DEF TypeOK, Jobs, JobRecords
  <2>2. Knows(w)
    BY DEF TraceInv
  <2>3. /\ job[w].step = "checkout" => job[w].ref \in Refs /\ issued'[job[w].ref] # None
        /\ job[w].step = "settle" /\ job[w].found # None => status'[job[w].found] # "NONE"
    BY <2>1, <2>2, RowsLast DEF Knows
  <2>4. ASSUME job[w].step = "settle", job[w].kind \in EventNames, job[w].found = None
        PROVE  issued'[job[w].ref] # None /\ payRef'[issued'[job[w].ref]] # job[w].ref
    <3>1. PICK r \in Refs : r = job[w].ref /\ Superseded(r)
      BY <2>1, <2>2, <2>4 DEF Knows
    <3>2. Superseded(r)'
      BY <3>1, RowsLast
    <3> QED
      BY <3>1, <3>2 DEF Superseded
  <2> QED
    BY <1>1, <2>2, <2>3, <2>4 DEF Knows, Superseded
<1>2. CASE job'[w] = Idle
  BY <1>2 DEF Knows, Idle
<1> QED
  BY <1>1, <1>2

LEMMA NextJobKnows ==
    ASSUME TypeOK, TraceInv, [Next]_vars, NEW v \in Workers
    PROVE  Knows(v)'
<1>j. job \in [Workers -> Jobs] /\ Knows(v)
  BY DEF TypeOK, TraceInv
<1>1. ASSUME job'[v] = job[v] \/ job'[v] = Idle PROVE Knows(v)'
  BY <1>1, KnowsLasts
<1>2. ASSUME NEW i \in Invites, SubmitRead(v, i) PROVE Knows(v)'
  <2>1. job'[v].step = "reserve"
    BY <1>2, <1>j DEF SubmitRead, Idle
  <2> QED
    BY <2>1 DEF Knows
<1>3. ASSUME NEW p \in Purchases, NEW r \in Refs, NEW q \in 1..MaxQty, SubmitReserve(v, p, r, q)
      PROVE  Knows(v)'
  <2>1. job'[v].step = "checkout" /\ job'[v].ref = r
    BY <1>3, <1>j DEF SubmitReserve, Jobs, JobRecords
  <2>2. issued'[r] # None
    BY <1>3, ConstantsAssumption DEF SubmitReserve, TakeHold, TypeOK
  <2> QED
    BY <2>1, <2>2 DEF Knows
<1>4. ASSUME NEW p \in Purchases, NEW r \in Refs, RetryPayment(v, p, r)
      PROVE  Knows(v)'
  <2>1. job'[v].step = "checkout" /\ job'[v].ref = r
    BY <1>4, <1>j DEF RetryPayment, Idle
  <2>2. issued'[r] # None
    BY <1>4, ConstantsAssumption DEF RetryPayment, TakeHold, TypeOK
  <2> QED
    BY <2>1, <2>2 DEF Knows
<1>5. ASSUME NEW k \in Events, HookStart(v, k)
      PROVE  Knows(v)'
  <2>1. k[2] \in Refs /\ issued[k[2]] # None
    BY <1>5 DEF HookStart, Events, TraceInv
  <2>2. /\ job'[v].step = "settle" /\ job'[v].ref = k[2] /\ job'[v].found = Find(k[2])
        /\ UNCHANGED <<status, issued, payRef>>
    BY <1>5, <1>j DEF HookStart, Idle, rowVars
  <2>3. /\ Find(k[2]) # None => status[Find(k[2])] # "NONE"
        /\ Find(k[2]) = None => Superseded(k[2])
    BY <2>1, Found
  <2> QED
    BY <2>2, <2>3 DEF Knows, Superseded
<1>6. ASSUME CheckoutFails(v) \/ ReconcileVerify(v) \/ \E p \in Purchases : ReconcileRead(v, p)
      PROVE  Knows(v)'
  <2>1. UNCHANGED <<status, issued, payRef>>
    BY <1>6 DEF CheckoutFails, ReconcileVerify, ReconcileRead, rowVars
  <2>2. CASE CheckoutFails(v)
    <3>1. job'[v].step = "settle" /\ job'[v].kind = "checkoutFailed" /\ job'[v].found = Find(job[v].ref)
      BY <1>j, <2>2 DEF CheckoutFails, Jobs, JobRecords
    <3> QED
      BY <2>1, <3>1, Found DEF Knows, EventNames
  <2>3. CASE ReconcileVerify(v) /\ job'[v] # Idle
    <3>1. job'[v].step = "settle" /\ job'[v].kind = job[v].kind /\ job'[v].found = Find(job[v].ref)
          /\ job'[v].ref = job[v].ref
      BY <1>j, <2>3 DEF ReconcileVerify, Jobs, JobRecords
    <3>2. job[v].kind \notin EventNames
      BY <1>j, <2>3 DEF Knows, ReconcileVerify, EventNames
    <3> QED
      BY <2>1, <3>1, <3>2, Found DEF Knows
  <2>4. CASE \E p \in Purchases : ReconcileRead(v, p)
    <3>1. job'[v].step = "verify" /\ job'[v].kind = "reconcile"
      BY <1>j, <2>4 DEF ReconcileRead, Idle
    <3> QED
      BY <3>1 DEF Knows
  <2> QED
    BY <1>1, <1>6, <2>2, <2>3, <2>4
<1>7. \/ job'[v] = job[v] \/ job'[v] = Idle
      \/ \E i \in Invites : SubmitRead(v, i)
      \/ \E p \in Purchases, r \in Refs :
            (\E q \in 1..MaxQty : SubmitReserve(v, p, r, q)) \/ RetryPayment(v, p, r)
      \/ \E k \in Events : HookStart(v, k)
      \/ CheckoutFails(v) \/ ReconcileVerify(v) \/ \E p \in Purchases : ReconcileRead(v, p)
  <2>1. ASSUME NEW w \in Workers,
               \/ SubmitRefused(w) \/ CheckoutStarts(w) \/ Settle(w) \/ Abort(w)
        PROVE  job'[v] = job[v] \/ job'[v] = Idle
    BY <1>j, <2>1 DEF SubmitRefused, CheckoutStarts, Settle, Abort
  <2>2. ASSUME NEW w \in Workers, w # v,
               \/ \E i \in Invites : SubmitRead(w, i)
               \/ \E p \in Purchases, r \in Refs :
                     (\E q \in 1..MaxQty : SubmitReserve(w, p, r, q)) \/ RetryPayment(w, p, r)
               \/ \E k \in Events : HookStart(w, k)
               \/ CheckoutFails(w) \/ ReconcileVerify(w) \/ \E p \in Purchases : ReconcileRead(w, p)
        PROVE  job'[v] = job[v]
    BY <1>j, <2>2 DEF SubmitRead, SubmitReserve, RetryPayment, HookStart, CheckoutFails, ReconcileVerify,
                      ReconcileRead
  <2>3. ASSUME \/ \E k \in Events : HookDuplicate(k)
               \/ \E p \in Purchases : HoldLapses(p)
               \/ \E n \in Limits : SetLimit(n)
               \/ \E b \in Switches : SetOnSale(b) \/ SetPayout(b)
               \/ \E r \in Refs : PaystackDeclines(r) \/ PaystackCharges(r)
               \/ UNCHANGED vars
        PROVE  job'[v] = job[v]
    BY <2>3 DEF vars, HookDuplicate, HoldLapses, SetLimit, SetOnSale, SetPayout, PaystackDeclines,
                PaystackCharges
  <2> QED
    BY <2>1, <2>2, <2>3 DEF Next
<1> QED
  BY <1>1, <1>2, <1>3, <1>4, <1>5, <1>6, <1>7

\* What Paystack knows, and tells of, was issued.
LEMMA NextTold ==
    ASSUME TypeOK, TraceInv, [Next]_vars
    PROVE  /\ \A r \in Refs : paystack'[r] # "unknown" => issued'[r] # None
           /\ \A k \in sent' : issued'[k[2]] # None
<1> USE DEF vars, rowVars, ticketVars, stockVars, hookVars, envVars
<1>1. \A r \in Refs : issued[r] # None => issued'[r] # None
  BY RowsLast
<1>2. \A k \in Events : k[2] \in Refs
  BY DEF Events
<1>3. sent \subseteq Events /\ paystack \in [Refs -> {"unknown", "open", "charged"}]
  BY DEF TypeOK
<1>4. CASE UNCHANGED envVars
  BY <1>1, <1>2, <1>3, <1>4 DEF TraceInv
<1>5. ASSUME NEW w \in Workers, CheckoutStarts(w)
      PROVE  /\ \A r \in Refs : paystack'[r] # "unknown" => issued'[r] # None
             /\ \A k \in sent' : issued'[k[2]] # None
  <2>1. job[w].ref \in Refs /\ issued[job[w].ref] # None
    BY <1>5 DEF CheckoutStarts, TraceInv, Knows
  <2> QED
    BY <1>1, <1>2, <1>3, <1>5, <2>1 DEF CheckoutStarts, TraceInv
<1>6. ASSUME NEW r \in Refs, PaystackDeclines(r) \/ PaystackCharges(r)
      PROVE  /\ \A x \in Refs : paystack'[x] # "unknown" => issued'[x] # None
             /\ \A k \in sent' : issued'[k[2]] # None
  <2>1. issued[r] # None /\ \A x \in Refs : paystack'[x] # "unknown" => paystack[x] # "unknown"
    BY <1>3, <1>6 DEF PaystackDeclines, PaystackCharges, TraceInv
  <2>2. \A k \in sent' : k \in sent \/ k[2] = r
    BY <1>6 DEF PaystackDeclines, PaystackCharges
  <2> QED
    BY <1>1, <1>2, <1>3, <2>1, <2>2 DEF TraceInv
<1> QED
  BY <1>4, <1>5, <1>6
     DEF Next, SubmitRead, SubmitReserve, SubmitRefused, RetryPayment, CheckoutFails, HookStart, HookDuplicate,
         ReconcileRead, ReconcileVerify, Settle, Abort, HoldLapses, SetLimit, SetOnSale, SetPayout

\* What goes unclaimed has been superseded.
LEMMA NextUnclaimed ==
    ASSUME TypeOK, TraceInv, [Next]_vars
    PROVE  UnclaimedOnlyIfSuperseded'
<1> USE DEF vars, rowVars, ticketVars, stockVars, hookVars, envVars
<1>1. \A k \in Events : k \in unhandled => Superseded(k[2])'
  BY RowsLast DEF TraceInv, UnclaimedOnlyIfSuperseded, Superseded, Events
<1>2. ASSUME NEW w \in Workers, Settle(w)
      PROVE  \A k \in Events : k \in unhandled' => Superseded(k[2])'
  <2>1. \/ unhandled' = unhandled
        \/ /\ job[w].kind \in EventNames /\ job[w].found = None /\ job[w].step = "settle"
           /\ unhandled' = unhandled \cup {<<job[w].kind, job[w].ref>>}
    BY <1>2 DEF Settle
  <2>2. CASE unhandled' = unhandled
    BY <1>1, <2>2
  <2>3. CASE /\ job[w].kind \in EventNames /\ job[w].found = None /\ job[w].step = "settle"
             /\ unhandled' = unhandled \cup {<<job[w].kind, job[w].ref>>}
    <3>1. PICK r \in Refs : r = job[w].ref /\ Superseded(r)
      BY <2>3 DEF TraceInv, Knows, TypeOK, Jobs
    <3>2. Superseded(r)'
      BY <3>1, RowsLast
    <3> QED
      BY <1>1, <2>3, <3>1, <3>2 DEF Events
  <2> QED
    BY <2>1, <2>2, <2>3
<1>3. CASE unhandled' = unhandled
  BY <1>1, <1>3 DEF UnclaimedOnlyIfSuperseded, Superseded
<1> QED
  BY <1>2, <1>3
     DEF Next, SubmitRead, SubmitReserve, SubmitRefused, RetryPayment, CheckoutStarts, CheckoutFails,
         HookStart, HookDuplicate, ReconcileRead, ReconcileVerify, Abort, HoldLapses, SetLimit, SetOnSale,
         SetPayout, PaystackDeclines, PaystackCharges, UnclaimedOnlyIfSuperseded, Superseded

LEMMA NextTraceInv == TypeOK /\ TraceInv /\ [Next]_vars => TraceInv'
<1> SUFFICES ASSUME TypeOK, TraceInv, [Next]_vars PROVE TraceInv'
  OBVIOUS
<1>1. \A w \in Workers : Knows(w)'
  BY NextJobKnows
<1>2. \A r \in Refs : issued'[r] # None => status'[issued'[r]] # "NONE"
  BY RowsLast
<1> QED
  BY <1>1, <1>2, NextTold, NextUnclaimed DEF TraceInv, Knows, Superseded

LEMMA TraceInvariant == Spec => []TraceInv
<1>1. Init => TraceInv
  BY DEF Init, TraceInv, Knows, Idle, UnclaimedOnlyIfSuperseded
<1>2. TypeOK /\ TraceInv /\ [Next]_vars => TraceInv'
  BY NextTraceInv
<1> QED
  BY <1>1, <1>2, TypeCorrect, PTL DEF Spec

\* A webhook whose reference ticketing issued finds its purchase, late, early,
\* twice or after a crash: it goes unclaimed only if a retry has put another
\* reference on that purchase.
THEOREM UnclaimedIsSuperseded == Spec => []UnclaimedOnlyIfSuperseded
<1>1. TraceInv => UnclaimedOnlyIfSuperseded
  BY DEF TraceInv
<1> QED
  BY <1>1, TraceInvariant, PTL

-----------------------------------------------------------------------------
(* TicketPurchase implements TicketStock.                                  *)

\* A purchase is of one ticket at least.
SomeTickets == \A p \in Purchases : status[p] # "NONE" => qty[p] \in 1..MaxQty

\* The rows change in three ways only: a purchase that is neither held nor paid
\* takes a hold, one that is not paid is confirmed, one that is held fails.
LEMMA ThreeWays ==
    ASSUME TypeOK, TraceInv, SomeTickets, [Next]_vars
    PROVE  \/ \E p \in Purchases, r \in Refs, q \in 1..MaxQty :
                 TakeHold(p, r, q) /\ status[p] \notin {"PENDING", "PAID"} /\ UNCHANGED <<limit, peak, onSale, payout>>
           \/ \E p \in Purchases :
                 (ConfirmRow(p) \/ FailRow(p)) /\ status[p] # "NONE" /\ UNCHANGED <<limit, peak, onSale, payout>>
           \/ UNCHANGED <<status, qty, late>>
<1>1. ASSUME NEW w \in Workers, NEW p \in Purchases, NEW r \in Refs, NEW q \in 1..MaxQty,
             SubmitReserve(w, p, r, q)
      PROVE  TakeHold(p, r, q) /\ status[p] \notin {"PENDING", "PAID"} /\ UNCHANGED <<limit, peak, onSale, payout>>
  BY <1>1 DEF SubmitReserve, ticketVars
<1>2. ASSUME NEW w \in Workers, NEW p \in Purchases, NEW r \in Refs, RetryPayment(w, p, r)
      PROVE  /\ TakeHold(p, r, qty[p]) /\ status[p] \notin {"PENDING", "PAID"} /\ qty[p] \in 1..MaxQty
             /\ UNCHANGED <<limit, peak, onSale, payout>>
  BY <1>2 DEF RetryPayment, Retryable, SomeTickets, ticketVars
<1>3. ASSUME NEW w \in Workers, Settle(w), job[w].found \in Purchases
      PROVE  status[job[w].found] # "NONE" /\ UNCHANGED <<limit, peak, onSale, payout>>
  <2>1. job[w].found # None
    BY <1>3, ConstantsAssumption
  <2> QED
    BY <1>3, <2>1 DEF Settle, TraceInv, Knows, ticketVars
<1> QED
  BY <1>1, <1>2, <1>3, RowSteps

LEMMA NextSomeTickets ==
    ASSUME TypeOK, TraceInv, SomeTickets, [Next]_vars
    PROVE  SomeTickets'
<1>1. ASSUME NEW p \in Purchases, NEW r \in Refs, NEW q \in 1..MaxQty, TakeHold(p, r, q)
      PROVE  SomeTickets'
  BY <1>1 DEF TakeHold, TypeOK, SomeTickets, Lapsed
<1>2. ASSUME NEW p \in Purchases, status[p] # "NONE", ConfirmRow(p) \/ FailRow(p)
      PROVE  SomeTickets'
  BY <1>2 DEF ConfirmRow, FailRow, TypeOK, SomeTickets
<1>3. CASE UNCHANGED <<status, qty, late>>
  BY <1>3 DEF SomeTickets
<1> QED
  BY <1>1, <1>2, <1>3, ThreeWays

\* What is held and paid of the abstract stock, by the rows and their tickets.
phases == [p \in Purchases |-> Phase(status[p])]

LEMMA PhaseIs ==
    ASSUME TypeOK
    PROVE  \A p \in Purchases :
              /\ phases[p] = "none" <=> status[p] = "NONE"
              /\ phases[p] = "held" <=> status[p] = "PENDING"
              /\ phases[p] = "paid" <=> status[p] = "PAID"
              /\ phases[p] = "released" <=> status[p] \in {"FAILED", "EXPIRED"}
BY DEF TypeOK, Statuses, phases, Phase

\* Both count the tickets of a set of purchases alike.
LEMMA SameTickets == ASSUME NEW S, NEW f PROVE Stock!Tickets(S, f) = Cardinality(Units(S, f))
BY Zenon DEF Stock!Tickets, Units, Stock!Cardinality, Cardinality

\* Sweeping and taking a hold is a Hold of the abstract stock.
LEMMA TakeHoldIsHold ==
    ASSUME StockInv, NEW p \in Purchases, NEW r \in Refs, NEW q \in 1..MaxQty, TakeHold(p, r, q),
           status[p] \notin {"PENDING", "PAID"}, UNCHANGED <<limit, peak, onSale, payout>>
    PROVE  Lapsed \in SUBSET Stock!In("held") /\ Stock!Hold(p, q, Lapsed)
<1> DEFINE P == WithStatus("PENDING")
           D == WithStatus("PAID")
<1>t. TypeOK
  BY DEF StockInv
<1>1. Stock!In("held") = P /\ Stock!In("paid") = D
  BY <1>t, PhaseIs DEF Stock!In, WithStatus, phases
<1>2. Lapsed \in SUBSET P
  BY DEF Lapsed, WithStatus
<1>3. Stock!Room(Lapsed, q)
  <2>1. /\ P \in SUBSET Purchases /\ D \in SUBSET Purchases /\ (P \ Lapsed) \in SUBSET Purchases
        /\ (P \ Lapsed) \cap D = {} /\ Lapsed \in SUBSET Purchases
    BY DEF WithStatus, Lapsed
  <2>2. Cardinality(Units((P \ Lapsed) \cup D, qty))
           = Cardinality(Units(P \ Lapsed, qty)) + Cardinality(Units(D, qty))
    <3> HIDE DEF P, D
    <3> QED
      BY <2>1, UnitsUnion
  <2>3. Cardinality(Units(P \ Lapsed, qty)) = Cardinality(Units(P, qty)) - Cardinality(Units(Lapsed, qty))
    BY <1>2, <2>1, UnitsMinus, Zenon
  <2>4. held = Cardinality(Units(P, qty)) /\ sold = Cardinality(Units(D, qty))
    BY DEF StockInv, HeldExact, SoldExact, UnitsOf
  <2>5. sold + held - Cardinality(Units(Lapsed, qty)) + q <= limit
    BY DEF TakeHold, HasRoom, UnitsOf
  <2>6. /\ Cardinality(Units(P, qty)) \in Nat /\ Cardinality(Units(D, qty)) \in Nat
        /\ Cardinality(Units(Lapsed, qty)) \in Nat /\ limit \in Nat
    BY <2>1, UnitsFinite, ConstantsAssumption DEF StockInv, TypeOK
  <2>7. Cardinality(Units((P \ Lapsed) \cup D, qty)) + q <= limit
    BY <2>2, <2>3, <2>4, <2>5, <2>6
  <2>8. Stock!Tickets((P \ Lapsed) \cup D, qty) = Cardinality(Units((P \ Lapsed) \cup D, qty))
    BY SameTickets, Zenon
  <2> QED
    BY <1>1, <2>7, <2>8 DEF Stock!Room, Stock!Committed
<1>4. phases[p] \in {"none", "released"}
  BY <1>t, PhaseIs DEF StockInv, TypeOK, Statuses
<1>5. phases' = [x \in Purchases |-> IF x = p THEN "held" ELSE IF x \in Lapsed THEN "released" ELSE phases[x]]
  BY DEF phases, Phase, TakeHold
<1>6. onSale /\ payout /\ qty' = [qty EXCEPT ![p] = q] /\ late' = late
  BY DEF TakeHold
<1> QED
  BY <1>1, <1>2, <1>3, <1>4, <1>5, <1>6 DEF Stock!Hold, phases

\* Confirming a row is a Pay, failing one a Release.
LEMMA SettleIsPayOrRelease ==
    ASSUME TypeOK, NEW p \in Purchases, status[p] # "NONE", UNCHANGED <<limit, peak, onSale, payout>>
    PROVE  /\ ConfirmRow(p) => Stock!Pay(p)
           /\ FailRow(p) => Stock!Release(p)
<1>1. ASSUME ConfirmRow(p) PROVE Stock!Pay(p)
  <2>1. phases[p] \in {"held", "released"}
    BY <1>1, PhaseIs DEF ConfirmRow, Confirmable, TypeOK, Statuses
  <2>2. phases' = [phases EXCEPT ![p] = "paid"]
    BY <1>1 DEF ConfirmRow, phases, Phase, TypeOK
  <2>3. late' = IF phases[p] = "held" THEN late ELSE late \cup {p}
    BY <1>1, PhaseIs DEF ConfirmRow
  <2> QED
    BY <1>1, <2>1, <2>2, <2>3 DEF Stock!Pay, phases, ConfirmRow
<1>2. ASSUME FailRow(p) PROVE Stock!Release(p)
  <2>1. phases[p] = "held"
    BY <1>2, PhaseIs DEF FailRow, Failable
  <2>2. phases' = [phases EXCEPT ![p] = "released"]
    BY <1>2 DEF FailRow, phases, Phase, TypeOK
  <2> QED
    BY <1>2, <2>1, <2>2 DEF Stock!Release, phases, FailRow
<1> QED
  BY <1>1, <1>2

\* The organiser's switches and limit are the abstract ones; the rest is a
\* stutter.
LEMMA WorldIsWorld ==
    ASSUME TypeOK, [Next]_vars, UNCHANGED <<status, qty, late>>
    PROVE  [Stock!Next]_(Stock!vars)
<1>1. phases' = phases
  BY DEF phases
<1>2. ASSUME NEW n \in Limits, SetLimit(n) PROVE Stock!Next
  <2>1. Stock!SetLimit(n)
    BY <1>1, <1>2 DEF SetLimit, Stock!SetLimit, phases, rowVars, stockVars
  <2> QED
    BY <2>1 DEF Stock!Next
<1>3. ASSUME UNCHANGED <<limit, peak>> PROVE Stock!SetOpen((onSale /\ payout)')
  BY <1>1, <1>3, Zenon DEF Stock!SetOpen, phases
<1>4. (\E n \in Limits : SetLimit(n)) \/ UNCHANGED <<limit, peak>>
  BY DEF Next, vars, ticketVars, SubmitRead, SubmitReserve, SubmitRefused, RetryPayment, CheckoutStarts,
         CheckoutFails, HookStart, HookDuplicate, ReconcileRead, ReconcileVerify, Settle, Abort, HoldLapses,
         SetOnSale, SetPayout, PaystackDeclines, PaystackCharges
<1>5. (onSale /\ payout)' \in BOOLEAN
  BY Zenon
<1> QED
  BY <1>2, <1>3, <1>4, <1>5, Zenon DEF Stock!Next

LEMMA StockStep ==
    ASSUME StockInv, TraceInv, SomeTickets, [Next]_vars
    PROVE  [Stock!Next]_(Stock!vars)
<1>t. TypeOK
  BY DEF StockInv
<1>1. ASSUME NEW p \in Purchases, NEW r \in Refs, NEW q \in 1..MaxQty, TakeHold(p, r, q),
             status[p] \notin {"PENDING", "PAID"}, UNCHANGED <<limit, peak, onSale, payout>>
      PROVE  Stock!Next
  BY <1>1, TakeHoldIsHold DEF Stock!Next
<1>2. ASSUME NEW p \in Purchases, ConfirmRow(p) \/ FailRow(p), status[p] # "NONE",
             UNCHANGED <<limit, peak, onSale, payout>>
      PROVE  Stock!Next
  BY <1>t, <1>2, SettleIsPayOrRelease DEF Stock!Next
<1>3. CASE UNCHANGED <<status, qty, late>>
  BY <1>t, <1>3, WorldIsWorld
<1> QED
  BY <1>t, <1>1, <1>2, <1>3, ThreeWays

LEMMA StockInit == Init => Stock!Init
<1> SUFFICES ASSUME Init PROVE Stock!Init
  OBVIOUS
<1>1. [p \in Purchases |-> Phase(status[p])] = [p \in Purchases |-> "none"]
  BY DEF Init, Phase
<1>2. onSale /\ payout
  BY DEF Init
<1> QED
  BY <1>1, <1>2 DEF Init, Stock!Init

\* With counters, references, row locks, a lazy sweep, retries and webhooks, the
\* tickets behave as TicketStock says: every hold found room among all that is
\* really held and paid, once the lapsed holds were given back; a hold is given
\* back once, a payment taken once, and never taken back.
THEOREM ImplementsTicketStock == Spec => StockSpec
<1>1. Init => Stock!Init
  BY StockInit
<1>2. Init => SomeTickets
  BY DEF Init, SomeTickets
<1>3. TypeOK /\ TraceInv /\ SomeTickets /\ [Next]_vars => SomeTickets'
  BY NextSomeTickets
<1>4. StockInv /\ TraceInv /\ SomeTickets /\ [Next]_vars => [Stock!Next]_(Stock!vars)
  BY StockStep
<1> QED
  BY <1>1, <1>2, <1>3, <1>4, TypeCorrect, StockInvariant, TraceInvariant, PTL DEF Spec, StockSpec, Stock!Spec
=============================================================================
