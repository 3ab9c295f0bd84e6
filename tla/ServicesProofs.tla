---------------------------- MODULE ServicesProofs ----------------------------
(***************************************************************************)
(* Theorems about EventPass, MemoryHub, SignIn and Team, for every number  *)
(* of purchases, files, codes, devices, members and requests; and, with    *)
(* those of LettersProofs and OutreachProofs, one about all the services.  *)
(***************************************************************************)
EXTENDS Services, LettersProofs, OutreachProofs
-----------------------------------------------------------------------------
(* EventPass: types.                                                       *)

Statuses == {"none", "PENDING", "PAID", "FAILED"}
Pages == {"none", "refused", "open", "charged"}
BuyRows ==
    [status : Statuses, tier : 0..TopPass, saw : (0..TopPass) \X BOOLEAN,
     page : Pages, declined : BOOLEAN, doubted : BOOLEAN, succeeded : Nat]
Tills == [op : {"none", "CONFIRM", "FAIL"}, of : 0..MaxBuys]

\* What a transaction has read is a purchase that was made, and to confirm one
\* it has been charged for.
AtTill ==
    \A c \in Cashiers :
        \/ till[c] = Closed
        \/ /\ till[c].op \in {"CONFIRM", "FAIL"} /\ till[c].of \in Buys
           /\ buy[till[c].of].status # "none"
           /\ till[c].op = "CONFIRM" => buy[till[c].of].page = "charged"

Types ==
    /\ pass \in 0..TopPass /\ over \in BOOLEAN /\ lowered \in BOOLEAN /\ together \subseteq Buys
    /\ buy \in [Buys -> BuyRows] /\ till \in [Cashiers -> Tills]
    /\ AtTill

LEMMA Basics ==
    /\ MaxBuys \in Nat /\ TopPass \in Nat /\ Bundle = 0 /\ Bundle \in 0..TopPass
    /\ \A b \in Buys : b \in 1..MaxBuys /\ b \in 0..MaxBuys /\ b # 0
    /\ Closed \in Tills /\ Closed.op = "none" /\ Closed.of = 0
    /\ NoBuy \in BuyRows /\ NoBuy.status = "none" /\ NoBuy.succeeded = 0
<1>1. MaxBuys \in Nat /\ TopPass \in Nat /\ Bundle = 0 /\ Bundle \in 0..TopPass
  BY EventPassAssumption DEF Bundle
<1>2. \A b \in Buys : b \in 1..MaxBuys /\ b \in 0..MaxBuys /\ b # 0
  BY <1>1 DEF Buys
<1>3. Closed \in Tills /\ Closed.op = "none" /\ Closed.of = 0
  BY <1>1 DEF Closed, Till, Tills
<1>4. NoBuy.status = "none" /\ NoBuy.succeeded = 0
  BY DEF NoBuy
<1>5. FALSE \in BOOLEAN /\ 0 \in Nat /\ 0 \in 0..TopPass
  BY <1>1
<1>6. <<0, FALSE>> \in (0..TopPass) \X BOOLEAN
  BY <1>5, Zenon
<1>7. NoBuy \in BuyRows
  BY <1>1, <1>5, <1>6, Zenon DEF NoBuy, BuyRows, Statuses, Pages
<1> QED
  BY <1>1, <1>2, <1>3, <1>4, <1>7

\* A row is sold as a pending purchase that has not been paid for.
LEMMA SoldRow ==
    ASSUME Types, NEW b \in Buys, NEW tier \in 0..TopPass, Sells(b, tier)
    PROVE  /\ buy' \in [Buys -> BuyRows] /\ buy[b].status = "none"
           /\ buy'[b].status = "PENDING" /\ buy'[b].tier = tier /\ buy'[b].succeeded = 0
           /\ buy'[b].saw = <<pass, over>>
           /\ \A d \in Buys \ {b} : buy'[d] = buy[d]
           /\ UNCHANGED <<pass, over, till, together, lowered>>
BY DEF Sells, Types, NoBuy, BuyRows, Statuses, Pages, Bundle

\* A row with another status, page, or mark on it.
Amended(row, status, page, declined, doubted) ==
    [status |-> status, tier |-> row.tier, saw |-> row.saw, page |-> page,
     declined |-> declined, doubted |-> doubted, succeeded |-> row.succeeded]

LEMMA PagePut ==
    ASSUME NEW r \in BuyRows, NEW p \in Pages, NEW d \in BOOLEAN
    PROVE  [r EXCEPT !.page=p, !.doubted=d] = Amended(r, r.status, p, r.declined, d)
<1> DEFINE q == [r EXCEPT !.page = p]
<1>1. q \in BuyRows /\ q = Amended(r, r.status, p, r.declined, r.doubted)
  BY DEF BuyRows, Amended, Statuses, Pages
<1>2. [q EXCEPT !.doubted = d] = Amended(q, q.status, q.page, q.declined, d)
  <2> HIDE DEF q
  <2> QED
    BY <1>1 DEF BuyRows, Amended
<1>3. Amended(q, q.status, q.page, q.declined, d) = Amended(r, r.status, p, r.declined, d)
  BY <1>1 DEF Amended
<1> QED
  BY <1>2, <1>3, Zenon

LEMMA StatusPut ==
    ASSUME NEW r \in BuyRows, NEW st \in Statuses, NEW d \in BOOLEAN
    PROVE  [r EXCEPT !.doubted=d, !.status = st] = Amended(r, st, r.page, r.declined, d)
<1> DEFINE q == [r EXCEPT !.doubted = d]
<1>1. q \in BuyRows /\ q = Amended(r, r.status, r.page, r.declined, d)
  BY DEF BuyRows, Amended, Statuses, Pages
<1>2. [q EXCEPT !.status = st] = Amended(q, st, q.page, q.declined, q.doubted)
  <2> HIDE DEF q
  <2> QED
    BY <1>1 DEF BuyRows, Amended
<1>3. Amended(q, st, q.page, q.declined, q.doubted) = Amended(r, st, r.page, r.declined, d)
  BY <1>1 DEF Amended
<1> QED
  BY <1>2, <1>3, Zenon

\* What the row of a purchase becomes when one or two of its fields are set.
LEMMA RowPut ==
    ASSUME buy \in [Buys -> BuyRows], NEW b \in Buys
    PROVE  /\ \A p \in Pages : [buy EXCEPT ![b].page = p]
                    = [buy EXCEPT ![b] = Amended(buy[b], buy[b].status, p, buy[b].declined, buy[b].doubted)]
           /\ \A p \in Pages, d \in BOOLEAN : [buy EXCEPT ![b].page = p, ![b].doubted = d]
                    = [buy EXCEPT ![b] = Amended(buy[b], buy[b].status, p, buy[b].declined, d)]
           /\ \A st \in Statuses, d \in BOOLEAN : [buy EXCEPT ![b].doubted = d, ![b].status = st]
                    = [buy EXCEPT ![b] = Amended(buy[b], st, buy[b].page, buy[b].declined, d)]
           /\ \A d \in BOOLEAN : [buy EXCEPT ![b].declined = d]
                    = [buy EXCEPT ![b] = Amended(buy[b], buy[b].status, buy[b].page, d, buy[b].doubted)]
<1>1. ASSUME NEW p \in Pages
      PROVE  [buy EXCEPT ![b].page = p]
                = [buy EXCEPT ![b] = Amended(buy[b], buy[b].status, p, buy[b].declined, buy[b].doubted)]
  <2>1. [buy EXCEPT ![b].page = p] = [buy EXCEPT ![b] = [buy[b] EXCEPT !.page = p]]
    OBVIOUS
  <2>2. [buy[b] EXCEPT !.page = p] = Amended(buy[b], buy[b].status, p, buy[b].declined, buy[b].doubted)
    BY buy[b] \in BuyRows DEF BuyRows, Amended
  <2> QED
    BY <2>1, <2>2, Zenon
<1>2. ASSUME NEW p \in Pages, NEW d \in BOOLEAN
      PROVE  [buy EXCEPT ![b].page = p, ![b].doubted = d]
                = [buy EXCEPT ![b] = Amended(buy[b], buy[b].status, p, buy[b].declined, d)]
  <2>1. [buy EXCEPT ![b].page = p, ![b].doubted = d] = [buy EXCEPT ![b] = [buy[b] EXCEPT !.page = p, !.doubted = d]]
    OBVIOUS
  <2>2. [buy[b] EXCEPT !.page = p, !.doubted = d] = Amended(buy[b], buy[b].status, p, buy[b].declined, d)
    BY buy[b] \in BuyRows, PagePut, Zenon
  <2> QED
    BY <2>1, <2>2, Zenon
<1>3. ASSUME NEW st \in Statuses, NEW d \in BOOLEAN
      PROVE  [buy EXCEPT ![b].doubted = d, ![b].status = st]
                = [buy EXCEPT ![b] = Amended(buy[b], st, buy[b].page, buy[b].declined, d)]
  <2>1. [buy EXCEPT ![b].doubted = d, ![b].status = st] = [buy EXCEPT ![b] = [buy[b] EXCEPT !.doubted = d, !.status = st]]
    OBVIOUS
  <2>2. [buy[b] EXCEPT !.doubted = d, !.status = st] = Amended(buy[b], st, buy[b].page, buy[b].declined, d)
    BY buy[b] \in BuyRows, StatusPut, Zenon
  <2> QED
    BY <2>1, <2>2, Zenon
<1>4. ASSUME NEW d \in BOOLEAN
      PROVE  [buy EXCEPT ![b].declined = d]
                = [buy EXCEPT ![b] = Amended(buy[b], buy[b].status, buy[b].page, d, buy[b].doubted)]
  <2>1. [buy EXCEPT ![b].declined = d] = [buy EXCEPT ![b] = [buy[b] EXCEPT !.declined = d]]
    OBVIOUS
  <2>2. [buy[b] EXCEPT !.declined = d] = Amended(buy[b], buy[b].status, buy[b].page, d, buy[b].doubted)
    BY buy[b] \in BuyRows DEF BuyRows, Amended
  <2> QED
    BY <2>1, <2>2, Zenon
<1> QED
  BY <1>1, <1>2, <1>3, <1>4, Zenon

\* Opening a page, giving one up and charging it leave everything else alone.
LEMMA OnePage ==
    ASSUME Types, NEW b \in Buys, Initialize(b) \/ MarkFailed(b) \/ Charge(b)
    PROVE  /\ buy' \in [Buys -> BuyRows] /\ UNCHANGED <<pass, over, till, together, lowered>>
           /\ \A d \in Buys :
                 /\ buy'[d].tier = buy[d].tier /\ buy'[d].saw = buy[d].saw
                 /\ buy'[d].succeeded = buy[d].succeeded
                 /\ buy[d].page = "charged" => buy'[d].page = "charged"
                 /\ \/ buy'[d].status = buy[d].status
                    \/ buy[d].status = "PENDING" /\ buy'[d].status = "FAILED"
<1>t. /\ TRUE \in BOOLEAN /\ FALSE \in BOOLEAN /\ {"open", "refused", "charged"} \subseteq Pages
      /\ (IF buy[b].status = "PENDING" THEN "FAILED" ELSE buy[b].status) \in Statuses
  BY DEF Types, BuyRows, Statuses, Pages
<1>1. buy[b] \in BuyRows
  BY DEF Types
<1>2. \A p \in Pages, a \in BOOLEAN, d \in BOOLEAN,
         st \in Statuses :
         LET r == Amended(buy[b], st, p, a, d)
         IN  /\ r \in BuyRows /\ r.page = p /\ r.status = st
             /\ r.tier = buy[b].tier /\ r.saw = buy[b].saw /\ r.succeeded = buy[b].succeeded
  BY <1>1 DEF Amended, BuyRows, Statuses, Pages
<1>3. \E p \in Pages, a \in BOOLEAN, d \in BOOLEAN,
         st \in Statuses :
         /\ buy' = [buy EXCEPT ![b] = Amended(buy[b], st, p, a, d)]
         /\ buy[b].page = "charged" => p = "charged"
         /\ st = buy[b].status \/ (buy[b].status = "PENDING" /\ st = "FAILED")
  <2>1. CASE Initialize(b)
    <3>1. \/ buy' = [buy EXCEPT ![b] = Amended(buy[b], buy[b].status, "open", buy[b].declined, buy[b].doubted)]
          \/ buy' = [buy EXCEPT ![b] = Amended(buy[b], buy[b].status, "open", buy[b].declined, TRUE)]
          \/ buy' = [buy EXCEPT ![b] = Amended(buy[b], buy[b].status, "refused", buy[b].declined, TRUE)]
      BY <1>t, <2>1, RowPut, Zenon DEF Initialize, Types
    <3> QED
      BY <1>1, <2>1, <3>1 DEF Initialize, BuyRows, Statuses, Pages
  <2>2. CASE MarkFailed(b)
    <3> DEFINE st == IF buy[b].status = "PENDING" THEN "FAILED" ELSE buy[b].status
    <3>1. buy' = [buy EXCEPT ![b] = Amended(buy[b], st, buy[b].page, buy[b].declined, FALSE)]
      BY <1>t, <2>2, RowPut, Zenon DEF MarkFailed, Types
    <3> QED
      BY <1>1, <3>1 DEF BuyRows, Statuses, Pages
  <2>3. CASE Charge(b)
    <3>1. \/ buy' = [buy EXCEPT ![b] = Amended(buy[b], buy[b].status, "charged", buy[b].declined, buy[b].doubted)]
          \/ buy' = [buy EXCEPT ![b] = Amended(buy[b], buy[b].status, buy[b].page, TRUE, buy[b].doubted)]
      BY <1>t, <2>3, RowPut, Zenon DEF Charge, Types
    <3> QED
      BY <1>1, <3>1 DEF BuyRows, Statuses, Pages
  <2> QED
    BY <2>1, <2>2, <2>3
<1>4. UNCHANGED <<pass, over, till, together, lowered>>
  BY DEF Initialize, MarkFailed, Charge
<1> QED
  BY <1>2, <1>3, <1>4 DEF Types

\* What a transaction that ends writes.
LEMMA OneBooking ==
    ASSUME Types, NEW c \in Cashiers, NEW status \in {"PAID", "FAILED"}, till[c] # Closed, Books(c, status)
    PROVE  /\ till[c].of \in Buys /\ buy[till[c].of].status # "none"
           /\ till' = [till EXCEPT ![c] = Closed] /\ till' \in [Cashiers -> Tills]
           /\ UNCHANGED <<over, together>>
           /\ buy' \in [Buys -> BuyRows]
           /\ \A d \in Buys :
                 /\ buy'[d].tier = buy[d].tier /\ buy'[d].saw = buy[d].saw /\ buy'[d].page = buy[d].page
                 /\ d # till[c].of => buy'[d] = buy[d]
                 /\ d = till[c].of => buy'[d].status = status
                 /\ buy'[d].succeeded = IF d = till[c].of /\ status = "PAID"
                                        THEN buy[d].succeeded + 1 ELSE buy[d].succeeded
<1>1. till[c].of \in Buys /\ buy[till[c].of].status # "none"
  BY DEF Types, AtTill
<1>2. till' = [till EXCEPT ![c] = Closed] /\ till' \in [Cashiers -> Tills] /\ UNCHANGED <<over, together>>
  BY Basics DEF Books, Types
<1>3. buy' \in [Buys -> BuyRows]
  BY <1>1 DEF Books, Types, BuyRows, Statuses, Pages
<1>4. ASSUME NEW d \in Buys
      PROVE  /\ buy'[d].tier = buy[d].tier /\ buy'[d].saw = buy[d].saw /\ buy'[d].page = buy[d].page
             /\ d # till[c].of => buy'[d] = buy[d]
             /\ d = till[c].of => buy'[d].status = status
             /\ buy'[d].succeeded = IF d = till[c].of /\ status = "PAID"
                                    THEN buy[d].succeeded + 1 ELSE buy[d].succeeded
  BY <1>1 DEF Books, Types, BuyRows, Statuses, Pages
<1> QED
  BY <1>1, <1>2, <1>3, <1>4

\* The four ways a transaction ends in a booking.
Booking(c) == Confirm(c) \/ ConfirmBundle(c) \/ Fail(c) \/ FailBundle(c)

LEMMA BookingIs ==
    ASSUME Types, NEW c \in Cashiers, Booking(c)
    PROVE  /\ till[c] # Closed
           /\ \/ Books(c, "PAID") /\ till[c].op = "CONFIRM"
              \/ Books(c, "FAILED")
           /\ \/ pass' = pass /\ lowered' = lowered
              \/ Confirm(c)
BY Basics DEF Booking, Confirm, ConfirmBundle, Fail, FailBundle, Types

LEMMA TakesIs ==
    ASSUME Types, NEW c \in Cashiers, NEW b \in Buys, TakeConfirm(c, b) \/ TakeFail(c, b)
    PROVE  /\ till[c] = Closed /\ buy[b].status = "PENDING" /\ UNCHANGED <<pass, over, buy, lowered>>
           /\ together' = IF \E d \in Cashiers : till[d].of = b THEN together \cup {b} ELSE together
           /\ \A d \in Cashiers \ {c} : till'[d] = till[d]
           /\ till' \in [Cashiers -> Tills] /\ till'[c] # Closed /\ till'[c].of = b
           /\ till'[c].op \in {"CONFIRM", "FAIL"}
           /\ till'[c].op = "CONFIRM" => buy[b].page = "charged"
BY Basics DEF TakeConfirm, TakeFail, Takes, StillPending, Charged, Till, Tills, Closed, Types

LEMMA InitTypes == PassInit => Types
<1> SUFFICES ASSUME PassInit PROVE Types
  OBVIOUS
<1>1. over \in BOOLEAN /\ lowered \in BOOLEAN
  BY Zenon DEF PassInit
<1>2. buy \in [Buys -> BuyRows] /\ till \in [Cashiers -> Tills]
  BY Basics, Zenon DEF PassInit
<1> QED
  BY <1>1, <1>2, Basics DEF PassInit, Types, AtTill

LEMMA NextTypes == Types /\ [PassNext]_passVars => Types'
<1> SUFFICES ASSUME Types, [PassNext]_passVars PROVE Types'
  OBVIOUS
<1>1. CASE UNCHANGED passVars
  BY <1>1 DEF passVars, Types, AtTill
<1>2. CASE DaysMove
  BY <1>2 DEF DaysMove, Types, AtTill
<1>3. ASSUME NEW b \in Buys, NEW tier \in 0..TopPass, Sells(b, tier)
      PROVE  Types'
  <2>1. AtTill'
    BY <1>3, SoldRow DEF Types, AtTill
  <2> QED
    BY <1>3, <2>1, SoldRow DEF Types
<1>4. ASSUME NEW b \in Buys, Initialize(b) \/ MarkFailed(b) \/ Charge(b)
      PROVE  Types'
  <2>1. AtTill'
    BY <1>4, OnePage DEF Types, AtTill
  <2> QED
    BY <1>4, <2>1, OnePage DEF Types
<1>5. ASSUME NEW c \in Cashiers, NEW b \in Buys, TakeConfirm(c, b) \/ TakeFail(c, b)
      PROVE  Types'
  <2>1. AtTill'
    BY <1>5, TakesIs DEF Types, AtTill
  <2>2. together' \subseteq Buys
    BY <1>5, TakesIs DEF Types
  <2> QED
    BY <1>5, <2>1, <2>2, TakesIs DEF Types
<1>6. ASSUME NEW c \in Cashiers, Booking(c)
      PROVE  Types'
  <2>1. till[c] # Closed /\ (Books(c, "PAID") \/ Books(c, "FAILED"))
    BY <1>6, BookingIs
  <2>2. AtTill'
    <3> SUFFICES ASSUME NEW d \in Cashiers, till'[d] # Closed
                 PROVE  /\ till'[d].op \in {"CONFIRM", "FAIL"} /\ till'[d].of \in Buys
                        /\ buy'[till'[d].of].status # "none"
                        /\ till'[d].op = "CONFIRM" => buy'[till'[d].of].page = "charged"
      BY DEF AtTill
    <3>1. till'[d] = till[d]
      BY <2>1, OneBooking DEF Types
    <3>2. /\ till[d].op \in {"CONFIRM", "FAIL"} /\ till[d].of \in Buys
          /\ buy[till[d].of].status # "none"
          /\ till[d].op = "CONFIRM" => buy[till[d].of].page = "charged"
      BY <3>1 DEF Types, AtTill
    <3>3. buy'[till[d].of].status # "none" /\ buy'[till[d].of].page = buy[till[d].of].page
      BY <2>1, <3>2, OneBooking
    <3> QED
      BY <3>1, <3>2, <3>3
  <2>3. pass' \in 0..TopPass
    BY <1>6, <2>1, OneBooking, BookingIs DEF Confirm, Types, BuyRows, Statuses, Pages
  <2>4. lowered' \in BOOLEAN
    <3>1. CASE lowered' = lowered
      BY <3>1 DEF Types
    <3>2. CASE Confirm(c)
      BY <3>2, Zenon DEF Confirm
    <3> QED
      BY <1>6, <3>1, <3>2, BookingIs
  <2> QED
    BY <2>1, <2>2, <2>3, <2>4, OneBooking DEF Types
<1>7. ASSUME NEW c \in Cashiers, RollBack(c)
      PROVE  Types'
  BY <1>7, Basics DEF RollBack, Types, AtTill
<1>8. 1..TopPass \subseteq 0..TopPass
  BY EventPassAssumption
<1> QED
  BY <1>1, <1>2, <1>3, <1>4, <1>5, <1>6, <1>7, <1>8, Basics
     DEF PassNext, Purchase, PurchaseBundle, Booking

\* The rows of an event's purchases are what the types say, and no transaction
\* confirms one that was not made and charged for.
THEOREM PassTypeCorrect == PassSpec => []PassTypeOK
<1>1. Types => PassTypeOK
  BY DEF Types, PassTypeOK, BuyRows, Statuses, Pages, Tills
<1> QED
  BY <1>1, InitTypes, NextTypes, PTL DEF PassSpec

-----------------------------------------------------------------------------
(* EventPass: the pass is the one paid for.                                *)

\* Of a pass that was active when a purchase was sold, it is an upgrade.
SoldAsUpgrade ==
    \A b \in Buys :
        buy[b].status # "none" /\ buy[b].tier # Bundle /\ buy[b].saw[1] # 0 /\ ~buy[b].saw[2]
            => buy[b].tier > buy[b].saw[1]

\* A purchase nobody has read together with another is with one transaction at
\* most, which will find it as it read it: not paid for yet.
OneAtATime ==
    \A b \in Buys \ together :
        /\ \A c, d \in Cashiers : till[c].of = b /\ till[d].of = b => c = d
        /\ (\E c \in Cashiers : till[c].of = b) => buy[b].status # "PAID"
        /\ buy[b].succeeded = IF buy[b].status = "PAID" THEN 1 ELSE 0

\* What is booked was sold and charged, and the pass is one of those booked.
Booked ==
    /\ \A b \in Buys : buy[b].status = "none" => buy[b].succeeded = 0
    /\ \A b \in Buys : buy[b].succeeded > 0 => buy[b].page = "charged"
    /\ pass # 0 => \E b \in Buys : buy[b].tier = pass /\ buy[b].succeeded > 0

PaidFor == ~lowered /\ SoldAsUpgrade /\ OneAtATime /\ Booked

\* A charge that is confirmed does not lower the pass that was seen when it was
\* sold, and still is active.
LEMMA NeverLowered ==
    ASSUME Types, PaidFor, NEW c \in Cashiers, Confirm(c)
    PROVE  ~lowered'
<1> DEFINE b == till[c].of
<1>1. till[c] # Closed
  BY BookingIs DEF Booking
<1>2. b \in Buys /\ buy[b].status # "none" /\ buy[b].tier # Bundle
  BY <1>1 DEF Types, AtTill, Confirm
<1>3. /\ pass \in 0..TopPass /\ buy[b].tier \in 0..TopPass
      /\ buy[b].saw \in (0..TopPass) \X BOOLEAN
  BY <1>2 DEF Types, BuyRows
<1>4. ASSUME Active, buy[b].tier < pass, buy[b].saw = <<pass, over>> PROVE FALSE
  <2>1. buy[b].saw[1] = pass /\ ~buy[b].saw[2] /\ pass # 0
    BY <1>4 DEF Active
  <2>2. buy[b].tier > pass
    BY <1>2, <2>1 DEF PaidFor, SoldAsUpgrade
  <2> QED
    BY <1>3, <1>4, <2>2, EventPassAssumption
<1>5. lowered' = (lowered \/ (Active /\ buy[b].tier < pass /\ buy[b].saw = <<pass, over>>))
  BY DEF Confirm
<1> HIDE DEF b
<1> QED
  BY <1>4, <1>5, Zenon DEF PaidFor

LEMMA SaleKeepsPaidFor ==
    ASSUME Types, PaidFor, NEW b \in Buys, NEW tier \in 0..TopPass,
           tier = Bundle \/ (Active => tier > pass), Sells(b, tier)
    PROVE  PaidFor'
<1> USE SoldRow
<1>1. SoldAsUpgrade'
  <2>1. buy'[b].saw[1] = pass /\ buy'[b].saw[2] = over /\ buy'[b].tier = tier
    OBVIOUS
  <2> QED
    BY <2>1 DEF PaidFor, SoldAsUpgrade, Active
<1>2. \A c \in Cashiers : till[c].of # b
  BY Basics DEF Types, AtTill
<1>3. OneAtATime'
  BY <1>2 DEF PaidFor, OneAtATime
<1>4. Booked'
  BY DEF PaidFor, Booked
<1> QED
  BY <1>1, <1>3, <1>4 DEF PaidFor

LEMMA PageKeepsPaidFor ==
    ASSUME Types, PaidFor, NEW b \in Buys, Initialize(b) \/ MarkFailed(b) \/ Charge(b)
    PROVE  PaidFor'
<1> USE OnePage
<1>1. SoldAsUpgrade'
  BY DEF PaidFor, SoldAsUpgrade
<1>2. OneAtATime'
  BY DEF PaidFor, OneAtATime
<1>3. Booked'
  BY DEF PaidFor, Booked
<1> QED
  BY <1>1, <1>2, <1>3 DEF PaidFor

LEMMA TakeKeepsPaidFor ==
    ASSUME Types, PaidFor, NEW c \in Cashiers, NEW b \in Buys, TakeConfirm(c, b) \/ TakeFail(c, b)
    PROVE  PaidFor'
<1> USE TakesIs
<1>1. SoldAsUpgrade' /\ Booked' /\ lowered' = lowered
  BY DEF PaidFor, SoldAsUpgrade, Booked
<1>2. OneAtATime'
  <2> SUFFICES ASSUME NEW a \in Buys \ together'
               PROVE  /\ \A d, e \in Cashiers : till'[d].of = a /\ till'[e].of = a => d = e
                      /\ (\E d \in Cashiers : till'[d].of = a) => buy[a].status # "PAID"
                      /\ buy[a].succeeded = IF buy[a].status = "PAID" THEN 1 ELSE 0
    BY DEF OneAtATime
  <2>1. a \in Buys \ together
    OBVIOUS
  <2>2. CASE a = b
    <3>1. \A d \in Cashiers : till[d].of # b
      BY <2>2
    <3>2. \A d \in Cashiers : till'[d].of = b => d = c
      BY <3>1
    <3> QED
      BY <2>1, <2>2, <3>2 DEF PaidFor, OneAtATime
  <2>3. CASE a # b
    <3>1. \A d \in Cashiers : till'[d].of = a => till[d].of = a
      BY <2>3
    <3> QED
      BY <2>1, <3>1 DEF PaidFor, OneAtATime
  <2> QED
    BY <2>2, <2>3
<1> QED
  BY <1>1, <1>2 DEF PaidFor

LEMMA BookingKeepsPaidFor ==
    ASSUME Types, PaidFor, NEW c \in Cashiers, Booking(c)
    PROVE  PaidFor'
<1> DEFINE b == till[c].of
<1>1. till[c] # Closed /\ (Books(c, "PAID") \/ Books(c, "FAILED"))
  BY BookingIs
<1>2. /\ b \in Buys /\ buy[b].status # "none"
      /\ \A d \in Buys \ {b} : buy'[d] = buy[d]
      /\ \A d \in Buys : buy'[d].tier = buy[d].tier /\ buy'[d].saw = buy[d].saw /\ buy'[d].page = buy[d].page
      /\ buy'[b].status \in {"PAID", "FAILED"}
      /\ buy'[b].succeeded = IF buy'[b].status = "PAID" THEN buy[b].succeeded + 1 ELSE buy[b].succeeded
      /\ buy'[b].status = "PAID" => till[c].op = "CONFIRM"
      /\ over' = over /\ together' = together /\ till' = [till EXCEPT ![c] = Closed]
      /\ buy[b].succeeded \in Nat
  <2>1. b \in Buys /\ buy[b].succeeded \in Nat
    BY <1>1, OneBooking DEF Types, BuyRows
  <2>2. CASE Books(c, "PAID") /\ till[c].op = "CONFIRM"
    BY <1>1, <2>1, <2>2, OneBooking
  <2>3. CASE Books(c, "FAILED")
    BY <1>1, <2>1, <2>3, OneBooking
  <2> QED
    BY <2>2, <2>3, BookingIs
<1>3. till[c].op = "CONFIRM" => buy[b].page = "charged"
  BY <1>1 DEF Types, AtTill
<1> HIDE DEF b
<1>4. SoldAsUpgrade'
  BY <1>2 DEF PaidFor, SoldAsUpgrade
<1>5. OneAtATime'
  <2> SUFFICES ASSUME NEW a \in Buys \ together
               PROVE  /\ \A d, e \in Cashiers : till'[d].of = a /\ till'[e].of = a => d = e
                      /\ (\E d \in Cashiers : till'[d].of = a) => buy'[a].status # "PAID"
                      /\ buy'[a].succeeded = IF buy'[a].status = "PAID" THEN 1 ELSE 0
    BY <1>2 DEF OneAtATime
  <2>1. \A d \in Cashiers : till'[d].of = a => d # c /\ till[d].of = a
    BY <1>2, Basics DEF Types
  <2>2. CASE a = b
    <3>1. \A d \in Cashiers : till'[d].of # a
      BY <2>1, <2>2 DEF PaidFor, OneAtATime, b
    <3>2. buy[b].succeeded = 0
      BY <2>2 DEF PaidFor, OneAtATime, b
    <3> QED
      BY <1>2, <2>2, <3>1, <3>2
  <2>3. CASE a # b
    BY <1>2, <2>1, <2>3 DEF PaidFor, OneAtATime
  <2> QED
    BY <2>2, <2>3
<1>6. Booked'
  <2>1. \A a \in Buys : buy'[a].status = "none" => buy'[a].succeeded = 0
    BY <1>2 DEF PaidFor, Booked
  <2>2. \A a \in Buys : buy'[a].succeeded > 0 => buy'[a].page = "charged"
    BY <1>2, <1>3 DEF PaidFor, Booked
  <2>3. CASE pass' = pass
    <3>1. \A a \in Buys : buy[a].succeeded > 0 => buy'[a].succeeded > 0
      BY <1>2
    <3> QED
      BY <1>2, <2>1, <2>2, <2>3, <3>1 DEF PaidFor, Booked
  <2>4. CASE Confirm(c)
    <3>1. pass' = buy[b].tier /\ buy'[b].status = "PAID"
      BY <1>1, <2>4, OneBooking DEF Confirm, b
    <3>2. buy'[b].tier = pass' /\ buy'[b].succeeded > 0
      BY <1>2, <3>1
    <3> QED
      BY <1>2, <2>1, <2>2, <3>2 DEF Booked
  <2> QED
    BY <2>3, <2>4, BookingIs
<1>7. ~lowered'
  BY NeverLowered, BookingIs DEF PaidFor
<1> QED
  BY <1>4, <1>5, <1>6, <1>7 DEF PaidFor

LEMMA NextPaidFor ==
    ASSUME Types, PaidFor, [PassNext]_passVars
    PROVE  PaidFor'
<1>1. CASE UNCHANGED passVars
  BY <1>1 DEF passVars, PaidFor, SoldAsUpgrade, OneAtATime, Booked
<1>2. CASE DaysMove
  BY <1>2 DEF DaysMove, PaidFor, SoldAsUpgrade, OneAtATime, Booked
<1>3. ASSUME NEW b \in Buys, NEW tier \in 1..TopPass, Purchase(b, tier)
      PROVE  PaidFor'
  <2>1. tier \in 0..TopPass
    BY EventPassAssumption
  <2> QED
    BY <1>3, <2>1, SaleKeepsPaidFor DEF Purchase
<1>4. ASSUME NEW b \in Buys, PurchaseBundle(b)
      PROVE  PaidFor'
  BY <1>4, Basics, SaleKeepsPaidFor DEF PurchaseBundle
<1>5. ASSUME NEW c \in Cashiers, RollBack(c)
      PROVE  PaidFor'
  <2>1. /\ UNCHANGED <<pass, over, buy, together, lowered>>
        /\ \A d \in Cashiers : till'[d] = till[d] \/ till'[d].of = 0
    BY <1>5, Basics DEF RollBack, Types
  <2>2. OneAtATime'
    BY <2>1, Basics DEF PaidFor, OneAtATime
  <2> QED
    BY <2>1, <2>2 DEF PaidFor, SoldAsUpgrade, Booked
<1> QED
  BY <1>1, <1>2, <1>3, <1>4, <1>5, PageKeepsPaidFor, TakeKeepsPaidFor, BookingKeepsPaidFor
     DEF PassNext, Booking

\* The event has the pass that was paid for: with no lock and nothing held,
\* however many checkouts are open and in whatever order their charges are
\* confirmed, a purchase no two transactions have read together is booked once,
\* only what was charged is booked, the pass is one that was booked, and a charge
\* lowers an active pass only if that is not the pass it was sold beside.
THEOREM PassIsAsPaid == PassSpec => []PassAsPaid
<1>1. PassInit => PaidFor
  <2> SUFFICES ASSUME PassInit PROVE PaidFor
    OBVIOUS
  <2>1. \A b \in Buys : buy[b].status = "none" /\ buy[b].succeeded = 0
    BY Basics DEF PassInit
  <2>2. \A c \in Cashiers : till[c].of = 0
    BY Basics DEF PassInit
  <2> QED
    BY <2>1, <2>2, Basics DEF PassInit, PaidFor, SoldAsUpgrade, OneAtATime, Booked
<1>2. Types /\ PaidFor /\ [PassNext]_passVars => PaidFor'
  BY NextPaidFor
<1>3. PaidFor => PassAsPaid
  BY DEF PaidFor, OneAtATime, Booked, PassAsPaid
<1> QED
  BY <1>1, <1>2, <1>3, InitTypes, NextTypes, PTL DEF PassSpec

-----------------------------------------------------------------------------
(* MemoryHub: types.                                                       *)

ItemStates == {"none", "PENDING", "APPROVED", "REJECTED"}
Savers == {"nobody", "guest", "organiser"}
ItemRows == [st : ItemStates, arch : BOOLEAN, asset : Assets \cup {NoAsset}, by : Savers]
FileSaves == [asset : Assets \cup {NoAsset}, by : Savers]

\* What is saved, and what is about to be, names a file.
OfAssets ==
    /\ \A i \in Items : item[i].st # "none" => item[i].asset \in Assets
    /\ \A u \in Uploaders : saving[u] # NoSave => saving[u].asset \in Assets

AlbumTypes == AlbumTypeOK /\ OfAssets

\* An item that names no file named before, or was there, is of the same files.
LEMMA NewItem ==
    ASSUME AlbumTypes, NEW u \in Uploaders, CreateItem(u)
    PROVE  \E i \in Items, st \in {"PENDING", "APPROVED"}, by \in Savers :
              /\ i \notin Rows /\ saving[u] # NoSave /\ saving[u].asset \in Assets
              /\ item' = [item EXCEPT ![i] = Row(st, FALSE, saving[u].asset, by)]
              /\ item' \in [Items -> ItemRows]
              /\ saving' = [saving EXCEPT ![u] = NoSave] /\ saving' \in [Uploaders -> FileSaves]
<1>1. saving[u] # NoSave /\ saving[u].asset \in Assets /\ saving[u].by \in Savers
  BY DEF CreateItem, AlbumTypes, AlbumTypeOK, OfAssets, Savers
<1>2. PICK i \in Items \ Rows :
         item' = [item EXCEPT ![i] = Row(IF saving[u].by = "guest" THEN "PENDING" ELSE "APPROVED",
                                         FALSE, saving[u].asset, saving[u].by)]
  BY DEF CreateItem
<1>3. \A st \in {"PENDING", "APPROVED"} : Row(st, FALSE, saving[u].asset, saving[u].by) \in ItemRows
  BY <1>1 DEF Row, ItemRows, ItemStates
<1>4. saving' = [saving EXCEPT ![u] = NoSave] /\ NoSave \in FileSaves
  BY DEF CreateItem, NoSave, Save, FileSaves, Savers
<1>5. item \in [Items -> ItemRows] /\ saving \in [Uploaders -> FileSaves]
  BY DEF AlbumTypes, AlbumTypeOK, ItemRows, ItemStates, Savers, FileSaves
<1>6. item' \in [Items -> ItemRows] /\ saving' \in [Uploaders -> FileSaves]
  BY <1>2, <1>3, <1>4, <1>5
<1>7. PICK st \in {"PENDING", "APPROVED"} :
         item' = [item EXCEPT ![i] = Row(st, FALSE, saving[u].asset, saving[u].by)]
  BY <1>2
<1>8. i \in Items /\ i \notin Rows
  BY <1>2
<1> QED
  BY <1>1, <1>4, <1>6, <1>7, <1>8, Zenon

\* A save that begins.
LEMMA SaveIs ==
    ASSUME AlbumTypes, NEW u \in Uploaders, NEW a \in Assets, SaveByGuest(u, a) \/ SaveByOrganiser(u, a)
    PROVE  /\ saving[u] = NoSave /\ asset[a] \in {"stored", "deleted"}
           /\ sent' = [sent EXCEPT ![a] = IF sent[a] = "never" THEN "once" ELSE "again"]
           /\ UNCHANGED <<hub, shut, asset, item, unchecked>>
           /\ \/ UNCHANGED saving /\ dooming' = dooming \cup {a}
              \/ /\ UNCHANGED dooming /\ Used + 1 <= Quota
                 /\ \E by \in Savers \ {"nobody"} : saving' = [saving EXCEPT ![u] = Save(a, by)]
BY DEF SaveByGuest, SaveByOrganiser, Saves, Refuse, Accept, Acceptable, Savers

\* What curation does to an item: it takes space that no check counted, or none.
LEMMA CuratedIs ==
    ASSUME AlbumTypes, NEW i \in Items,
           (\E st \in {"PENDING", "APPROVED", "REJECTED"} : CurateItem(i, st)) \/ ArchiveItem(i) \/ ReactivateItem(i)
    PROVE  /\ i \in Rows /\ UNCHANGED <<hub, asset, saving, dooming, sent>> /\ shut' = shut
           /\ unchecked' \in BOOLEAN
           /\ \E st \in ItemStates \ {"none"}, arch \in BOOLEAN :
                 /\ item' = [item EXCEPT ![i] = Row(st, arch, item[i].asset, item[i].by)]
                 /\ item' \in [Items -> ItemRows]
                 /\ ~unchecked' => ~unchecked /\ (i \in Counted \/ arch)
<1>1. item[i] \in ItemRows /\ item \in [Items -> ItemRows] /\ unchecked \in BOOLEAN
  BY DEF AlbumTypes, AlbumTypeOK, ItemRows, ItemStates, Savers
<1>2. \A st \in ItemStates, arch \in BOOLEAN : Row(st, arch, item[i].asset, item[i].by) \in ItemRows
  BY <1>1 DEF Row, ItemRows
<1>3. \A st \in ItemStates : [item EXCEPT ![i].st = st] = [item EXCEPT ![i] = Row(st, item[i].arch, item[i].asset, item[i].by)]
  <2> SUFFICES ASSUME NEW st \in ItemStates
               PROVE  [item EXCEPT ![i].st = st] = [item EXCEPT ![i] = Row(st, item[i].arch, item[i].asset, item[i].by)]
    OBVIOUS
  <2>1. [item EXCEPT ![i].st = st] = [item EXCEPT ![i] = [item[i] EXCEPT !.st = st]]
    OBVIOUS
  <2>2. [item[i] EXCEPT !.st = st] = Row(st, item[i].arch, item[i].asset, item[i].by)
    BY <1>1 DEF Row, ItemRows
  <2> QED
    BY <2>1, <2>2, Zenon
<1>4. \A arch \in BOOLEAN : [item EXCEPT ![i].arch = arch] = [item EXCEPT ![i] = Row(item[i].st, arch, item[i].asset, item[i].by)]
  <2> SUFFICES ASSUME NEW arch \in BOOLEAN
               PROVE  [item EXCEPT ![i].arch = arch] = [item EXCEPT ![i] = Row(item[i].st, arch, item[i].asset, item[i].by)]
    OBVIOUS
  <2>1. [item EXCEPT ![i].arch = arch] = [item EXCEPT ![i] = [item[i] EXCEPT !.arch = arch]]
    OBVIOUS
  <2>2. [item[i] EXCEPT !.arch = arch] = Row(item[i].st, arch, item[i].asset, item[i].by)
    BY <1>1 DEF Row, ItemRows
  <2> QED
    BY <2>1, <2>2, Zenon
<1>5. item[i].st \in ItemStates /\ item[i].arch \in BOOLEAN
  BY <1>1 DEF ItemRows
<1>6. CASE \E st \in {"PENDING", "APPROVED", "REJECTED"} : CurateItem(i, st)
  <2>1. PICK st \in {"PENDING", "APPROVED", "REJECTED"} : CurateItem(i, st)
    BY <1>6
  <2>2. st \in ItemStates /\ st # "none"
    BY DEF ItemStates
  <2>3. item' = [item EXCEPT ![i] = Row(st, item[i].arch, item[i].asset, item[i].by)]
    BY <1>3, <2>1, <2>2, Zenon DEF CurateItem
  <2>4. item' \in [Items -> ItemRows]
    BY <1>1, <1>2, <1>5, <2>2, <2>3
  <2>5. unchecked' \in BOOLEAN
    BY <2>1, Zenon DEF CurateItem
  <2>6. ~unchecked' => ~unchecked /\ i \in Counted
    BY <1>5, <2>1 DEF CurateItem, InScope, Counted, Rows, ItemStates
  <2> QED
    BY <1>5, <2>1, <2>2, <2>3, <2>4, <2>5, <2>6, Zenon DEF CurateItem, InScope
<1>7. CASE ArchiveItem(i) \/ ReactivateItem(i)
  <2>1. i \in Rows /\ UNCHANGED <<hub, asset, saving, dooming, sent>> /\ shut' = shut
    BY <1>7 DEF ArchiveItem, ReactivateItem, InScope
  <2>2. item[i].st # "none"
    BY <2>1 DEF Rows
  <2>3. PICK arch \in BOOLEAN : /\ item' = [item EXCEPT ![i].arch = arch]
                                /\ unchecked' \in BOOLEAN /\ (~unchecked' => ~unchecked /\ arch)
    BY <1>1, <1>7, Zenon DEF ArchiveItem, ReactivateItem
  <2>4. item' = [item EXCEPT ![i] = Row(item[i].st, arch, item[i].asset, item[i].by)]
    BY <1>4, <2>3, Zenon
  <2>5. item' \in [Items -> ItemRows]
    BY <1>1, <1>2, <1>5, <2>4
  <2> QED
    BY <1>5, <2>1, <2>2, <2>3, <2>4, <2>5
<1> QED
  BY <1>6, <1>7

LEMMA AlbumInitTypes == AlbumInit => AlbumTypes
<1> SUFFICES ASSUME AlbumInit PROVE AlbumTypes
  OBVIOUS
<1>1. Absent \in ItemRows /\ NoSave \in FileSaves
  BY DEF Absent, Row, ItemRows, ItemStates, Savers, NoSave, Save, FileSaves
<1>2. item \in [Items -> ItemRows] /\ saving \in [Uploaders -> FileSaves]
  BY <1>1, Zenon DEF AlbumInit
<1>3. /\ asset \in [Assets -> {"unsigned", "signed", "stored", "deleted"}]
      /\ sent \in [Assets -> {"never", "once", "again"}] /\ dooming \subseteq Assets
  BY DEF AlbumInit
<1>4. unchecked \in BOOLEAN /\ hub \in {"live", "archived"} /\ shut \in Doors
  BY AlbumAssumption DEF AlbumInit
<1>5. OfAssets
  BY DEF AlbumInit, OfAssets, Absent, Row
<1> QED
  BY <1>2, <1>3, <1>4, <1>5 DEF AlbumTypes, AlbumTypeOK, ItemRows, ItemStates, Savers, FileSaves

LEMMA AlbumNextTypes == AlbumTypes /\ [AlbumNext]_albumVars => AlbumTypes'
<1> SUFFICES ASSUME AlbumTypes, [AlbumNext]_albumVars PROVE AlbumTypes'
  OBVIOUS
<1> DEFINE Fields ==
      /\ hub \in {"live", "archived"} /\ shut \in Doors
      /\ asset \in [Assets -> {"unsigned", "signed", "stored", "deleted"}]
      /\ item \in [Items -> ItemRows] /\ saving \in [Uploaders -> FileSaves]
      /\ dooming \subseteq Assets /\ sent \in [Assets -> {"never", "once", "again"}]
      /\ unchecked \in BOOLEAN
<1>a. Fields /\ OfAssets
  BY DEF AlbumTypes, AlbumTypeOK, ItemRows, ItemStates, Savers, FileSaves
<1>b. Fields' /\ OfAssets' => AlbumTypes'
  BY DEF AlbumTypes, AlbumTypeOK, ItemRows, ItemStates, Savers, FileSaves
<1>1. CASE UNCHANGED albumVars
  BY <1>1, <1>a, <1>b DEF albumVars, OfAssets
<1>2. CASE ShutOrOpen \/ ArchiveHub \/ ReactivateHub
  BY <1>2, <1>a, <1>b DEF ShutOrOpen, ArchiveHub, ReactivateHub, OfAssets
<1>3. ASSUME NEW a \in Assets, SignForGuest(a) \/ SignForOrganiser(a) \/ Upload(a) \/ DestroyAnswer(a)
      PROVE  AlbumTypes'
  BY <1>3, <1>a, <1>b DEF SignForGuest, SignForOrganiser, Sign, Upload, DestroyAnswer, OfAssets
<1>4. ASSUME NEW u \in Uploaders, NEW a \in Assets, SaveByGuest(u, a) \/ SaveByOrganiser(u, a)
      PROVE  AlbumTypes'
  <2>1. \A by \in Savers : Save(a, by) \in FileSaves /\ Save(a, by).asset = a
    BY DEF Save, FileSaves
  <2>2. saving' \in [Uploaders -> FileSaves] /\ dooming' \subseteq Assets
    BY <1>4, <1>a, <2>1, SaveIs
  <2>3. sent' \in [Assets -> {"never", "once", "again"}]
    BY <1>4, <1>a, SaveIs
  <2>4. OfAssets'
    BY <1>4, <1>a, <2>1, SaveIs DEF OfAssets
  <2> QED
    BY <1>4, <1>a, <1>b, <2>2, <2>3, <2>4, SaveIs
<1>5. ASSUME NEW u \in Uploaders, CreateItem(u)
      PROVE  AlbumTypes'
  <2>1. UNCHANGED <<hub, shut, asset, dooming, sent>> /\ unchecked' \in BOOLEAN
    BY <1>5, Zenon DEF CreateItem
  <2>2. OfAssets'
    BY <1>5, <1>a, NewItem DEF OfAssets, Row
  <2> QED
    BY <1>5, <1>a, <1>b, <2>1, <2>2, NewItem
<1>6. ASSUME NEW i \in Items,
             (\E st \in {"PENDING", "APPROVED", "REJECTED"} : CurateItem(i, st)) \/ ArchiveItem(i) \/ ReactivateItem(i)
      PROVE  AlbumTypes'
  <2>1. OfAssets'
    BY <1>6, <1>a, CuratedIs DEF OfAssets, Row, Rows
  <2> QED
    BY <1>6, <1>a, <1>b, <2>1, CuratedIs
<1> QED
  BY <1>1, <1>2, <1>3, <1>4, <1>5, <1>6 DEF AlbumNext

\* The rows of the album are what the types say (memory-hub.repository.ts).
THEOREM AlbumTypeCorrect == AlbumSpec => []AlbumTypeOK
<1>1. AlbumTypes => AlbumTypeOK
  BY DEF AlbumTypes
<1> QED
  BY <1>1, AlbumInitTypes, AlbumNextTypes, PTL DEF AlbumSpec

-----------------------------------------------------------------------------
(* MemoryHub: space.                                                       *)

LEMMA CountedFinite ==
    /\ IsFiniteSet(Items)
    /\ \A S \in SUBSET Items : IsFiniteSet(S) /\ Cardinality(S) \in Nat
    /\ Counted \in SUBSET Items
<1>1. IsFiniteSet(Items)
  BY FS_Interval, AlbumAssumption DEF Items
<1> QED
  BY <1>1, FS_Subset, FS_CardinalityType DEF Counted, Rows

LEMMA SpaceTaken ==
    /\ Counted' \subseteq Counted => Used' <= Used
    /\ \A i \in Items : Counted' \subseteq Counted \cup {i} => Used' <= Used + 1
    /\ Used \in Nat /\ Used' \in Nat
<1>1. Counted' \in SUBSET Items
  BY DEF Counted, Rows
<1>2. IsFiniteSet(Counted) /\ IsFiniteSet(Counted') /\ Used \in Nat /\ Used' \in Nat
  BY <1>1, CountedFinite DEF Used
<1>3. Counted' \subseteq Counted => Used' <= Used
  BY <1>2, FS_Subset DEF Used
<1>4. ASSUME NEW i \in Items, Counted' \subseteq Counted \cup {i} PROVE Used' <= Used + 1
  <2>0. /\ IsFiniteSet(Counted \cup {i})
        /\ Cardinality(Counted \cup {i}) = Used \/ Cardinality(Counted \cup {i}) = Used + 1
    BY <1>2, FS_AddElement, Zenon DEF Used
  <2>1. IsFiniteSet(Counted \cup {i}) /\ Cardinality(Counted \cup {i}) <= Used + 1
    BY <1>2, <2>0
  <2>2. Cardinality(Counted') <= Cardinality(Counted \cup {i})
    BY <1>4, <2>1, FS_Subset
  <2>3. Cardinality(Counted \cup {i}) \in Nat
    BY <2>1, FS_CardinalityType
  <2> QED
    BY <1>2, <2>1, <2>2, <2>3 DEF Used
<1> QED
  BY <1>2, <1>3, <1>4

\* While nothing was left unchecked, the space taken is within the plan, and so
\* is what any one save in progress will add.
RoomForSaves ==
    unchecked \/ (Used <= Quota /\ \A u \in Uploaders : saving[u] # NoSave => Used + 1 <= Quota)

LEMMA RoomIsKept == AlbumTypes /\ RoomForSaves /\ [AlbumNext]_albumVars => RoomForSaves'
<1> SUFFICES ASSUME AlbumTypes, RoomForSaves, [AlbumNext]_albumVars, ~unchecked' PROVE RoomForSaves'
  BY DEF RoomForSaves
<1> USE AlbumAssumption
<1>1. CASE item' = item /\ unchecked' = unchecked /\ saving' = saving
  BY <1>1 DEF RoomForSaves, Used, Counted, Rows
<1>2. ASSUME NEW u \in Uploaders, NEW a \in Assets, SaveByGuest(u, a) \/ SaveByOrganiser(u, a)
      PROVE  RoomForSaves'
  <2>1. Used' = Used /\ unchecked' = unchecked
    BY <1>2, SaveIs DEF Used, Counted, Rows
  <2>2. \A v \in Uploaders : saving'[v] # NoSave => saving[v] # NoSave \/ Used + 1 <= Quota
    BY <1>2, SaveIs DEF AlbumTypes, AlbumTypeOK
  <2> QED
    BY <2>1, <2>2 DEF RoomForSaves
<1>3. ASSUME NEW u \in Uploaders, CreateItem(u)
      PROVE  RoomForSaves'
  <2>1. ~unchecked /\ \A v \in Uploaders : v # u => saving[v] = NoSave
    BY <1>3 DEF CreateItem
  <2>0. PICK i \in Items, row \in ItemRows :
           item' = [item EXCEPT ![i] = row] /\ saving' = [saving EXCEPT ![u] = NoSave] /\ saving[u] # NoSave
    <3>1. \A i \in Items : item' \in [Items -> ItemRows] => item'[i] \in ItemRows
      OBVIOUS
    <3>2. PICK i \in Items, st \in {"PENDING", "APPROVED"}, by \in Savers :
             /\ item' = [item EXCEPT ![i] = Row(st, FALSE, saving[u].asset, by)]
             /\ item' \in [Items -> ItemRows] /\ saving[u] # NoSave
             /\ saving' = [saving EXCEPT ![u] = NoSave]
      BY <1>3, NewItem
    <3>3. Row(st, FALSE, saving[u].asset, by) \in ItemRows
      BY <3>1, <3>2 DEF AlbumTypes, AlbumTypeOK
    <3> QED
      BY <3>2, <3>3
  <2>2. \A v \in Uploaders : saving'[v] = NoSave
    BY <2>0, <2>1 DEF AlbumTypes, AlbumTypeOK
  <2>3. Used + 1 <= Quota
    BY <1>3, <2>1 DEF CreateItem, RoomForSaves
  <2>4. \A j \in Items \ {i} : item'[j] = item[j]
    BY <2>0 DEF AlbumTypes, AlbumTypeOK
  <2>5. Counted' \subseteq Counted \cup {i}
    BY <2>4 DEF Counted, Rows
  <2>6. Used' <= Used + 1 /\ Used \in Nat /\ Used' \in Nat
    BY <2>5, SpaceTaken
  <2>7. Used' <= Quota
    BY <2>3, <2>6
  <2> QED
    BY <2>2, <2>7, Zenon DEF RoomForSaves
<1>4. ASSUME NEW i \in Items,
             (\E st \in {"PENDING", "APPROVED", "REJECTED"} : CurateItem(i, st)) \/ ArchiveItem(i) \/ ReactivateItem(i)
      PROVE  RoomForSaves'
  <2>1. PICK st \in ItemStates \ {"none"}, arch \in BOOLEAN :
           /\ item' = [item EXCEPT ![i] = Row(st, arch, item[i].asset, item[i].by)]
           /\ ~unchecked /\ (i \in Counted \/ arch)
    BY <1>4, CuratedIs
  <2>2. Counted' \subseteq Counted
    BY <2>1 DEF Counted, Rows, Row, AlbumTypes, AlbumTypeOK
  <2>3. Used' <= Used /\ Used \in Nat /\ Used' \in Nat /\ saving' = saving
    BY <1>4, <2>2, SpaceTaken, CuratedIs
  <2>4. Used <= Quota /\ \A u \in Uploaders : saving[u] # NoSave => Used + 1 <= Quota
    BY <2>1 DEF RoomForSaves
  <2>5. Used' <= Quota /\ (Used + 1 <= Quota => Used' + 1 <= Quota)
    <3>1. \A x, y \in Nat : x <= y /\ y <= Quota => x <= Quota /\ (y + 1 <= Quota => x + 1 <= Quota)
      OBVIOUS
    <3> QED
      BY <2>3, <2>4, <3>1, Zenon
  <2> QED
    BY <2>3, <2>4, <2>5, Zenon DEF RoomForSaves
<1> QED
  BY <1>1, <1>2, <1>3, <1>4 DEF AlbumNext, albumVars, ShutOrOpen, ArchiveHub, ReactivateHub,
     SignForGuest, SignForOrganiser, Sign, Upload, DestroyAnswer

-----------------------------------------------------------------------------
(* MemoryHub: files.                                                       *)

Named(a) ==
    \/ \E i \in Items : item[i].st # "none" /\ item[i].asset = a
    \/ \E u \in Uploaders : saving[u] # NoSave /\ saving[u].asset = a

\* A file that an item or a save names is stored, and nobody is deleting it,
\* unless it was named by two saves; one no save has named is not deleted.
FilesKept ==
    \A a \in Assets :
        /\ Named(a) => asset[a] = "stored" \/ sent[a] = "again"
        /\ Named(a) \/ a \in dooming \/ asset[a] = "deleted" => sent[a] # "never"
        /\ Named(a) /\ a \in dooming => sent[a] = "again"

LEMMA FilesAreKept == AlbumTypes /\ FilesKept /\ [AlbumNext]_albumVars => FilesKept'
<1> SUFFICES ASSUME AlbumTypes, FilesKept, [AlbumNext]_albumVars PROVE FilesKept'
  OBVIOUS
<1>t. /\ asset \in [Assets -> {"unsigned", "signed", "stored", "deleted"}] /\ dooming \subseteq Assets
      /\ sent \in [Assets -> {"never", "once", "again"}]
  BY DEF AlbumTypes, AlbumTypeOK
<1>1. CASE item' = item /\ saving' = saving /\ dooming' = dooming /\ sent' = sent /\ asset' = asset
  BY <1>1 DEF FilesKept, Named
<1>2. ASSUME NEW a \in Assets, Sign(a) \/ Upload(a) \/ DestroyAnswer(a)
      PROVE  FilesKept'
  <2>1. \A b \in Assets : Named(b)' <=> Named(b)
    BY <1>2 DEF Sign, Upload, DestroyAnswer, Named
  <2>2. UNCHANGED sent /\ dooming' \subseteq dooming
    BY <1>2 DEF Sign, Upload, DestroyAnswer
  <2>3. \A b \in Assets : \/ asset'[b] = asset[b]
                          \/ asset[b] # "stored" /\ asset'[b] # "deleted"
                          \/ b \in dooming
    BY <1>2, <1>t DEF Sign, Upload, DestroyAnswer
  <2> QED
    BY <2>1, <2>2, <2>3, <1>t DEF FilesKept
<1>3. ASSUME NEW u \in Uploaders, NEW a \in Assets, SaveByGuest(u, a) \/ SaveByOrganiser(u, a)
      PROVE  FilesKept'
  <2>1. saving[u] = NoSave /\ asset[a] \in {"stored", "deleted"} /\ UNCHANGED <<asset, item>>
    BY <1>3, SaveIs
  <2>2. /\ sent'[a] = IF sent[a] = "never" THEN "once" ELSE "again"
        /\ \A b \in Assets \ {a} : sent'[b] = sent[b]
    BY <1>3, <1>t, SaveIs
  <2>3. \A b \in Assets \ {a} : (Named(b)' <=> Named(b)) /\ (b \in dooming' <=> b \in dooming)
    BY <1>3, <2>1, SaveIs DEF Named, AlbumTypes, AlbumTypeOK, Save
  <2>4. (UNCHANGED saving \/ UNCHANGED dooming) /\ (UNCHANGED saving => (Named(a)' <=> Named(a)))
    BY <1>3, <2>1, SaveIs DEF Named
  <2>5. CASE sent[a] = "never"
    <3>1. ~Named(a) /\ a \notin dooming /\ asset[a] = "stored" /\ sent'[a] = "once"
      BY <2>1, <2>2, <2>5, <1>t DEF FilesKept
    <3> QED
      BY <2>1, <2>2, <2>3, <2>4, <3>1 DEF FilesKept
  <2>6. CASE sent[a] # "never"
    BY <2>1, <2>2, <2>3, <2>6 DEF FilesKept
  <2> QED
    BY <2>5, <2>6
<1>4. ASSUME NEW u \in Uploaders, CreateItem(u)
      PROVE  FilesKept'
  <2>0. PICK i \in Items, st \in {"PENDING", "APPROVED"}, by \in Savers :
           /\ item' = [item EXCEPT ![i] = Row(st, FALSE, saving[u].asset, by)] /\ saving[u] # NoSave
           /\ saving' = [saving EXCEPT ![u] = NoSave]
    BY <1>4, NewItem
  <2>1. \A b \in Assets : Named(b)' => Named(b)
    <3> SUFFICES ASSUME NEW b \in Assets, Named(b)' PROVE Named(b)
      OBVIOUS
    <3>1. CASE \E j \in Items : item'[j].st # "none" /\ item'[j].asset = b
      BY <2>0, <3>1 DEF Named, Row, AlbumTypes, AlbumTypeOK
    <3>2. CASE \E v \in Uploaders : saving'[v] # NoSave /\ saving'[v].asset = b
      BY <2>0, <3>2 DEF Named, AlbumTypes, AlbumTypeOK
    <3> QED
      BY <3>1, <3>2 DEF Named
  <2> QED
    BY <1>4, <2>1 DEF CreateItem, FilesKept
<1>5. ASSUME NEW i \in Items,
             (\E st \in {"PENDING", "APPROVED", "REJECTED"} : CurateItem(i, st)) \/ ArchiveItem(i) \/ ReactivateItem(i)
      PROVE  FilesKept'
  <2>1. \A b \in Assets : Named(b)' => Named(b)
    BY <1>5, CuratedIs DEF Named, Row, Rows, AlbumTypes, AlbumTypeOK
  <2> QED
    BY <1>5, <2>1, CuratedIs DEF FilesKept
<1> QED
  BY <1>1, <1>2, <1>3, <1>4, <1>5 DEF AlbumNext, albumVars, ShutOrOpen, ArchiveHub, ReactivateHub,
     SignForGuest, SignForOrganiser

\* The album is within the plan's space and shows only what is stored, however
\* its saves, its curation and its deletions interleave
\* (memory-hub.service.ts).
THEOREM AlbumIsKept == AlbumSpec => []AlbumKept
<1> DEFINE Inv == AlbumTypes /\ RoomForSaves /\ FilesKept
<1>1. AlbumInit => Inv
  <2> SUFFICES ASSUME AlbumInit PROVE RoomForSaves /\ FilesKept
    BY AlbumInitTypes
  <2>1. Counted = {} /\ \A u \in Uploaders : saving[u] = NoSave
    BY DEF AlbumInit, Counted, Rows, Absent, Row
  <2>2. RoomForSaves
    BY <2>1, FS_EmptySet, AlbumAssumption DEF RoomForSaves, Used
  <2>3. FilesKept
    BY <2>1 DEF AlbumInit, FilesKept, Named, Absent, Row
  <2> QED
    BY <2>2, <2>3
<1>2. Inv /\ [AlbumNext]_albumVars => Inv'
  BY AlbumNextTypes, RoomIsKept, FilesAreKept
<1>3. Inv => AlbumKept
  <2> SUFFICES ASSUME Inv PROVE AlbumKept
    OBVIOUS
  <2>1. \A i \in SharedView \cup GuestView \cup Downloadable :
           i \in Items /\ item[i].st # "none" /\ item[i].asset \in Assets
    BY DEF SharedView, GuestView, Downloadable, Approved, Counted, Rows, AlbumTypes, OfAssets
  <2>2. ShownIsStored
    BY <2>1 DEF ShownIsStored, FilesKept, Named
  <2> QED
    BY <2>2 DEF AlbumKept, WithinQuota, RoomForSaves
<1> QED
  BY <1>1, <1>2, <1>3, PTL DEF AlbumSpec

-----------------------------------------------------------------------------
(* SignIn: types.                                                          *)

VisitRows == [op : {"none", "REQUEST", "VERIFY", "SUSPEND", "REACTIVATE"},
              step : {"idle", "create", "use", "trust", "firebase", "revoke"}, of : 0..MaxCodes]
CodeRows == [state : {"none", "valid", "ended", "used"}, opened : Nat]
DeviceRows == [state : {"none", "trusted", "revoked"}, age : Nat, used : Nat, expires : 0..MaxAge]
Accounts == [active : BOOLEAN, enabled : BOOLEAN]

\* A request is at a step of what it does.
InStep(v) ==
    \/ v = Away
    \/ v.op = "REQUEST" /\ v.step = "create"
    \/ v.op = "VERIFY" /\ v.step \in {"use", "trust"} /\ v.of \in Codes
    \/ v.op = "SUSPEND" /\ v.step \in {"firebase", "revoke"}
    \/ v.op = "REACTIVATE" /\ v.step = "firebase"

\* No device expires later than its last use allows, nor was used in the future.
Dated == \A d \in Devices : device[d].used <= device[d].age /\ device[d].expires <= device[d].used + Ttl

OlderMade == \A d \in older : device[d].state # "none"

SignInTypes ==
    /\ account \in Accounts /\ code \in [Codes -> CodeRows] /\ device \in [Devices -> DeviceRows]
    /\ visit \in [Visits -> VisitRows]
    /\ older \subseteq Devices /\ crossing \subseteq Codes /\ tangled \in BOOLEAN
    /\ \A r \in Visits : InStep(visit[r])
    /\ Dated /\ OlderMade

LEMMA VisitsMade ==
    /\ Away \in VisitRows /\ Away.op = "none" /\ Away.step = "idle" /\ InStep(Away)
    /\ Visit("REQUEST", "create", 0) \in VisitRows /\ InStep(Visit("REQUEST", "create", 0))
    /\ Visit("SUSPEND", "firebase", 0) \in VisitRows /\ InStep(Visit("SUSPEND", "firebase", 0))
    /\ Visit("REACTIVATE", "firebase", 0) \in VisitRows /\ InStep(Visit("REACTIVATE", "firebase", 0))
    /\ \A c \in Codes : Visit("VERIFY", "use", c) \in VisitRows /\ InStep(Visit("VERIFY", "use", c))
    /\ Codes \subseteq 0..MaxCodes
BY SignInAssumption DEF Away, Visit, VisitRows, InStep, Codes

\* What each step does to the request it is of.
LEMMA VisitGoes ==
    ASSUME SignInTypes, NEW r \in Visits, NEW v \in VisitRows, InStep(v), Proceeds(r, v)
    PROVE  /\ visit' \in [Visits -> VisitRows] /\ \A q \in Visits : InStep(visit'[q])
           /\ visit'[r] = v /\ \A q \in Visits \ {r} : visit'[q] = visit[q]
BY DEF SignInTypes, Proceeds

LEMMA StepOn ==
    ASSUME SignInTypes, NEW r \in Visits
    PROVE  /\ visit[r].step = "use" =>
                 LET v == [visit[r] EXCEPT !.step = "trust"]
                 IN  /\ v \in VisitRows /\ InStep(v) /\ v.op = "VERIFY" /\ v.step = "trust" /\ v.of = visit[r].of
                     /\ visit[r].op = "VERIFY" /\ visit[r].of \in Codes
           /\ visit[r].step = "firebase" /\ visit[r].op # "REACTIVATE" =>
                 LET v == [visit[r] EXCEPT !.step = "revoke"]
                 IN  /\ v \in VisitRows /\ InStep(v) /\ v.op = "SUSPEND" /\ v.step = "revoke"
                     /\ visit[r].op = "SUSPEND"
BY VisitsMade DEF SignInTypes, InStep, VisitRows

LEMMA AtStep ==
    ASSUME SignInTypes, NEW r \in Visits
    PROVE  /\ visit[r].step = "create" => visit[r].op = "REQUEST"
           /\ visit[r].step \in {"use", "trust"} => visit[r].op = "VERIFY" /\ visit[r].of \in Codes
           /\ visit[r].step = "revoke" => visit[r].op = "SUSPEND"
           /\ visit[r].step = "firebase" => visit[r].op \in {"SUSPEND", "REACTIVATE"}
           /\ visit[r].op = "SUSPEND" => visit[r].step \in {"firebase", "revoke"}
           /\ visit[r].op = "REACTIVATE" => visit[r].step = "firebase"
BY VisitsMade DEF SignInTypes, InStep

LEMMA SignInInitTypes == SignInInit => SignInTypes
<1> SUFFICES ASSUME SignInInit PROVE SignInTypes
  OBVIOUS
<1>1. account \in Accounts /\ code \in [Codes -> CodeRows] /\ tangled \in BOOLEAN
  BY DEF SignInInit, Accounts, CodeRows
<1>2. device \in [Devices -> DeviceRows]
  BY SignInAssumption DEF SignInInit, DeviceRows
<1>3. Dated
  BY SignInAssumption DEF SignInInit, Dated
<1>4. visit \in [Visits -> VisitRows] /\ \A r \in Visits : InStep(visit[r])
  BY VisitsMade DEF SignInInit
<1>5. older = {} /\ crossing = {}
  BY DEF SignInInit
<1> QED
  BY <1>1, <1>2, <1>3, <1>4, <1>5 DEF SignInTypes, OlderMade

\* Steps that leave the devices alone, and those that only revoke some.
LEMMA DevicesRevoked ==
    ASSUME SignInTypes, NEW D, Revoke(D)
    PROVE  /\ device' \in [Devices -> DeviceRows] /\ Dated'
           /\ \A d \in Devices : /\ device'[d].state # "none" <=> (d \in D \/ device[d].state # "none")
                                 /\ device'[d].state = "trusted" <=> (device[d].state = "trusted" /\ d \notin D)
BY DEF Revoke, SignInTypes, DeviceRows, Dated

\* A trusted device that is used is trusted for longer, no longer than may be.
LEMMA DeviceUsed ==
    ASSUME SignInTypes, NEW d \in Devices, ExchangeSession(d)
    PROVE  /\ device' \in [Devices -> DeviceRows] /\ Dated'
           /\ \A e \in Devices : device'[e].state = device[e].state
<1>1. device[d] \in DeviceRows /\ device \in [Devices -> DeviceRows]
  BY DEF SignInTypes
<1> DEFINE ends == Least(Most(device[d].expires, device[d].age + Ttl), MaxAge)
           row == [device[d] EXCEPT !.used = device[d].age, !.expires = ends]
<1>2. device' = [device EXCEPT ![d] = row]
  BY <1>1 DEF ExchangeSession
<1>3. ends \in 0..MaxAge /\ ends <= device[d].age + Ttl
  <2>1. /\ device[d].age \in Nat /\ device[d].used \in Nat /\ device[d].expires \in 0..MaxAge
        /\ device[d].used <= device[d].age /\ device[d].expires <= device[d].used + Ttl
    BY <1>1 DEF DeviceRows, SignInTypes, Dated
  <2> QED
    BY <2>1, SignInAssumption DEF Least, Most
<1> HIDE DEF ends
<1>4. row \in DeviceRows /\ row.state = device[d].state /\ row.age = device[d].age
      /\ row.used = device[d].age /\ row.expires = ends
  BY <1>1, <1>3 DEF DeviceRows
<1> HIDE DEF row
<1>5. device'[d] = row /\ \A e \in Devices \ {d} : device'[e] = device[e]
  BY <1>1, <1>2
<1>6. Dated'
  <2> SUFFICES ASSUME NEW e \in Devices
               PROVE  device'[e].used <= device'[e].age /\ device'[e].expires <= device'[e].used + Ttl
    BY DEF Dated
  <2>1. CASE e = d
    BY <1>1, <1>3, <1>4, <1>5, <2>1 DEF DeviceRows
  <2>2. CASE e # d
    BY <1>5, <2>2 DEF SignInTypes, Dated
  <2> QED
    BY <2>1, <2>2
<1> QED
  BY <1>1, <1>2, <1>4, <1>5, <1>6

LEMMA DeviceTrusted ==
    ASSUME SignInTypes, NEW r \in Visits, NEW d \in Devices, IssueDeviceToken(r, d)
    PROVE  /\ device' \in [Devices -> DeviceRows] /\ Dated' /\ device[d].state = "none"
           /\ device'[d].state = "trusted" /\ \A e \in Devices \ {d} : device'[e] = device[e]
BY SignInAssumption DEF IssueDeviceToken, SignInTypes, DeviceRows, Dated

LEMMA DevicesAge ==
    ASSUME SignInTypes, MonthPasses
    PROVE  /\ device' \in [Devices -> DeviceRows] /\ Dated'
           /\ \A d \in Devices : device'[d].state = device[d].state
<1> DEFINE aged(d) == [device[d] EXCEPT !.age = @ + 1]
<1>1. \A d \in Devices : /\ aged(d) \in DeviceRows /\ aged(d).state = device[d].state
                         /\ aged(d).used = device[d].used /\ aged(d).expires = device[d].expires
                         /\ aged(d).age = device[d].age + 1
                         /\ device[d].age \in Nat /\ device[d].used \in Nat
  BY DEF SignInTypes, DeviceRows
<1>2. \A d \in Devices : device'[d] = aged(d) \/ device'[d] = device[d]
  BY DEF MonthPasses
<1>3. device' = [d \in Devices |-> device'[d]]
  BY DEF MonthPasses
<1> HIDE DEF aged
<1>4. device' \in [Devices -> DeviceRows]
  BY <1>1, <1>2, <1>3 DEF SignInTypes
<1>5. Dated'
  BY <1>1, <1>2 DEF SignInTypes, Dated
<1> QED
  BY <1>1, <1>2, <1>4, <1>5

LEMMA CodesChange ==
    ASSUME SignInTypes, NEW r \in Visits
    PROVE  /\ \A c \in Codes : OtpExpires(c) \/ CreateOtp(r, c) => code' \in [Codes -> CodeRows]
           /\ RequestOtp(r) => code' \in [Codes -> CodeRows]
           /\ MarkOtpAsUsed(r) => /\ code' \in [Codes -> CodeRows] /\ visit[r].of \in Codes
                                  /\ code'[visit[r].of].state = "used"
                                  /\ code'[visit[r].of].opened = code[visit[r].of].opened + 1
                                  /\ \A c \in Codes \ {visit[r].of} : code'[c] = code[c]
<1>t. code \in [Codes -> CodeRows]
  BY DEF SignInTypes
<1>1. \A c \in Codes : OtpExpires(c) \/ CreateOtp(r, c) => code' \in [Codes -> CodeRows]
  BY <1>t DEF OtpExpires, CreateOtp, CodeRows
<1>2. RequestOtp(r) => code' \in [Codes -> CodeRows]
  BY <1>t DEF RequestOtp, CodeRows
<1>3. ASSUME MarkOtpAsUsed(r)
      PROVE  /\ code' \in [Codes -> CodeRows] /\ visit[r].of \in Codes
             /\ code'[visit[r].of].state = "used"
             /\ code'[visit[r].of].opened = code[visit[r].of].opened + 1
             /\ \A c \in Codes \ {visit[r].of} : code'[c] = code[c]
  <2>1. visit[r].of \in Codes
    BY <1>3, AtStep DEF MarkOtpAsUsed
  <2> QED
    BY <1>3, <1>t, <2>1 DEF MarkOtpAsUsed, CodeRows
<1> QED
  BY <1>1, <1>2, <1>3

LEMMA SignInNextTypes == SignInTypes /\ [SignInNext]_signInVars => SignInTypes'
<1> SUFFICES ASSUME SignInTypes, [SignInNext]_signInVars PROVE SignInTypes'
  OBVIOUS
<1>t. /\ account \in Accounts /\ code \in [Codes -> CodeRows] /\ device \in [Devices -> DeviceRows]
      /\ visit \in [Visits -> VisitRows]
      /\ older \subseteq Devices /\ crossing \subseteq Codes /\ tangled \in BOOLEAN
      /\ \A r \in Visits : InStep(visit[r])
      /\ Dated /\ OlderMade
  BY DEF SignInTypes
<1>d. Devices' = Devices
  OBVIOUS
<1>1. CASE UNCHANGED signInVars
  BY <1>1, <1>t DEF signInVars, SignInTypes, Dated, OlderMade
<1>2. CASE MonthPasses
  <2>1. OlderMade'
    BY <1>2, <1>t, DevicesAge DEF MonthPasses, OlderMade
  <2> QED
    BY <1>2, <1>t, <2>1, DevicesAge DEF MonthPasses, SignInTypes
<1>3. ASSUME NEW c \in Codes, OtpExpires(c) PROVE SignInTypes'
  <2>1. code' \in [Codes -> CodeRows]
    BY <1>3, <1>t DEF OtpExpires, CodeRows
  <2> QED
    BY <1>3, <1>t, <2>1 DEF OtpExpires, SignInTypes, Dated, OlderMade
<1>4. ASSUME NEW r \in Visits, NEW c \in Codes, CreateOtp(r, c) PROVE SignInTypes'
  <2>1. code' \in [Codes -> CodeRows] /\ crossing' \subseteq Codes
    BY <1>4, <1>t, CodesChange DEF CreateOtp, Valid
  <2>2. visit' \in [Visits -> VisitRows] /\ \A q \in Visits : InStep(visit'[q])
    BY <1>4, VisitsMade, VisitGoes DEF CreateOtp
  <2> QED
    BY <1>4, <1>t, <2>1, <2>2 DEF CreateOtp, SignInTypes, Dated, OlderMade
<1>5. ASSUME NEW r \in Visits, NEW c \in Codes, VerifyRead(r, c) PROVE SignInTypes'
  <2>1. crossing' \subseteq Codes
    BY <1>5, <1>t DEF VerifyRead
  <2>2. visit' \in [Visits -> VisitRows] /\ \A q \in Visits : InStep(visit'[q])
    BY <1>5, VisitsMade, VisitGoes DEF VerifyRead
  <2> QED
    BY <1>5, <1>t, <2>1, <2>2 DEF VerifyRead, SignInTypes, Dated, OlderMade
<1>6. ASSUME NEW d \in Devices, ExchangeSession(d) PROVE SignInTypes'
  <2>1. OlderMade'
    BY <1>6, <1>t, DeviceUsed DEF ExchangeSession, OlderMade
  <2> QED
    BY <1>6, <1>t, <2>1, DeviceUsed DEF ExchangeSession, SignInTypes
<1>7. ASSUME NEW d \in Devices, Logout(d) PROVE SignInTypes'
  <2>1. OlderMade'
    BY <1>7, <1>t, DevicesRevoked DEF Logout, OlderMade
  <2> QED
    BY <1>7, <1>t, <2>1, DevicesRevoked DEF Logout, SignInTypes
<1>8. ASSUME NEW r \in Visits, NEW d \in Devices, IssueDeviceToken(r, d) PROVE SignInTypes'
  <2>1. OlderMade'
    BY <1>8, <1>t, DeviceTrusted DEF IssueDeviceToken, OlderMade
  <2>2. visit' \in [Visits -> VisitRows] /\ \A q \in Visits : InStep(visit'[q])
    BY <1>8, VisitsMade, VisitGoes DEF IssueDeviceToken
  <2> QED
    BY <1>8, <1>t, <2>1, <2>2, DeviceTrusted DEF IssueDeviceToken, SignInTypes
<1>9. ASSUME NEW r \in Visits, RequestOtp(r) PROVE SignInTypes'
  <2>1. visit' \in [Visits -> VisitRows] /\ \A q \in Visits : InStep(visit'[q])
    BY <1>9, VisitsMade, VisitGoes DEF RequestOtp
  <2> QED
    BY <1>9, <1>t, <2>1, CodesChange DEF RequestOtp, SignInTypes, Dated, OlderMade
<1>10. ASSUME NEW r \in Visits, MarkOtpAsUsed(r) PROVE SignInTypes'
  <2>1. visit' \in [Visits -> VisitRows] /\ \A q \in Visits : InStep(visit'[q])
    BY <1>10, StepOn, VisitGoes DEF MarkOtpAsUsed
  <2> QED
    BY <1>10, <1>t, <2>1, CodesChange DEF MarkOtpAsUsed, SignInTypes, Dated, OlderMade
<1>11. ASSUME NEW r \in Visits, Vanish(r) PROVE SignInTypes'
  <2>1. visit' \in [Visits -> VisitRows] /\ \A q \in Visits : InStep(visit'[q])
    BY <1>11, VisitsMade, VisitGoes DEF Vanish
  <2>2. tangled' \in BOOLEAN
    BY <1>11, Zenon DEF Vanish
  <2> QED
    BY <1>11, <1>t, <2>1, <2>2 DEF Vanish, SignInTypes, Dated, OlderMade
<1>12. ASSUME NEW r \in Visits, SuspendRow(r) PROVE SignInTypes'
  <2>1. visit' \in [Visits -> VisitRows] /\ \A q \in Visits : InStep(visit'[q])
    BY <1>12, VisitsMade, VisitGoes DEF SuspendRow
  <2>2. tangled' \in BOOLEAN
    BY <1>12, Zenon DEF SuspendRow
  <2>3. account' \in Accounts
    BY <1>12, <1>t DEF SuspendRow, Accounts
  <2>4. older' \subseteq Devices /\ \A d \in older' : device[d].state # "none"
    BY <1>12 DEF SuspendRow
  <2> QED
    BY <1>12, <1>t, <2>1, <2>2, <2>3, <2>4 DEF SuspendRow, SignInTypes, Dated, OlderMade
<1>13. ASSUME NEW r \in Visits, ReactivateRow(r) PROVE SignInTypes'
  <2>1. visit' \in [Visits -> VisitRows] /\ \A q \in Visits : InStep(visit'[q])
    BY <1>13, VisitsMade, VisitGoes DEF ReactivateRow
  <2>2. tangled' \in BOOLEAN
    BY <1>13, Zenon DEF ReactivateRow
  <2>3. account' \in Accounts
    BY <1>13, <1>t DEF ReactivateRow, Accounts
  <2> QED
    BY <1>13, <1>t, <2>1, <2>2, <2>3 DEF ReactivateRow, SignInTypes, Dated, OlderMade
<1>14. ASSUME NEW r \in Visits, FirebaseAccount(r) PROVE SignInTypes'
  <2>1. visit' \in [Visits -> VisitRows] /\ \A q \in Visits : InStep(visit'[q])
    <3>1. CASE visit[r].op = "REACTIVATE"
      BY <1>14, <3>1, VisitsMade, VisitGoes DEF FirebaseAccount
    <3>2. CASE visit[r].op # "REACTIVATE"
      BY <1>14, <3>2, StepOn, VisitGoes DEF FirebaseAccount
    <3> QED
      BY <3>1, <3>2
  <2>2. tangled' \in BOOLEAN
    BY <1>14, <1>t DEF FirebaseAccount
  <2>3. account' \in Accounts
    <3>1. (visit[r].op = "REACTIVATE") \in BOOLEAN
      OBVIOUS
    <3> QED
      BY <1>14, <1>t, <3>1 DEF FirebaseAccount, Accounts
  <2> QED
    BY <1>14, <1>t, <2>1, <2>2, <2>3 DEF FirebaseAccount, SignInTypes, Dated, OlderMade
<1>15. ASSUME NEW r \in Visits, RevokeAll(r) PROVE SignInTypes'
  <2>1. visit' \in [Visits -> VisitRows] /\ \A q \in Visits : InStep(visit'[q])
    BY <1>15, VisitsMade, VisitGoes DEF RevokeAll
  <2>2. OlderMade'
    BY <1>15, <1>t, DevicesRevoked DEF RevokeAll, OlderMade
  <2> QED
    BY <1>15, <1>t, <2>1, <2>2, DevicesRevoked DEF RevokeAll, SignInTypes
<1> QED
  BY <1>1, <1>2, <1>3, <1>4, <1>5, <1>6, <1>7, <1>8, <1>9, <1>10, <1>11, <1>12, <1>13, <1>14, <1>15
     DEF SignInNext

\* The rows of a user's account, codes and devices are what the types say.
THEOREM SignInTypeCorrect == SignInSpec => []SignInTypeOK
<1>1. SignInTypes => SignInTypeOK
  BY DEF SignInTypes, SignInTypeOK, Accounts, CodeRows, DeviceRows, VisitRows
<1> QED
  BY <1>1, SignInInitTypes, SignInNextTypes, PTL DEF SignInSpec

-----------------------------------------------------------------------------
(* SignIn: suspension.                                                     *)

\* While suspensions and reactivations neither cross nor fail, one stands at
\* most; between them the devices from before are revoked and Firebase agrees.
Untangled ==
    ~tangled =>
        /\ \A r, q \in Standing : r = q
        /\ Standing = {} => older \cap Unrevoked = {} /\ account.enabled = account.active
        /\ \A r \in Doing("SUSPEND") : ~account.active /\ (visit[r].step = "revoke" => ~account.enabled)
        /\ \A r \in Doing("REACTIVATE") : account.active /\ older \cap Unrevoked = {}

\* Steps of other requests leave it so.
LEMMA Aside ==
    ASSUME Untangled, account' = account, tangled' = tangled, (older \cap Unrevoked)' \subseteq older \cap Unrevoked,
           \A r \in Visits : \/ visit'[r] = visit[r]
                             \/ r \notin Standing /\ r \notin Standing'
    PROVE  Untangled'
<1>1. /\ Doing("SUSPEND")' = Doing("SUSPEND") /\ Doing("REACTIVATE")' = Doing("REACTIVATE")
      /\ \A r \in Doing("SUSPEND") : visit'[r] = visit[r]
  BY DEF Doing, Standing
<1>2. Standing' = Standing
  BY <1>1 DEF Standing
<1> QED
  BY <1>1, <1>2 DEF Untangled

LEMMA UntangledKept == SignInTypes /\ Untangled /\ [SignInNext]_signInVars => Untangled'
<1> SUFFICES ASSUME SignInTypes, Untangled, [SignInNext]_signInVars PROVE Untangled'
  OBVIOUS
<1>t. /\ account \in Accounts /\ visit \in [Visits -> VisitRows] /\ tangled \in BOOLEAN
      /\ older \subseteq Devices /\ device \in [Devices -> DeviceRows]
  BY DEF SignInTypes
<1>s. ASSUME UNCHANGED <<older, device>> PROVE (older \cap Unrevoked)' \subseteq older \cap Unrevoked
  BY <1>s DEF Unrevoked
<1>d. ASSUME older' = older, \A d \in older : device'[d].state = "trusted" => device[d].state = "trusted"
      PROVE  (older \cap Unrevoked)' \subseteq older \cap Unrevoked
  BY <1>d, <1>t DEF Unrevoked
<1>1. CASE UNCHANGED signInVars
  BY <1>1, <1>s, Aside DEF signInVars
<1>2. CASE MonthPasses
  <2>1. (older \cap Unrevoked)' \subseteq older \cap Unrevoked
    BY <1>2, <1>t, <1>d, DevicesAge DEF MonthPasses
  <2> QED
    BY <1>2, <2>1, Aside DEF MonthPasses
<1>3. ASSUME NEW c \in Codes, OtpExpires(c) PROVE Untangled'
  BY <1>3, <1>s, Aside DEF OtpExpires
<1>4. ASSUME NEW r \in Visits, NEW v \in VisitRows, InStep(v), Proceeds(r, v),
             v.op \notin {"SUSPEND", "REACTIVATE"}, visit[r].op \notin {"SUSPEND", "REACTIVATE"},
             UNCHANGED <<account, tangled>>, (older \cap Unrevoked)' \subseteq older \cap Unrevoked
      PROVE  Untangled'
  <2>1. visit'[r] = v /\ \A q \in Visits \ {r} : visit'[q] = visit[q]
    BY <1>4, VisitGoes
  <2>2. r \notin Standing /\ r \notin Standing'
    BY <1>4, <2>1 DEF Standing, Doing
  <2> QED
    BY <1>4, <2>1, <2>2, Aside
<1>5. ASSUME NEW r \in Visits, NEW c \in Codes, CreateOtp(r, c) PROVE Untangled'
  BY <1>5, <1>4, <1>s, AtStep, VisitsMade DEF CreateOtp
<1>6. ASSUME NEW r \in Visits, NEW c \in Codes, VerifyRead(r, c) PROVE Untangled'
  <2> DEFINE v == Visit("VERIFY", "use", c)
  <2>1. v \in VisitRows /\ InStep(v) /\ v.op = "VERIFY" /\ Proceeds(r, v) /\ visit[r].op = "none"
    BY <1>6, VisitsMade DEF VerifyRead, Visit
  <2> HIDE DEF v
  <2> QED
    BY <1>6, <1>4, <1>s, <2>1 DEF VerifyRead
<1>7. ASSUME NEW d \in Devices, ExchangeSession(d) PROVE Untangled'
  <2>1. (older \cap Unrevoked)' \subseteq older \cap Unrevoked
    BY <1>7, <1>t, <1>d, DeviceUsed DEF ExchangeSession
  <2> QED
    BY <1>7, <2>1, Aside DEF ExchangeSession
<1>8. ASSUME NEW d \in Devices, Logout(d) PROVE Untangled'
  <2>1. (older \cap Unrevoked)' \subseteq older \cap Unrevoked
    BY <1>8, <1>t, <1>d, DevicesRevoked DEF Logout
  <2> QED
    BY <1>8, <2>1, Aside DEF Logout
<1>9. ASSUME NEW r \in Visits, NEW d \in Devices, IssueDeviceToken(r, d) PROVE Untangled'
  <2>1. d \notin older
    BY <1>9, DeviceTrusted DEF SignInTypes, OlderMade
  <2>2. (older \cap Unrevoked)' \subseteq older \cap Unrevoked
    BY <1>9, <1>t, <1>d, <2>1, DeviceTrusted DEF IssueDeviceToken
  <2> QED
    BY <1>9, <1>4, <2>2, AtStep, VisitsMade DEF IssueDeviceToken
<1>10. ASSUME NEW r \in Visits, RequestOtp(r) PROVE Untangled'
  <2> DEFINE v == Visit("REQUEST", "create", 0)
  <2>1. v \in VisitRows /\ InStep(v) /\ v.op = "REQUEST" /\ Proceeds(r, v) /\ visit[r].op = "none"
    BY <1>10, VisitsMade DEF RequestOtp, Visit
  <2> HIDE DEF v
  <2> QED
    BY <1>10, <1>4, <1>s, <2>1 DEF RequestOtp
<1>11. ASSUME NEW r \in Visits, MarkOtpAsUsed(r) PROVE Untangled'
  <2> DEFINE v == [visit[r] EXCEPT !.step = "trust"]
  <2>1. v \in VisitRows /\ InStep(v) /\ v.op = "VERIFY" /\ visit[r].op = "VERIFY"
    BY <1>11, StepOn DEF MarkOtpAsUsed
  <2>2. Proceeds(r, v) /\ UNCHANGED <<account, device, older, tangled>>
    BY <1>11 DEF MarkOtpAsUsed
  <2> HIDE DEF v
  <2> QED
    BY <1>4, <1>s, <2>1, <2>2
<1>12. ASSUME NEW r \in Visits, Vanish(r) PROVE Untangled'
  <2>1. CASE r \in Standing
    BY <1>12, <2>1 DEF Vanish, Untangled
  <2>2. CASE r \notin Standing
    <3>1. tangled' = tangled
      BY <1>12, <1>t, <2>2 DEF Vanish
    <3>2. visit[r].op \notin {"SUSPEND", "REACTIVATE"}
      BY <2>2 DEF Standing, Doing
    <3>3. Proceeds(r, Away) /\ UNCHANGED <<account, device, older>>
      BY <1>12 DEF Vanish
    <3> QED
      BY <1>4, <1>s, <3>1, <3>2, <3>3, VisitsMade
  <2> QED
    BY <2>1, <2>2
<1>13. ASSUME NEW r \in Visits, NEW v \in VisitRows, InStep(v), Proceeds(r, v), visit[r] = Away,
              tangled' = (tangled \/ Standing # {}), ~tangled'
       PROVE  /\ ~tangled /\ Standing = {} /\ \A q \in Visits \ {r} : q \notin Standing'
              /\ \A q \in Visits : visit'[q].op \in {"SUSPEND", "REACTIVATE"} => q = r /\ visit'[q] = v
              /\ older \cap Unrevoked = {} /\ account.enabled = account.active
  <2>1. ~tangled /\ Standing = {}
    BY <1>13
  <2>2. visit'[r] = v /\ \A q \in Visits \ {r} : visit'[q] = visit[q]
    BY <1>13, VisitGoes
  <2> QED
    BY <2>1, <2>2 DEF Standing, Doing, Untangled
<1>14. ASSUME NEW r \in Visits, SuspendRow(r), ~tangled' PROVE Untangled'
  <2> DEFINE v == Visit("SUSPEND", "firebase", 0)
  <2>1. v \in VisitRows /\ InStep(v) /\ Proceeds(r, v) /\ v.op = "SUSPEND" /\ v.step = "firebase"
    BY <1>14, VisitsMade DEF SuspendRow, Visit
  <2> HIDE DEF v
  <2>2. /\ \A q \in Visits : visit'[q].op \in {"SUSPEND", "REACTIVATE"} => q = r /\ visit'[q] = v
    BY <1>13, <1>14, <2>1 DEF SuspendRow
  <2>3. visit'[r] = v /\ ~account'.active
    BY <1>14, <1>t, <2>1, VisitGoes DEF SuspendRow, Accounts
  <2> QED
    BY <2>1, <2>2, <2>3 DEF Untangled, Standing, Doing
<1>15. ASSUME NEW r \in Visits, ReactivateRow(r), ~tangled' PROVE Untangled'
  <2> DEFINE v == Visit("REACTIVATE", "firebase", 0)
  <2>1. v \in VisitRows /\ InStep(v) /\ Proceeds(r, v) /\ v.op = "REACTIVATE" /\ v.step = "firebase"
    BY <1>15, VisitsMade DEF ReactivateRow, Visit
  <2> HIDE DEF v
  <2>2. /\ \A q \in Visits : visit'[q].op \in {"SUSPEND", "REACTIVATE"} => q = r /\ visit'[q] = v
        /\ older \cap Unrevoked = {}
    BY <1>13, <1>15, <2>1 DEF ReactivateRow
  <2>3. visit'[r] = v /\ account'.active
    BY <1>15, <1>t, <2>1, VisitGoes DEF ReactivateRow, Accounts
  <2>4. (older \cap Unrevoked)' = {}
    BY <1>15, <2>2 DEF ReactivateRow, Unrevoked
  <2> QED
    BY <2>1, <2>2, <2>3, <2>4 DEF Untangled, Standing, Doing
<1>16. ASSUME NEW r \in Visits, FirebaseAccount(r), ~tangled' PROVE Untangled'
  <2>1. /\ visit[r].step = "firebase" /\ ~tangled
        /\ account' = [account EXCEPT !.enabled = (visit[r].op = "REACTIVATE")]
        /\ UNCHANGED <<device, older>>
    BY <1>16 DEF FirebaseAccount
  <2>2. visit[r].op \in {"SUSPEND", "REACTIVATE"} /\ r \in Standing
    BY <2>1, AtStep DEF Standing, Doing
  <2>3. /\ \A q \in Standing : q = r
        /\ visit[r].op = "SUSPEND" => ~account.active
        /\ visit[r].op = "REACTIVATE" => account.active /\ older \cap Unrevoked = {}
    BY <2>1, <2>2 DEF Untangled, Doing
  <2>4. account'.active = account.active /\ account'.enabled = (visit[r].op = "REACTIVATE")
    BY <2>1, <1>t DEF Accounts
  <2>5. (older \cap Unrevoked)' = older \cap Unrevoked
    BY <2>1 DEF Unrevoked
  <2>6. CASE visit[r].op = "REACTIVATE"
    <3>1. visit'[r] = Away /\ \A q \in Visits \ {r} : visit'[q] = visit[q]
      BY <1>16, <2>6, VisitGoes, VisitsMade DEF FirebaseAccount
    <3>2. Standing' = {}
      BY <2>3, <3>1, VisitsMade DEF Standing, Doing
    <3> QED
      BY <2>3, <2>4, <2>5, <2>6, <3>2 DEF Untangled, Standing
  <2>7. CASE visit[r].op = "SUSPEND"
    <3> DEFINE v == [visit[r] EXCEPT !.step = "revoke"]
    <3>1. v \in VisitRows /\ InStep(v) /\ v.op = "SUSPEND" /\ v.step = "revoke"
      BY <2>1, <2>7, StepOn
    <3>2. Proceeds(r, v)
      BY <1>16, <2>7 DEF FirebaseAccount
    <3> HIDE DEF v
    <3>3. visit'[r] = v /\ \A q \in Visits \ {r} : visit'[q] = visit[q]
      BY <3>1, <3>2, VisitGoes
    <3>4. Standing' = {r} /\ Doing("SUSPEND")' = {r} /\ Doing("REACTIVATE")' = {}
      BY <2>3, <3>1, <3>3 DEF Standing, Doing
    <3> QED
      BY <2>3, <2>4, <2>7, <3>4 DEF Untangled
  <2> QED
    BY <2>2, <2>6, <2>7
<1>17. ASSUME NEW r \in Visits, RevokeAll(r), ~tangled' PROVE Untangled'
  <2>1. visit[r].step = "revoke" /\ ~tangled /\ UNCHANGED <<account, older>> /\ Revoke(Unrevoked)
    BY <1>17 DEF RevokeAll
  <2>2. visit[r].op = "SUSPEND" /\ r \in Standing
    BY <2>1, AtStep DEF Standing, Doing
  <2>3. (\A q \in Standing : q = r) /\ ~account.active /\ ~account.enabled
    BY <2>1, <2>2 DEF Untangled, Doing
  <2>4. visit'[r] = Away /\ \A q \in Visits \ {r} : visit'[q] = visit[q]
    BY <1>17, VisitGoes, VisitsMade DEF RevokeAll
  <2>5. Standing' = {}
    BY <2>3, <2>4, VisitsMade DEF Standing, Doing
  <2>6. Unrevoked' = {}
    BY <2>1, DevicesRevoked DEF Unrevoked
  <2>7. account.enabled = account.active
    BY <2>3, <1>t DEF Accounts
  <2> QED
    BY <2>1, <2>5, <2>6, <2>7 DEF Untangled, Standing
<1>18. tangled' => Untangled'
  BY DEF Untangled
<1> QED
  BY <1>1, <1>2, <1>3, <1>5, <1>6, <1>7, <1>8, <1>9, <1>10, <1>11, <1>12, <1>14, <1>15, <1>16, <1>17, <1>18
     DEF SignInNext

-----------------------------------------------------------------------------
(* SignIn: codes.                                                          *)

\* A code that no two requests were sending or checking at once is with one
\* request at most, which has not opened a device if it has yet to use it.
OneOpening ==
    \A c \in Codes \ crossing :
        /\ \A r, q \in Visits : /\ visit[r].op = "VERIFY" /\ visit[r].of = c
                                /\ visit[q].op = "VERIFY" /\ visit[q].of = c
                                => r = q
        /\ \A r \in Visits : visit[r].step = "use" /\ visit[r].of = c => code[c].opened = 0
        /\ code[c].state \in {"none", "valid"} => code[c].opened = 0
        /\ code[c].opened <= 1

OneValid == \A b, c \in Valid \ crossing : b = c

CodesOnce == OneOpening /\ OneValid

\* Steps that leave the codes alone and check none of them.
LEMMA CodesAside ==
    ASSUME CodesOnce, UNCHANGED <<code, crossing>>,
           \A r \in Visits : \/ visit'[r] = visit[r]
                             \/ visit'[r].op # "VERIFY" /\ visit'[r].step # "use"
                             \/ visit[r].op = "VERIFY" /\ visit'[r].of = visit[r].of /\ visit'[r].step # "use"
    PROVE  CodesOnce'
<1>1. OneValid'
  BY DEF CodesOnce, OneValid, Valid
<1>2. OneOpening'
  BY DEF CodesOnce, OneOpening
<1> QED
  BY <1>1, <1>2 DEF CodesOnce

LEMMA CodesOnceKept == SignInTypes /\ CodesOnce /\ [SignInNext]_signInVars => CodesOnce'
<1> SUFFICES ASSUME SignInTypes, CodesOnce, [SignInNext]_signInVars PROVE CodesOnce'
  OBVIOUS
<1>t. /\ code \in [Codes -> CodeRows] /\ visit \in [Visits -> VisitRows] /\ crossing \subseteq Codes
  BY DEF SignInTypes
<1>1. CASE UNCHANGED signInVars
  BY <1>1, CodesAside DEF signInVars
<1>2. CASE MonthPasses
  BY <1>2, CodesAside DEF MonthPasses
<1>3. ASSUME NEW d \in Devices, ExchangeSession(d) \/ Logout(d) PROVE CodesOnce'
  BY <1>3, CodesAside DEF ExchangeSession, Logout
<1>4. ASSUME NEW r \in Visits, NEW v \in VisitRows, InStep(v), Proceeds(r, v),
             v.op # "VERIFY", UNCHANGED <<code, crossing>>
      PROVE  CodesOnce'
  <2>1. visit'[r] = v /\ \A q \in Visits \ {r} : visit'[q] = visit[q]
    BY <1>4, VisitGoes
  <2>2. v.step # "use"
    BY <1>4, VisitsMade DEF InStep
  <2> QED
    BY <1>4, <2>1, <2>2, CodesAside
<1>5. ASSUME NEW r \in Visits, NEW d \in Devices, IssueDeviceToken(r, d) PROVE CodesOnce'
  BY <1>4, <1>5, VisitsMade DEF IssueDeviceToken
<1>6. ASSUME NEW r \in Visits, Vanish(r) \/ RevokeAll(r) PROVE CodesOnce'
  BY <1>4, <1>6, VisitsMade DEF Vanish, RevokeAll
<1>7. ASSUME NEW r \in Visits, SuspendRow(r) \/ ReactivateRow(r) PROVE CodesOnce'
  <2>1. PICK v \in {Visit("SUSPEND", "firebase", 0), Visit("REACTIVATE", "firebase", 0)} :
           Proceeds(r, v) /\ UNCHANGED <<code, crossing>>
    BY <1>7 DEF SuspendRow, ReactivateRow
  <2>2. v \in VisitRows /\ InStep(v) /\ v.op # "VERIFY"
    BY <2>1, VisitsMade DEF Visit
  <2> QED
    BY <1>4, <2>1, <2>2
<1>8. ASSUME NEW r \in Visits, FirebaseAccount(r) PROVE CodesOnce'
  <2>1. CASE visit[r].op = "REACTIVATE"
    BY <1>4, <1>8, <2>1, VisitsMade DEF FirebaseAccount
  <2>2. CASE visit[r].op # "REACTIVATE"
    <3> DEFINE v == [visit[r] EXCEPT !.step = "revoke"]
    <3>1. v \in VisitRows /\ InStep(v) /\ v.op # "VERIFY"
      BY <1>8, <2>2, StepOn DEF FirebaseAccount
    <3>2. Proceeds(r, v) /\ UNCHANGED <<code, crossing>>
      BY <1>8, <2>2 DEF FirebaseAccount
    <3> HIDE DEF v
    <3> QED
      BY <1>4, <3>1, <3>2
  <2> QED
    BY <2>1, <2>2
<1>9. ASSUME \A c \in Codes : code'[c].opened = code[c].opened, crossing \subseteq crossing',
             \A c \in Codes \ crossing' : code'[c].state \in {"none", "valid"} => code[c].state \in {"none", "valid"},
             \A r \in Visits : visit'[r] = visit[r] \/ (visit'[r].op # "VERIFY" /\ visit'[r].step # "use")
      PROVE  OneOpening'
  <2>1. \A c \in Codes \ crossing' : c \in Codes \ crossing
    BY <1>9
  <2> QED
    BY <1>9, <2>1 DEF CodesOnce, OneOpening
<1>10. ASSUME NEW c \in Codes, OtpExpires(c) PROVE CodesOnce'
  <2>1. /\ \A b \in Codes : /\ code'[b].opened = code[b].opened
                            /\ code'[b].state \in {"none", "valid"} => code'[b].state = code[b].state
        /\ UNCHANGED <<visit, crossing>>
    BY <1>10, <1>t DEF OtpExpires, CodeRows
  <2>2. OneOpening'
    BY <1>9, <2>1
  <2>3. OneValid'
    BY <2>1 DEF CodesOnce, OneValid, Valid
  <2> QED
    BY <2>2, <2>3 DEF CodesOnce
<1>11. ASSUME NEW r \in Visits, RequestOtp(r) PROVE CodesOnce'
  <2>1. /\ \A b \in Codes : /\ code'[b].opened = code[b].opened /\ code'[b].state # "valid"
                            /\ code'[b].state = "none" => code[b].state = "none"
        /\ crossing' = crossing
    BY <1>11, <1>t DEF RequestOtp, CodeRows
  <2>2. \A q \in Visits : visit'[q] = visit[q] \/ (visit'[q].op # "VERIFY" /\ visit'[q].step # "use")
    BY <1>11, <1>t DEF RequestOtp, Proceeds, Visit
  <2>3. OneOpening'
    BY <1>9, <2>1, <2>2
  <2>4. OneValid'
    BY <2>1 DEF OneValid, Valid
  <2> QED
    BY <2>3, <2>4 DEF CodesOnce
<1>12. ASSUME NEW r \in Visits, NEW c \in Codes, CreateOtp(r, c) PROVE CodesOnce'
  <2>1. /\ \A b \in Codes \ {c} : code'[b] = code[b]
        /\ code[c].state = "none" /\ code'[c].state = "valid" /\ code'[c].opened = code[c].opened
        /\ crossing' = IF Valid = {} THEN crossing ELSE crossing \cup Valid \cup {c}
    BY <1>12, <1>t DEF CreateOtp, CodeRows
  <2>2. \A q \in Visits : visit'[q] = visit[q] \/ (visit'[q].op # "VERIFY" /\ visit'[q].step # "use")
    BY <1>12, <1>t, VisitsMade DEF CreateOtp, Proceeds
  <2>3. OneOpening'
    BY <1>9, <2>1, <2>2
  <2>4. Valid' = Valid \cup {c}
    BY <2>1 DEF Valid
  <2>5. OneValid'
    BY <2>1, <2>4 DEF OneValid
  <2> QED
    BY <2>3, <2>5 DEF CodesOnce
<1>13. ASSUME NEW r \in Visits, NEW c \in Codes, VerifyRead(r, c) PROVE CodesOnce'
  <2>1. /\ code' = code /\ code[c].state = "valid"
        /\ crossing' = IF \E q \in Doing("VERIFY") : visit[q].of = c THEN crossing \cup {c} ELSE crossing
    BY <1>13 DEF VerifyRead, FindValidOtp
  <2>2. visit'[r].op = "VERIFY" /\ visit'[r].of = c /\ \A q \in Visits \ {r} : visit'[q] = visit[q]
    BY <1>13, <1>t DEF VerifyRead, Proceeds, Visit
  <2>3. OneOpening'
    <3> SUFFICES ASSUME NEW b \in Codes, b \notin crossing'
                 PROVE  /\ \A p, q \in Visits : /\ visit'[p].op = "VERIFY" /\ visit'[p].of = b
                                                /\ visit'[q].op = "VERIFY" /\ visit'[q].of = b
                                                => p = q
                        /\ \A q \in Visits : visit'[q].step = "use" /\ visit'[q].of = b => code'[b].opened = 0
                        /\ code'[b].state \in {"none", "valid"} => code'[b].opened = 0
                        /\ code'[b].opened <= 1
      BY DEF OneOpening
    <3>1. b \notin crossing
      BY <2>1
    <3>2. CASE b # c
      BY <2>1, <2>2, <3>1, <3>2 DEF CodesOnce, OneOpening
    <3>3. CASE b = c
      <4>1. \A q \in Visits : ~(visit[q].op = "VERIFY" /\ visit[q].of = c)
        BY <2>1, <3>3 DEF Doing
      <4>2. code[c].opened = 0
        BY <2>1, <3>1, <3>3 DEF CodesOnce, OneOpening
      <4> QED
        BY <2>1, <2>2, <3>3, <4>1, <4>2
    <3> QED
      BY <3>2, <3>3
  <2>4. OneValid'
    BY <2>1 DEF CodesOnce, OneValid, Valid
  <2> QED
    BY <2>3, <2>4 DEF CodesOnce
<1>14. ASSUME NEW r \in Visits, MarkOtpAsUsed(r) PROVE CodesOnce'
  <2> DEFINE v == [visit[r] EXCEPT !.step = "trust"]
  <2>1. v \in VisitRows /\ InStep(v) /\ v.op = "VERIFY" /\ v.step = "trust" /\ v.of = visit[r].of
        /\ visit[r].op = "VERIFY" /\ visit[r].step = "use"
    BY <1>14, StepOn DEF MarkOtpAsUsed
  <2>2. Proceeds(r, v) /\ crossing' = crossing
    BY <1>14 DEF MarkOtpAsUsed
  <2> HIDE DEF v
  <2>3. visit'[r] = v /\ \A q \in Visits \ {r} : visit'[q] = visit[q]
    BY <2>1, <2>2, VisitGoes
  <2>4. PICK b \in Codes : /\ b = visit[r].of /\ code'[b].state = "used"
                           /\ code'[b].opened = code[b].opened + 1
                           /\ \A c \in Codes \ {b} : code'[c] = code[c]
    BY <1>14, CodesChange
  <2>5. OneValid'
    BY <2>2, <2>4 DEF CodesOnce, OneValid, Valid
  <2>6. OneOpening'
    <3> SUFFICES ASSUME NEW c \in Codes, c \notin crossing
                 PROVE  /\ \A p, q \in Visits : /\ visit'[p].op = "VERIFY" /\ visit'[p].of = c
                                                /\ visit'[q].op = "VERIFY" /\ visit'[q].of = c
                                                => p = q
                        /\ \A q \in Visits : visit'[q].step = "use" /\ visit'[q].of = c => code'[c].opened = 0
                        /\ code'[c].state \in {"none", "valid"} => code'[c].opened = 0
                        /\ code'[c].opened <= 1
      BY <2>2 DEF OneOpening
    <3>1. \A p, q \in Visits : /\ visit'[p].op = "VERIFY" /\ visit'[p].of = c
                               /\ visit'[q].op = "VERIFY" /\ visit'[q].of = c
                               => p = q
      BY <2>1, <2>3 DEF CodesOnce, OneOpening
    <3>2. CASE c # b
      BY <2>1, <2>3, <2>4, <3>1, <3>2 DEF CodesOnce, OneOpening
    <3>3. CASE c = b
      <4>1. code[c].opened = 0
        BY <2>1, <2>4, <3>3 DEF CodesOnce, OneOpening
      <4>2. \A q \in Visits : ~(visit'[q].step = "use" /\ visit'[q].of = c)
        <5> SUFFICES ASSUME NEW q \in Visits, visit'[q].step = "use", visit'[q].of = c PROVE FALSE
          OBVIOUS
        <5>1. q # r /\ visit'[q] = visit[q]
          BY <2>1, <2>3
        <5>2. visit[q].op = "VERIFY"
          BY <5>1, AtStep
        <5> QED
          BY <2>1, <2>4, <3>3, <5>1, <5>2 DEF CodesOnce, OneOpening
      <4> QED
        BY <2>4, <3>1, <3>3, <4>1, <4>2
    <3> QED
      BY <3>2, <3>3
  <2> QED
    BY <2>5, <2>6 DEF CodesOnce
<1> QED
  BY <1>1, <1>2, <1>3, <1>5, <1>6, <1>7, <1>8, <1>10, <1>11, <1>12, <1>13, <1>14 DEF SignInNext

\* Being suspended costs a user the devices they were trusted on, one code opens
\* one device, and no device outlives its last use and its age
\* (auth.service.ts, user.service.ts, device-token.util.ts).
THEOREM SuspensionHolds == SignInSpec => []SuspendedStartsOver
<1> DEFINE Inv == SignInTypes /\ Untangled /\ CodesOnce
<1>1. SignInInit => Inv
  <2> SUFFICES ASSUME SignInInit PROVE Untangled /\ CodesOnce
    BY SignInInitTypes
  <2>1. \A r \in Visits : visit[r].op = "none" /\ visit[r].step = "idle"
    BY VisitsMade DEF SignInInit
  <2>2. older = {} /\ account.enabled = account.active
    BY DEF SignInInit
  <2>3. \A c \in Codes : code[c].state = "none" /\ code[c].opened = 0
    BY DEF SignInInit
  <2>4. Untangled
    BY <2>1, <2>2 DEF Untangled, Standing, Doing
  <2>5. CodesOnce
    BY <2>1, <2>3 DEF CodesOnce, OneOpening, OneValid, Valid
  <2> QED
    BY <2>4, <2>5
<1>2. Inv /\ [SignInNext]_signInVars => Inv'
  BY SignInNextTypes, UntangledKept, CodesOnceKept
<1>3. Inv => SuspendedStartsOver
  <2> SUFFICES ASSUME Inv PROVE SuspendedStartsOver
    OBVIOUS
  <2>1. Standing = {} /\ ~tangled => older \cap Unrevoked = {} /\ account.enabled = account.active
    BY DEF Untangled
  <2>2. \A c \in Codes : code[c].opened > 1 => c \in crossing
    BY DEF CodesOnce, OneOpening, SignInTypes, CodeRows
  <2>3. Cardinality(Valid \ crossing) <= 1
    <3> DEFINE S == Valid \ crossing
    <3>1. IsFiniteSet(Codes) /\ S \in SUBSET Codes
      BY FS_Interval, SignInAssumption DEF Codes, Valid
    <3>2. IsFiniteSet(S) /\ \A b, c \in S : b = c
      BY <3>1, FS_Subset DEF CodesOnce, OneValid
    <3> HIDE DEF S
    <3>3. CASE S = {}
      BY <3>3, FS_EmptySet DEF S
    <3>4. CASE S # {}
      <4>1. PICK c : S = {c}
        BY <3>2, <3>4
      <4>2. Cardinality(S) = 1
        BY <4>1, FS_Singleton
      <4> QED
        BY <4>2 DEF S
    <3> QED
      BY <3>3, <3>4
  <2>4. \A d \in Devices : Usable(d) => device[d].age < device[d].used + Ttl /\ device[d].age < MaxAge
    BY SignInAssumption DEF Usable, SignInTypes, Dated, DeviceRows
  <2> QED
    BY <2>1, <2>2, <2>3, <2>4 DEF SuspendedStartsOver
<1> QED
  BY <1>1, <1>2, <1>3, PTL DEF SignInSpec

-----------------------------------------------------------------------------
(* Team: types.                                                            *)

MemberRows == [role : Roles \cup {"none", "elsewhere"}, active : BOOLEAN, works : SUBSET Events]
InviteRows == [email : Members, role : Roles \cup {"none"}, works : SUBSET Events,
               state : {"none", "open", "expired", "revoked", "accepted"}]
TaskOps == {"idle", "ROLE", "ASSIGN", "ARCHIVE", "SUSPEND", "RESTORE", "ACCEPT"}
TaskRows == [op : TaskOps, of : SUBSET Members, role : Roles \cup {"none"}, was : Roles \cup {"none"},
             works : SUBSET Events, by : SUBSET (Members \cup Invites), fresh : BOOLEAN]

\* Only an event admin's invitation names events; what accepts one has read it,
\* and found events of it left if there were any.
InvitesFit ==
    /\ \A i \in Invites : invite[i].role # "EVENT_ADMIN" => invite[i].works = {}
    /\ \A r \in TeamRequests :
          task[r].op = "ACCEPT" =>
              \A i \in task[r].by :
                 i \in Invites /\ invite[i].state # "none" /\ (task[r].works = {} <=> invite[i].works = {})

TeamTypes ==
    /\ member \in [Members -> MemberRows] /\ live \subseteq Events
    /\ suspended \in BOOLEAN /\ stale \in BOOLEAN /\ wide \subseteq Members
    /\ invite \in [Invites -> InviteRows] /\ task \in [TeamRequests -> TaskRows]
    /\ \A r \in TeamRequests : task[r].op = "ASSIGN" => task[r].by \subseteq task[r].of
    /\ InvitesFit

LEMMA RowsMade ==
    /\ \A role \in Roles \cup {"none", "elsewhere"}, active \in BOOLEAN, works \in SUBSET Events :
          LET row == Member(role, active, works)
          IN  row \in MemberRows /\ row.role = role /\ row.active = active /\ row.works = works
    /\ \A m \in Members, role \in Roles \cup {"none"}, works \in SUBSET Events,
          state \in {"none", "open", "expired", "revoked", "accepted"} :
          LET row == TeamInvite(m, role, works, state)
          IN  row \in InviteRows /\ row.email = m /\ row.role = role /\ row.works = works /\ row.state = state
BY DEF Member, MemberRows, TeamInvite, InviteRows

LEMMA TasksMade ==
    /\ NoTask \in TaskRows /\ NoTask.op = "idle" /\ NoTask.of = {} /\ NoTask.by = {} /\ NoTask.works = {}
    /\ \A op \in TaskOps, M \in SUBSET Members :
          LET t == Working(op, M)
          IN  t \in TaskRows /\ t.op = op /\ t.of = M /\ t.by = {} /\ t.works = {}
BY DEF NoTask, Working, TaskRows, TaskOps, Roles

\* A request that ends, or writes, to the members M: others' reading of them is
\* out of date.
Outdates(M) ==
    /\ task' \in [TeamRequests -> TaskRows]
    /\ \A q \in TeamRequests :
          \/ task'[q] = NoTask
          \/ /\ task'[q].op = task[q].op /\ task'[q].of = task[q].of /\ task'[q].role = task[q].role
             /\ task'[q].was = task[q].was /\ task'[q].works = task[q].works /\ task'[q].by = task[q].by
             /\ task'[q].fresh => /\ task[q].fresh /\ (task[q].op = "RESTORE" => M = {})
                                  /\ task[q].of \cap M = {}

LEMMA OutdatesIs ==
    ASSUME TeamTypes, NEW M, (\E r \in TeamRequests : Done(r, M)) \/ Wrote(M)
    PROVE  Outdates(M)
<1> DEFINE f(q) == task[q].fresh /\ (task[q].op = "RESTORE" => M = {}) /\ task[q].of \cap M = {}
           after(q) == [task[q] EXCEPT !.fresh = f(q)]
<1>1. ASSUME NEW q \in TeamRequests, NEW g \in BOOLEAN
      PROVE  LET t == [task[q] EXCEPT !.fresh = g]
             IN  /\ t \in TaskRows /\ t.op = task[q].op /\ t.of = task[q].of /\ t.role = task[q].role
                 /\ t.was = task[q].was /\ t.works = task[q].works /\ t.by = task[q].by /\ t.fresh = g
  BY DEF TeamTypes, TaskRows
<1>2. ASSUME NEW q \in TeamRequests
      PROVE  /\ after(q) \in TaskRows /\ after(q).op = task[q].op /\ after(q).of = task[q].of
             /\ after(q).role = task[q].role /\ after(q).was = task[q].was /\ after(q).works = task[q].works
             /\ after(q).by = task[q].by /\ after(q).fresh = f(q)
  <2>1. f(q) \in BOOLEAN
    BY DEF TeamTypes, TaskRows
  <2> HIDE DEF f
  <2> QED
    BY <1>1, <2>1
<1>3. \/ \E r \in TeamRequests : task' = [q \in TeamRequests |-> IF q = r THEN NoTask ELSE after(q)]
      \/ task' = [q \in TeamRequests |-> after(q)]
  BY DEF Done, Wrote
<1> HIDE DEF after
<1>4. task' \in [TeamRequests -> TaskRows] /\ \A q \in TeamRequests : task'[q] = NoTask \/ task'[q] = after(q)
  BY <1>2, <1>3, TasksMade
<1> QED
  BY <1>2, <1>4 DEF Outdates

\* What a request reads is its own.
LEMMA BeginsIs ==
    ASSUME TeamTypes, NEW r \in TeamRequests, NEW t \in TaskRows, Begins(r, t)
    PROVE  /\ task' \in [TeamRequests -> TaskRows] /\ task'[r] = t
           /\ \A q \in TeamRequests \ {r} : task'[q] = task[q]
BY DEF TeamTypes, Begins

\* The readings, each with what it keeps of what it read.
Readings(r) ==
    \/ \E m \in Members, role \in Roles : UpdateRead(r, m, role)
    \/ \E m \in Members, works \in SUBSET Events, confirmed \in BOOLEAN : AssignRead(r, m, works, confirmed)
    \/ \E m \in Members : ArchiveMemberRead(r, m)
    \/ SuspendWorkspaceRead(r) \/ RestoreWorkspaceRead(r)
    \/ \E i \in Invites : AcceptRead(r, i)

\* What is true of a task whose reading is not out of date.
Reads(t) ==
    /\ t.op \in {"ROLE", "ARCHIVE"} =>
          t.was \in Roles /\ \A m \in t.of : member[m].role = t.was /\ member[m].active
    /\ t.op = "ASSIGN" =>
          \A m \in t.of : member[m].role = "EVENT_ADMIN" /\ (t.works = {} => member[m].works = {} \/ m \in t.by)
    /\ t.op = "RESTORE" => t.of = {m \in Members : Here(m) /\ ~member[m].active}

LEMMA ReadingIs ==
    ASSUME TeamTypes, NEW r \in TeamRequests, Readings(r)
    PROVE  /\ UNCHANGED <<member, live, invite, suspended, wide, stale>>
           /\ \E t \in TaskRows :
                 /\ Begins(r, t) /\ Reads(t)
                 /\ t.op = "ASSIGN" => t.by \subseteq t.of
                 /\ t.op = "ACCEPT" => \A i \in t.by : /\ i \in Invites /\ invite[i].state # "none"
                                                       /\ t.works = {} <=> invite[i].works = {}
<1>0. UNCHANGED <<member, live, invite, suspended, wide, stale>>
  BY DEF Readings, UpdateRead, AssignRead, ArchiveMemberRead, SuspendWorkspaceRead, RestoreWorkspaceRead, AcceptRead
<1>t. member \in [Members -> MemberRows] /\ live \subseteq Events /\ invite \in [Invites -> InviteRows]
  BY DEF TeamTypes
<1>o. {"ROLE", "ASSIGN", "ARCHIVE", "SUSPEND", "RESTORE", "ACCEPT"} \subseteq TaskOps
  BY DEF TaskOps
<1>1. ASSUME NEW m \in Members, NEW role \in Roles, UpdateRead(r, m, role)
      PROVE  \E t \in TaskRows : Begins(r, t) /\ Reads(t) /\ t.op = "ROLE"
  <2> DEFINE w == Working("ROLE", {m})
             t == [w EXCEPT !.role = role, !.was = member[m].role]
  <2>1. w \in TaskRows /\ w.op = "ROLE" /\ w.of = {m}
    BY <1>o, TasksMade
  <2>2. member[m].role \in Roles /\ member[m].active /\ Begins(r, t)
    BY <1>1 DEF UpdateRead, Here, Roles
  <2> HIDE DEF w
  <2>3. t \in TaskRows /\ t.op = "ROLE" /\ t.of = {m} /\ t.was = member[m].role
    BY <2>1, <2>2 DEF TaskRows
  <2> HIDE DEF t
  <2> QED
    BY <2>2, <2>3 DEF Reads
<1>2. ASSUME NEW m \in Members, NEW works \in SUBSET Events, NEW confirmed \in BOOLEAN,
             AssignRead(r, m, works, confirmed)
      PROVE  \E t \in TaskRows : Begins(r, t) /\ Reads(t) /\ t.op = "ASSIGN" /\ t.by \subseteq t.of
  <2> DEFINE w == Working("ASSIGN", {m})
             by == IF confirmed THEN {m} ELSE {}
             t == [w EXCEPT !.works = works, !.by = by]
  <2>1. w \in TaskRows /\ w.op = "ASSIGN" /\ w.of = {m}
    BY <1>o, TasksMade
  <2>2. /\ member[m].role = "EVENT_ADMIN" /\ Begins(r, t)
        /\ works # {} \/ member[m].works = {} \/ confirmed
    BY <1>2 DEF AssignRead
  <2>3. by \in SUBSET (Members \cup Invites) /\ by \subseteq {m} /\ (confirmed => m \in by)
    OBVIOUS
  <2> HIDE DEF w, by
  <2>4. t \in TaskRows /\ t.op = "ASSIGN" /\ t.of = {m} /\ t.works = works /\ t.by = by
    BY <2>1, <2>3 DEF TaskRows
  <2> HIDE DEF t
  <2> QED
    BY <2>2, <2>3, <2>4 DEF Reads
<1>3. ASSUME NEW m \in Members, ArchiveMemberRead(r, m)
      PROVE  \E t \in TaskRows : Begins(r, t) /\ Reads(t) /\ t.op = "ARCHIVE"
  <2> DEFINE w == Working("ARCHIVE", {m})
             t == [w EXCEPT !.was = member[m].role]
  <2>1. w \in TaskRows /\ w.op = "ARCHIVE" /\ w.of = {m}
    BY <1>o, TasksMade
  <2>2. member[m].role \in Roles /\ member[m].active /\ Begins(r, t)
    BY <1>3 DEF ArchiveMemberRead, Here, Roles
  <2> HIDE DEF w
  <2>3. t \in TaskRows /\ t.op = "ARCHIVE" /\ t.of = {m} /\ t.was = member[m].role
    BY <2>1, <2>2 DEF TaskRows
  <2> HIDE DEF t
  <2> QED
    BY <2>2, <2>3 DEF Reads
<1>4. ASSUME SuspendWorkspaceRead(r)
      PROVE  \E t \in TaskRows : Begins(r, t) /\ Reads(t) /\ t.op = "SUSPEND"
  <2> DEFINE M == {m \in Members : Here(m) /\ member[m].active}
             t == Working("SUSPEND", M)
  <2>1. Begins(r, t) /\ M \in SUBSET Members
    BY <1>4 DEF SuspendWorkspaceRead
  <2> HIDE DEF M
  <2>2. t \in TaskRows /\ t.op = "SUSPEND"
    BY <1>o, <2>1, TasksMade
  <2> HIDE DEF t
  <2> QED
    BY <2>1, <2>2 DEF Reads
<1>5. ASSUME RestoreWorkspaceRead(r)
      PROVE  \E t \in TaskRows : Begins(r, t) /\ Reads(t) /\ t.op = "RESTORE"
  <2> DEFINE M == {m \in Members : Here(m) /\ ~member[m].active}
             t == Working("RESTORE", M)
  <2>1. Begins(r, t) /\ M \in SUBSET Members
    BY <1>5 DEF RestoreWorkspaceRead
  <2>2. t \in TaskRows /\ t.op = "RESTORE" /\ t.of = M
    <3> HIDE DEF M
    <3> QED
      BY <1>o, <2>1, TasksMade
  <2> HIDE DEF t
  <2> QED
    BY <2>1, <2>2 DEF Reads
<1>6. ASSUME NEW i \in Invites, AcceptRead(r, i)
      PROVE  \E t \in TaskRows :
                /\ Begins(r, t) /\ Reads(t) /\ t.op = "ACCEPT"
                /\ \A j \in t.by : /\ j \in Invites /\ invite[j].state # "none"
                                   /\ t.works = {} <=> invite[j].works = {}
  <2> DEFINE left == invite[i].works \cap live
             t == [NoTask EXCEPT !.op = "ACCEPT", !.by = {i}, !.works = left]
  <2>1. /\ Begins(r, t) /\ left \in SUBSET Events /\ invite[i].state # "none"
        /\ left = {} <=> invite[i].works = {}
    BY <1>6, <1>t DEF AcceptRead, LinkWorks, Open
  <2> HIDE DEF left
  <2>2. t \in TaskRows /\ t.op = "ACCEPT" /\ t.by = {i} /\ t.works = left
    <3>1. NoTask \in TaskRows /\ {i} \in SUBSET (Members \cup Invites) /\ "ACCEPT" \in TaskOps
      BY <1>o, TasksMade
    <3> QED
      BY <2>1, <3>1 DEF TaskRows
  <2> HIDE DEF t
  <2> QED
    BY <2>1, <2>2 DEF Reads
<1> DEFINE Fits(t) ==
              /\ Begins(r, t) /\ Reads(t)
              /\ t.op = "ASSIGN" => t.by \subseteq t.of
              /\ t.op = "ACCEPT" => \A i \in t.by : /\ i \in Invites /\ invite[i].state # "none"
                                                    /\ t.works = {} <=> invite[i].works = {}
<1>7. \E t \in TaskRows : Fits(t)
  <2>1. CASE \E m \in Members, role \in Roles : UpdateRead(r, m, role)
    <3>1. PICK t \in TaskRows : Begins(r, t) /\ Reads(t) /\ t.op = "ROLE"
      BY <1>1, <2>1
    <3> QED
      BY <3>1
  <2>2. CASE \E m \in Members, works \in SUBSET Events, confirmed \in BOOLEAN : AssignRead(r, m, works, confirmed)
    <3>1. PICK t \in TaskRows : Begins(r, t) /\ Reads(t) /\ t.op = "ASSIGN" /\ t.by \subseteq t.of
      BY <1>2, <2>2
    <3> QED
      BY <3>1
  <2>3. CASE \E m \in Members : ArchiveMemberRead(r, m)
    <3>1. PICK t \in TaskRows : Begins(r, t) /\ Reads(t) /\ t.op = "ARCHIVE"
      BY <1>3, <2>3
    <3> QED
      BY <3>1
  <2>4. CASE SuspendWorkspaceRead(r)
    <3>1. PICK t \in TaskRows : Begins(r, t) /\ Reads(t) /\ t.op = "SUSPEND"
      BY <1>4, <2>4
    <3> QED
      BY <3>1
  <2>5. CASE RestoreWorkspaceRead(r)
    <3>1. PICK t \in TaskRows : Begins(r, t) /\ Reads(t) /\ t.op = "RESTORE"
      BY <1>5, <2>5
    <3> QED
      BY <3>1
  <2>6. CASE \E i \in Invites : AcceptRead(r, i)
    <3>1. PICK t \in TaskRows :
             /\ Begins(r, t) /\ Reads(t) /\ t.op = "ACCEPT"
             /\ \A j \in t.by : /\ j \in Invites /\ invite[j].state # "none"
                                /\ t.works = {} <=> invite[j].works = {}
      BY <1>6, <2>6
    <3> QED
      BY <3>1
  <2> QED
    BY <2>1, <2>2, <2>3, <2>4, <2>5, <2>6 DEF Readings
<1> QED
  BY <1>0, <1>7

\* A member with another role and list, or let in or kept out.
LEMMA MemberPut ==
    ASSUME TeamTypes, NEW m \in Members
    PROVE  /\ \A role \in Roles \cup {"none"}, works \in SUBSET Events :
                 LET row == [member[m] EXCEPT !.role = role, !.works = works]
                 IN  /\ row \in MemberRows /\ row.role = role /\ row.works = works /\ row.active = member[m].active
                     /\ row = member[m] <=> (role = member[m].role /\ works = member[m].works)
           /\ \A works \in SUBSET Events :
                 LET row == [member[m] EXCEPT !.works = works]
                 IN  /\ row \in MemberRows /\ row.role = member[m].role /\ row.works = works
                     /\ row.active = member[m].active /\ (works = member[m].works => row = member[m])
           /\ \A active \in BOOLEAN :
                 LET row == [member[m] EXCEPT !.active = active]
                 IN  /\ row \in MemberRows /\ row.role = member[m].role /\ row.works = member[m].works
                     /\ row.active = active /\ (active = member[m].active => row = member[m])
BY DEF TeamTypes, MemberRows

\* A change of role, or a refusal to be without an admin.
LEMMA UpdateIs ==
    ASSUME TeamTypes, NEW r \in TeamRequests, NEW m \in Members, Update(r, m)
    PROVE  /\ task[r].op = "ROLE" /\ task[r].of = {m} /\ UNCHANGED <<live, invite, suspended>>
           /\ \/ UNCHANGED <<member, wide, stale>> /\ Outdates({})
              \/ /\ task[r].role # task[r].was /\ task[r].was = "TENANT_ADMIN" => OtherAdmins(m) # {}
                 /\ member' \in [Members -> MemberRows] /\ \A o \in Members \ {m} : member'[o] = member[o]
                 /\ member'[m].role = task[r].role /\ member'[m].active = member[m].active
                 /\ member'[m].works = IF task[r].role # task[r].was /\ task[r].role # "EVENT_ADMIN"
                                       THEN {} ELSE member[m].works
                 /\ wide' = IF task[r].role = "TENANT_ADMIN" THEN wide \cup {m} ELSE wide
                 /\ stale' = (stale \/ ~task[r].fresh)
                 /\ Outdates(IF member'[m] = member[m] THEN {} ELSE {m})
<1> DEFINE t == task[r]
           works == IF t.role # t.was /\ t.role # "EVENT_ADMIN" THEN {} ELSE member[m].works
           row == [member[m] EXCEPT !.role = t.role, !.works = works]
<1>1. t.op = "ROLE" /\ t.of = {m} /\ UNCHANGED <<live, invite, suspended>>
  BY DEF Update
<1>2. t.role \in Roles \cup {"none"} /\ works \in SUBSET Events /\ member \in [Members -> MemberRows]
  BY DEF TeamTypes, TaskRows, MemberRows
<1>3. row \in MemberRows /\ row.role = t.role /\ row.works = works /\ row.active = member[m].active
  <2>1. ASSUME NEW role \in Roles \cup {"none"}, NEW list \in SUBSET Events
        PROVE  LET new == [member[m] EXCEPT !.role = role, !.works = list]
               IN  new \in MemberRows /\ new.role = role /\ new.works = list /\ new.active = member[m].active
    BY DEF TeamTypes, MemberRows
  <2> HIDE DEF works, t
  <2> QED
    BY <1>2, <2>1, Zenon
<1>4. CASE t.role # t.was /\ t.was = "TENANT_ADMIN" /\ OtherAdmins(m) = {}
  <2>1. Done(r, {}) /\ UNCHANGED <<member, wide, stale>>
    BY <1>4 DEF Update
  <2> QED
    BY <1>1, <2>1, OutdatesIs
<1>5. CASE ~(t.role # t.was /\ t.was = "TENANT_ADMIN" /\ OtherAdmins(m) = {})
  <2>1. /\ member' = [member EXCEPT ![m].role = t.role,
                            ![m].works = IF t.role # t.was /\ t.role # "EVENT_ADMIN" THEN {} ELSE @]
        /\ wide' = IF t.role = "TENANT_ADMIN" THEN wide \cup {m} ELSE wide
        /\ stale' = (stale \/ ~t.fresh)
        /\ Done(r, IF member'[m] = member[m] THEN {} ELSE {m})
    BY <1>5, Zenon DEF Update
  <2>2. member' = [member EXCEPT ![m] = row]
    BY <1>2, <2>1 DEF MemberRows
  <2>3. Outdates(IF member'[m] = member[m] THEN {} ELSE {m})
    BY <2>1, OutdatesIs
  <2> HIDE DEF row, works
  <2>4. member' \in [Members -> MemberRows] /\ member'[m] = row /\ \A o \in Members \ {m} : member'[o] = member[o]
    BY <1>2, <1>3, <2>2
  <2> QED
    BY <1>1, <1>3, <1>5, <2>1, <2>3, <2>4 DEF works
<1> QED
  BY <1>4, <1>5

LEMMA ReplaceIs ==
    ASSUME TeamTypes, NEW r \in TeamRequests, NEW m \in Members, ReplaceForUser(r, m)
    PROVE  /\ task[r].op = "ASSIGN" /\ task[r].of = {m} /\ UNCHANGED <<live, invite, suspended>>
           /\ member' \in [Members -> MemberRows] /\ \A o \in Members \ {m} : member'[o] = member[o]
           /\ member'[m].role = member[m].role /\ member'[m].active = member[m].active
           /\ member'[m].works = task[r].works
           /\ wide' = IF task[r].works = {} THEN wide \cup task[r].by ELSE wide \ {m}
           /\ stale' = (stale \/ ~task[r].fresh)
           /\ Outdates(IF member'[m] = member[m] THEN {} ELSE {m})
<1> DEFINE row == [member[m] EXCEPT !.works = task[r].works]
<1>1. /\ task[r].op = "ASSIGN" /\ task[r].of = {m} /\ UNCHANGED <<live, invite, suspended>>
      /\ wide' = IF task[r].works = {} THEN wide \cup task[r].by ELSE wide \ {m}
      /\ stale' = (stale \/ ~task[r].fresh)
      /\ member' = [member EXCEPT ![m] = row]
      /\ Done(r, IF member[m].works = task[r].works THEN {} ELSE {m})
  BY DEF ReplaceForUser
<1>2. task[r].works \in SUBSET Events /\ member \in [Members -> MemberRows]
  BY DEF TeamTypes, TaskRows
<1>3. /\ row \in MemberRows /\ row.role = member[m].role /\ row.works = task[r].works
      /\ row.active = member[m].active /\ (task[r].works = member[m].works => row = member[m])
  BY <1>2, MemberPut
<1> HIDE DEF row
<1>4. member' \in [Members -> MemberRows] /\ member'[m] = row /\ \A o \in Members \ {m} : member'[o] = member[o]
  BY <1>1, <1>2, <1>3
<1>5. (IF member[m].works = task[r].works THEN {} ELSE {m}) = (IF member'[m] = member[m] THEN {} ELSE {m})
  BY <1>3, <1>4
<1>6. Outdates(IF member'[m] = member[m] THEN {} ELSE {m})
  BY <1>1, <1>5, OutdatesIs
<1> QED
  BY <1>1, <1>3, <1>4, <1>6

LEMMA ArchiveIs ==
    ASSUME TeamTypes, NEW r \in TeamRequests, NEW m \in Members, ArchiveMember(r, m)
    PROVE  /\ task[r].op = "ARCHIVE" /\ task[r].of = {m} /\ UNCHANGED <<live, invite, suspended, wide>>
           /\ \/ UNCHANGED <<member, stale>> /\ Outdates({})
              \/ /\ task[r].was = "TENANT_ADMIN" => OtherAdmins(m) # {}
                 /\ member' \in [Members -> MemberRows] /\ \A o \in Members \ {m} : member'[o] = member[o]
                 /\ member'[m].role = member[m].role /\ member'[m].works = member[m].works
                 /\ ~member'[m].active /\ stale' = (stale \/ ~task[r].fresh)
                 /\ Outdates(IF member'[m] = member[m] THEN {} ELSE {m})
<1> DEFINE row == [member[m] EXCEPT !.active = FALSE]
<1>1. task[r].op = "ARCHIVE" /\ task[r].of = {m} /\ UNCHANGED <<live, invite, suspended, wide>>
  BY DEF ArchiveMember
<1>2. member \in [Members -> MemberRows] /\ member[m].active \in BOOLEAN
  BY DEF TeamTypes, MemberRows
<1>3. /\ row \in MemberRows /\ row.role = member[m].role /\ row.works = member[m].works
      /\ row.active = FALSE /\ (FALSE = member[m].active => row = member[m])
  BY MemberPut
<1>4. CASE task[r].was = "TENANT_ADMIN" /\ OtherAdmins(m) = {}
  <2>1. Done(r, {}) /\ UNCHANGED <<member, stale>>
    BY <1>4 DEF ArchiveMember
  <2> QED
    BY <1>1, <2>1, OutdatesIs
<1>5. CASE ~(task[r].was = "TENANT_ADMIN" /\ OtherAdmins(m) = {})
  <2>1. /\ member' = [member EXCEPT ![m] = row] /\ stale' = (stale \/ ~task[r].fresh)
        /\ Done(r, IF member[m].active THEN {m} ELSE {})
    BY <1>5 DEF ArchiveMember
  <2> HIDE DEF row
  <2>2. member' \in [Members -> MemberRows] /\ member'[m] = row /\ \A o \in Members \ {m} : member'[o] = member[o]
    BY <1>2, <1>3, <2>1
  <2>3. (IF member[m].active THEN {m} ELSE {}) = (IF member'[m] = member[m] THEN {} ELSE {m})
    BY <1>2, <1>3, <2>2
  <2>4. Outdates(IF member'[m] = member[m] THEN {} ELSE {m})
    BY <2>1, <2>3, OutdatesIs
  <2> QED
    BY <1>1, <1>3, <1>5, <2>1, <2>2, <2>4
<1> QED
  BY <1>4, <1>5

\* A member who is created, or let in again.
LEMMA ArrivalIs ==
    ASSUME TeamTypes, NEW m \in Members
    PROVE  /\ Register(m) => /\ ~HasAccount(m) /\ member' = [member EXCEPT ![m] = Member("elsewhere", TRUE, {})]
                             /\ member' \in [Members -> MemberRows]
           /\ \A role \in Roles :
                 Create(m, role) => /\ ~HasAccount(m) /\ member' = [member EXCEPT ![m] = Member(role, TRUE, {})]
                                    /\ member' \in [Members -> MemberRows] /\ Outdates({m})
           /\ Reactivate(m) => /\ member' \in [Members -> MemberRows] /\ Outdates({m})
                               /\ \A o \in Members \ {m} : member'[o] = member[o]
                               /\ member'[m].role = member[m].role /\ member'[m].works = member[m].works
                               /\ member'[m].active
<1>1. \A role \in Roles \cup {"elsewhere"} : Member(role, TRUE, {}) \in MemberRows
  BY RowsMade
<1>2. Register(m) => /\ ~HasAccount(m) /\ member' = [member EXCEPT ![m] = Member("elsewhere", TRUE, {})]
                     /\ member' \in [Members -> MemberRows]
  BY <1>1 DEF Register, TeamTypes
<1>3. ASSUME NEW role \in Roles, Create(m, role)
      PROVE  /\ ~HasAccount(m) /\ member' = [member EXCEPT ![m] = Member(role, TRUE, {})]
             /\ member' \in [Members -> MemberRows] /\ Outdates({m})
  BY <1>1, <1>3, OutdatesIs DEF Create, TeamTypes
<1>4. ASSUME Reactivate(m)
      PROVE  /\ member' \in [Members -> MemberRows] /\ Outdates({m})
             /\ \A o \in Members \ {m} : member'[o] = member[o]
             /\ member'[m].role = member[m].role /\ member'[m].works = member[m].works
             /\ member'[m].active
  <2> DEFINE row == [member[m] EXCEPT !.active = TRUE]
  <2>1. row \in MemberRows /\ row.role = member[m].role /\ row.works = member[m].works /\ row.active = TRUE
    BY MemberPut
  <2>2. member' = [member EXCEPT ![m] = row] /\ Outdates({m}) /\ member \in [Members -> MemberRows]
    BY <1>4, OutdatesIs DEF Reactivate, TeamTypes
  <2> HIDE DEF row
  <2> QED
    BY <2>1, <2>2
<1> QED
  BY <1>2, <1>3, <1>4

\* All the members at once.
LEMMA WorkspaceIs ==
    ASSUME TeamTypes, NEW r \in TeamRequests, SuspendWorkspace(r) \/ RestoreWorkspace(r)
    PROVE  /\ UNCHANGED <<live, invite, wide>> /\ member' \in [Members -> MemberRows]
           /\ \A m \in Members : member'[m].role = member[m].role /\ member'[m].works = member[m].works
           /\ Outdates({m \in Members : member'[m] # member[m]})
           /\ \/ suspended' = TRUE /\ stale' = stale
              \/ /\ task[r].op = "RESTORE" /\ suspended' = FALSE /\ stale' = (stale \/ ~task[r].fresh)
                 /\ \A m \in Members : member'[m].active = (member[m].active \/ m \in task[r].of)
<1> DEFINE lets(m) == IF SuspendWorkspace(r) THEN member[m].active /\ m \notin task[r].of
                      ELSE member[m].active \/ m \in task[r].of
           row(m) == [member[m] EXCEPT !.active = lets(m)]
<1>0. task[r].of \subseteq Members
  BY DEF TeamTypes, TaskRows
<1>1. \A m \in Members : lets(m) \in BOOLEAN /\ member[m].active \in BOOLEAN
  BY DEF TeamTypes, MemberRows, TaskRows
<1>2. ASSUME NEW m \in Members
      PROVE  /\ row(m) \in MemberRows /\ row(m).role = member[m].role /\ row(m).works = member[m].works
             /\ row(m).active = lets(m) /\ (lets(m) = member[m].active => row(m) = member[m])
  <2> HIDE DEF lets
  <2> QED
    BY <1>1, MemberPut
<1>3. UNCHANGED <<live, invite, wide>> /\ member' = [m \in Members |-> row(m)]
  BY DEF SuspendWorkspace, RestoreWorkspace
<1>4. CASE SuspendWorkspace(r)
  <2>1. Outdates({m \in task[r].of : member[m].active}) /\ suspended' = TRUE /\ stale' = stale
    BY <1>4, OutdatesIs DEF SuspendWorkspace
  <2>2. \A m \in Members : lets(m) = (member[m].active /\ m \notin task[r].of)
    BY <1>4
  <2> HIDE DEF row, lets
  <2>3. ASSUME NEW m \in Members
        PROVE  (m \in task[r].of /\ member[m].active) <=> member'[m] # member[m]
    <3>1. member'[m] = row(m)
      BY <1>3
    <3>2. row(m).active = lets(m) /\ (lets(m) = member[m].active => row(m) = member[m])
      BY <1>2
    <3>3. (lets(m) = member[m].active) <=> ~(m \in task[r].of /\ member[m].active)
      BY <1>1, <2>2
    <3> QED
      BY <3>1, <3>2, <3>3
  <2>4. {m \in task[r].of : member[m].active} = {m \in Members : member'[m] # member[m]}
    BY <1>0, <2>3, Zenon
  <2> QED
    BY <1>2, <1>3, <2>1, <2>4
<1>5. CASE RestoreWorkspace(r)
  <2>0. task[r].op = "RESTORE" /\ ~SuspendWorkspace(r)
    BY <1>5 DEF RestoreWorkspace, SuspendWorkspace
  <2>1. /\ Outdates({m \in task[r].of : ~member[m].active}) /\ suspended' = FALSE
        /\ stale' = (stale \/ ~task[r].fresh)
    BY <1>5, OutdatesIs DEF RestoreWorkspace
  <2>2. \A m \in Members : lets(m) = (member[m].active \/ m \in task[r].of)
    BY <2>0
  <2> HIDE DEF row, lets
  <2>3. ASSUME NEW m \in Members
        PROVE  (m \in task[r].of /\ ~member[m].active) <=> member'[m] # member[m]
    <3>1. member'[m] = row(m)
      BY <1>3
    <3>2. row(m).active = lets(m) /\ (lets(m) = member[m].active => row(m) = member[m])
      BY <1>2
    <3>3. (lets(m) = member[m].active) <=> ~(m \in task[r].of /\ ~member[m].active)
      BY <1>1, <2>2
    <3> QED
      BY <3>1, <3>2, <3>3
  <2>4. {m \in task[r].of : ~member[m].active} = {m \in Members : member'[m] # member[m]}
    BY <1>0, <2>3, Zenon
  <2> QED
    BY <1>2, <1>3, <2>0, <2>1, <2>2, <2>4
<1> QED
  BY <1>4, <1>5

\* An invitation that is accepted, unless it was taken.
LEMMA AcceptIs ==
    ASSUME TeamTypes, NEW r \in TeamRequests, NEW i \in Invites, AcceptInvite(r, i)
    PROVE  /\ task[r].op = "ACCEPT" /\ task[r].by = {i} /\ UNCHANGED <<live, suspended, stale>>
           /\ \/ UNCHANGED <<invite, member, wide>> /\ Outdates({})
              \/ \E m \in Members :
                    /\ m = invite[i].email /\ ~HasAccount(m) /\ Open(i)
                    /\ invite' = [invite EXCEPT ![i].state = "accepted"]
                    /\ member' = [member EXCEPT ![m] = Member(invite[i].role, TRUE, task[r].works)]
                    /\ wide' = IF invite[i].works = {} THEN wide \cup {m} ELSE wide
                    /\ Outdates({m})
<1>1. task[r].op = "ACCEPT" /\ task[r].by = {i} /\ UNCHANGED <<live, suspended, stale>>
  BY DEF AcceptInvite
<1>2. CASE Open(i) /\ ~HasAccount(invite[i].email)
  <2>1. invite[i].email \in Members
    BY DEF TeamTypes, InviteRows
  <2>2. /\ invite' = [invite EXCEPT ![i].state = "accepted"]
        /\ member' = [member EXCEPT ![invite[i].email] = Member(invite[i].role, TRUE, task[r].works)]
        /\ wide' = IF invite[i].works = {} THEN wide \cup {invite[i].email} ELSE wide
        /\ Done(r, {invite[i].email})
    BY <1>2, Zenon DEF AcceptInvite
  <2>3. Outdates({invite[i].email})
    BY <2>2, OutdatesIs
  <2> QED
    BY <1>1, <1>2, <2>1, <2>2, <2>3, Zenon
<1>3. CASE ~(Open(i) /\ ~HasAccount(invite[i].email))
  <2>1. Done(r, {}) /\ UNCHANGED <<invite, member, wide>>
    BY <1>3, Zenon DEF AcceptInvite
  <2> QED
    BY <1>1, <2>1, OutdatesIs
<1> QED
  BY <1>2, <1>3

-----------------------------------------------------------------------------
(* Team: every step keeps the types.                                       *)

\* What keeps the types: no invitation somebody accepts changes its events.
LEMMA TypesStay ==
    ASSUME TeamTypes, UNCHANGED task \/ (\E M \in SUBSET Members : Outdates(M)),
           member' \in [Members -> MemberRows], live' \subseteq Events, suspended' \in BOOLEAN,
           stale' \in BOOLEAN, wide' \subseteq Members, invite' \in [Invites -> InviteRows],
           \A i \in Invites :
              /\ invite'[i].role # "EVENT_ADMIN" => invite'[i].works = {}
              /\ invite[i].state # "none" => invite'[i].state # "none" /\ invite'[i].works = invite[i].works
    PROVE  TeamTypes'
<1>1. /\ task' \in [TeamRequests -> TaskRows]
      /\ \A q \in TeamRequests : \/ task'[q] = NoTask
                                 \/ /\ task'[q].op = task[q].op /\ task'[q].of = task[q].of
                                    /\ task'[q].works = task[q].works /\ task'[q].by = task[q].by
  BY DEF TeamTypes, Outdates
<1>2. \A q \in TeamRequests : task'[q].op = "ASSIGN" => task'[q].by \subseteq task'[q].of
  BY <1>1, TasksMade DEF TeamTypes
<1>3. InvitesFit'
  <2>1. ASSUME NEW q \in TeamRequests, task'[q].op = "ACCEPT", NEW i \in task'[q].by
        PROVE  /\ i \in Invites /\ invite'[i].state # "none"
               /\ task'[q].works = {} <=> invite'[i].works = {}
    <3>1. /\ task'[q].op = task[q].op /\ task'[q].works = task[q].works /\ task'[q].by = task[q].by
      BY <1>1, <2>1, TasksMade
    <3>2. /\ i \in Invites /\ invite[i].state # "none"
          /\ task[q].works = {} <=> invite[i].works = {}
      BY <2>1, <3>1 DEF TeamTypes, InvitesFit
    <3> QED
      BY <3>1, <3>2
  <2> QED
    BY <2>1 DEF InvitesFit
<1> QED
  BY <1>1, <1>2, <1>3 DEF TeamTypes

\* The steps that touch no invitation and no request's reading but by a write.
LEMMA WriteTypes ==
    ASSUME TeamTypes, UNCHANGED task \/ (\E M \in SUBSET Members : Outdates(M)), UNCHANGED invite,
           member' \in [Members -> MemberRows], live' \subseteq Events, suspended' \in BOOLEAN,
           stale' \in BOOLEAN, wide' \subseteq Members
    PROVE  TeamTypes'
BY TypesStay DEF TeamTypes, InvitesFit

LEMMA ReadTypes ==
    ASSUME TeamTypes, NEW r \in TeamRequests, Readings(r)
    PROVE  TeamTypes'
<1>0. UNCHANGED <<member, live, invite, suspended, wide, stale>>
  BY ReadingIs
<1>1. PICK t \in TaskRows :
         /\ Begins(r, t)
         /\ t.op = "ASSIGN" => t.by \subseteq t.of
         /\ t.op = "ACCEPT" => \A i \in t.by : /\ i \in Invites /\ invite[i].state # "none"
                                               /\ t.works = {} <=> invite[i].works = {}
  BY ReadingIs
<1>2. /\ task' \in [TeamRequests -> TaskRows] /\ task'[r] = t
      /\ \A q \in TeamRequests \ {r} : task'[q] = task[q]
  BY <1>1, BeginsIs
<1>3. \A q \in TeamRequests : task'[q].op = "ASSIGN" => task'[q].by \subseteq task'[q].of
  BY <1>1, <1>2 DEF TeamTypes
<1>4. InvitesFit'
  BY <1>0, <1>1, <1>2 DEF TeamTypes, InvitesFit
<1> QED
  BY <1>0, <1>2, <1>3, <1>4 DEF TeamTypes

\* An invitation in another state.
LEMMA InviteMoves ==
    ASSUME TeamTypes, NEW i \in Invites, NEW state \in {"open", "expired", "revoked", "accepted"},
           invite' = [invite EXCEPT ![i].state = state]
    PROVE  /\ invite' \in [Invites -> InviteRows]
           /\ \A j \in Invites :
                 /\ invite'[j].role # "EVENT_ADMIN" => invite'[j].works = {}
                 /\ invite[j].state # "none" => invite'[j].state # "none" /\ invite'[j].works = invite[j].works
<1> DEFINE row == [invite[i] EXCEPT !.state = state]
<1>1. /\ row \in InviteRows /\ row.role = invite[i].role /\ row.works = invite[i].works
      /\ row.state = state /\ state # "none" /\ invite \in [Invites -> InviteRows]
  BY DEF TeamTypes, InviteRows
<1>2. invite' = [invite EXCEPT ![i] = row]
  OBVIOUS
<1> HIDE DEF row
<1>3. invite' \in [Invites -> InviteRows] /\ invite'[i] = row /\ \A j \in Invites \ {i} : invite'[j] = invite[j]
  BY <1>1, <1>2
<1>4. \A j \in Invites : invite[j].role # "EVENT_ADMIN" => invite[j].works = {}
  BY DEF TeamTypes, InvitesFit
<1> QED
  BY <1>1, <1>3, <1>4

\* The invitations' own steps, that nobody's reading depends on.
InviteSteps(i) ==
    \/ Resend(i) \/ InviteExpires(i) \/ RevokeInvite(i)
    \/ \E m \in Members, role \in Roles, works \in SUBSET Events : CreateInvite(i, m, role, works)

LEMMA InviteTypes ==
    ASSUME TeamTypes, NEW i \in Invites, InviteSteps(i)
    PROVE  TeamTypes' /\ UNCHANGED <<member, live, suspended, task, wide, stale>>
<1>0. UNCHANGED <<member, live, suspended, task, wide, stale>>
  BY DEF InviteSteps, Resend, InviteExpires, RevokeInvite, CreateInvite
<1>1. /\ invite' \in [Invites -> InviteRows]
      /\ \A j \in Invites :
            /\ invite'[j].role # "EVENT_ADMIN" => invite'[j].works = {}
            /\ invite[j].state # "none" => invite'[j].state # "none" /\ invite'[j].works = invite[j].works
  <2>1. CASE Resend(i)
    BY <2>1, InviteMoves DEF Resend
  <2>2. CASE InviteExpires(i)
    BY <2>2, InviteMoves DEF InviteExpires
  <2>3. CASE RevokeInvite(i)
    BY <2>3, InviteMoves DEF RevokeInvite
  <2>4. ASSUME NEW m \in Members, NEW role \in Roles, NEW works \in SUBSET Events,
               CreateInvite(i, m, role, works)
        PROVE  /\ invite' \in [Invites -> InviteRows]
               /\ \A j \in Invites :
                     /\ invite'[j].role # "EVENT_ADMIN" => invite'[j].works = {}
                     /\ invite[j].state # "none" => /\ invite'[j].state # "none"
                                                   /\ invite'[j].works = invite[j].works
    <3> DEFINE row == TeamInvite(m, role, works, "open")
    <3>1. /\ row \in InviteRows /\ row.role = role /\ row.works = works
      BY RowsMade
    <3>2. /\ invite' = [invite EXCEPT ![i] = row] /\ invite[i].state = "none"
          /\ role # "EVENT_ADMIN" => works = {}
      BY <2>4 DEF CreateInvite
    <3>3. /\ invite \in [Invites -> InviteRows]
          /\ \A j \in Invites : invite[j].role # "EVENT_ADMIN" => invite[j].works = {}
      BY DEF TeamTypes, InvitesFit
    <3> HIDE DEF row
    <3>4. /\ invite' \in [Invites -> InviteRows] /\ invite'[i] = row
          /\ \A j \in Invites \ {i} : invite'[j] = invite[j]
      BY <3>1, <3>2, <3>3
    <3> QED
      BY <3>1, <3>2, <3>3, <3>4
  <2> QED
    BY <2>1, <2>2, <2>3, <2>4 DEF InviteSteps
<1> QED
  BY <1>0, <1>1, TypesStay DEF TeamTypes

\* Every step of TeamNext is one of these.
LEMMA TeamCases ==
    ASSUME TeamNext
    PROVE  \/ \E e \in Events : EventComesOrGoes(e)
           \/ \E m \in Members : Register(m)
           \/ \E m \in Members : Reactivate(m)
           \/ \E m \in Members, role \in Roles : Create(m, role)
           \/ \E r \in TeamRequests, m \in Members : Update(r, m)
           \/ \E r \in TeamRequests, m \in Members : ReplaceForUser(r, m)
           \/ \E r \in TeamRequests, m \in Members : ArchiveMember(r, m)
           \/ \E r \in TeamRequests : SuspendWorkspace(r) \/ RestoreWorkspace(r)
           \/ \E r \in TeamRequests : Stops(r)
           \/ \E r \in TeamRequests, i \in Invites : AcceptInvite(r, i)
           \/ \E r \in TeamRequests : Readings(r)
           \/ \E i \in Invites : InviteSteps(i)
BY Zenon DEF TeamNext, Readings, InviteSteps

LEMMA TeamInitTypes == TeamInit => TeamTypes
<1> SUFFICES ASSUME TeamInit PROVE TeamTypes
  OBVIOUS
<1>1. /\ Member("TENANT_ADMIN", TRUE, {}) \in MemberRows /\ Nobody \in MemberRows
  BY RowsMade DEF Nobody, Roles
<1>2. TeamInvite(Founder, "none", {}, "none") \in InviteRows /\ TeamInvite(Founder, "none", {}, "none").works = {}
  BY RowsMade, TeamAssumption
<1>3. /\ member \in [Members -> MemberRows] /\ invite \in [Invites -> InviteRows]
      /\ task \in [TeamRequests -> TaskRows] /\ \A i \in Invites : invite[i].works = {}
      /\ \A r \in TeamRequests : task[r].op = "idle"
  BY <1>1, <1>2, TasksMade DEF TeamInit
<1> QED
  BY <1>3, TeamAssumption DEF TeamInit, TeamTypes, InvitesFit

LEMMA TeamNextTypes == TeamTypes /\ [TeamNext]_teamVars => TeamTypes'
<1> SUFFICES ASSUME TeamTypes, [TeamNext]_teamVars PROVE TeamTypes'
  OBVIOUS
<1>t. /\ live \subseteq Events /\ suspended \in BOOLEAN /\ stale \in BOOLEAN /\ wide \subseteq Members
      /\ member \in [Members -> MemberRows] /\ task \in [TeamRequests -> TaskRows]
  BY DEF TeamTypes
<1>f. \A r \in TeamRequests : task[r].fresh \in BOOLEAN
  BY <1>t DEF TaskRows
<1>0. CASE UNCHANGED teamVars
  BY <1>0, <1>t, WriteTypes DEF teamVars
<1>1. ASSUME NEW e \in Events, EventComesOrGoes(e) PROVE TeamTypes'
  BY <1>1, <1>t, WriteTypes DEF EventComesOrGoes
<1>2. ASSUME NEW m \in Members, Register(m) PROVE TeamTypes'
  BY <1>2, <1>t, ArrivalIs, WriteTypes DEF Register
<1>3. ASSUME NEW m \in Members, Reactivate(m) PROVE TeamTypes'
  <2>1. Outdates({m}) /\ {m} \in SUBSET Members /\ member' \in [Members -> MemberRows]
    BY <1>3, ArrivalIs
  <2> QED
    BY <1>3, <1>t, <2>1, WriteTypes DEF Reactivate
<1>4. ASSUME NEW m \in Members, NEW role \in Roles, Create(m, role) PROVE TeamTypes'
  <2>1. Outdates({m}) /\ {m} \in SUBSET Members /\ member' \in [Members -> MemberRows]
    BY <1>4, ArrivalIs
  <2> QED
    BY <1>4, <1>t, <2>1, WriteTypes DEF Create
<1>m. \A m \in Members : {} \in SUBSET Members /\ (IF member'[m] = member[m] THEN {} ELSE {m}) \in SUBSET Members
  OBVIOUS
<1>5. ASSUME NEW r \in TeamRequests, NEW m \in Members, Update(r, m) PROVE TeamTypes'
  <2>1. UNCHANGED <<live, invite, suspended>> /\ member' \in [Members -> MemberRows]
    BY <1>5, <1>t, UpdateIs
  <2>2. \E M \in SUBSET Members : Outdates(M)
    BY <1>5, <1>m, UpdateIs, Zenon
  <2>3. wide' = wide \/ wide' = wide \cup {m}
    BY <1>5, UpdateIs
  <2>4. stale' = stale \/ stale' = (stale \/ ~task[r].fresh)
    BY <1>5, UpdateIs, Zenon
  <2> QED
    BY <1>t, <1>f, <2>1, <2>2, <2>3, <2>4, WriteTypes
<1>6. ASSUME NEW r \in TeamRequests, NEW m \in Members, ReplaceForUser(r, m) PROVE TeamTypes'
  <2>0. task[r].op = "ASSIGN" => task[r].by \subseteq task[r].of
    BY DEF TeamTypes
  <2>1. UNCHANGED <<live, invite, suspended>> /\ member' \in [Members -> MemberRows]
    BY <1>6, ReplaceIs
  <2>2. \E M \in SUBSET Members : Outdates(M)
    BY <1>6, <1>m, ReplaceIs, Zenon
  <2>3. wide' = wide \cup task[r].by \/ wide' = wide \ {m}
    BY <1>6, ReplaceIs
  <2>4. task[r].by \subseteq {m}
    BY <1>6, <2>0, ReplaceIs
  <2>5. stale' = (stale \/ ~task[r].fresh)
    BY <1>6, ReplaceIs, Zenon
  <2> QED
    BY <1>t, <1>f, <2>1, <2>2, <2>3, <2>4, <2>5, WriteTypes
<1>7. ASSUME NEW r \in TeamRequests, NEW m \in Members, ArchiveMember(r, m) PROVE TeamTypes'
  <2>1. UNCHANGED <<live, invite, suspended, wide>> /\ member' \in [Members -> MemberRows]
    BY <1>7, <1>t, ArchiveIs
  <2>2. \E M \in SUBSET Members : Outdates(M)
    BY <1>7, <1>m, ArchiveIs, Zenon
  <2>3. stale' = stale \/ stale' = (stale \/ ~task[r].fresh)
    BY <1>7, ArchiveIs, Zenon
  <2> QED
    BY <1>t, <1>f, <2>1, <2>2, <2>3, WriteTypes
<1>8. ASSUME NEW r \in TeamRequests, SuspendWorkspace(r) \/ RestoreWorkspace(r) PROVE TeamTypes'
  <2>1. /\ UNCHANGED <<live, invite, wide>> /\ member' \in [Members -> MemberRows]
        /\ \E M \in SUBSET Members : Outdates(M)
        /\ suspended' \in BOOLEAN /\ stale' \in BOOLEAN
    BY <1>8, <1>t, <1>f, WorkspaceIs
  <2> QED
    BY <1>t, <2>1, WriteTypes
<1>9. ASSUME NEW r \in TeamRequests, Stops(r) PROVE TeamTypes'
  <2>1. Outdates({}) /\ UNCHANGED <<member, live, invite, suspended, wide, stale>>
    BY <1>9, OutdatesIs DEF Stops
  <2> QED
    BY <1>t, <2>1, WriteTypes
<1>10. ASSUME NEW r \in TeamRequests, NEW i \in Invites, AcceptInvite(r, i) PROVE TeamTypes'
  <2>0. UNCHANGED <<live, suspended, stale>>
    BY <1>10, AcceptIs
  <2>1. CASE UNCHANGED <<invite, member, wide>> /\ Outdates({})
    BY <1>t, <2>0, <2>1, WriteTypes
  <2>2. ASSUME NEW m \in Members,
               /\ m = invite[i].email /\ ~HasAccount(m) /\ Open(i)
               /\ invite' = [invite EXCEPT ![i].state = "accepted"]
               /\ member' = [member EXCEPT ![m] = Member(invite[i].role, TRUE, task[r].works)]
               /\ wide' = IF invite[i].works = {} THEN wide \cup {m} ELSE wide
               /\ Outdates({m})
        PROVE  TeamTypes'
    <3>0. invite[i].role \in Roles \cup {"none", "elsewhere"} /\ task[r].works \in SUBSET Events
      BY DEF TeamTypes, InviteRows, TaskRows
    <3>1. Member(invite[i].role, TRUE, task[r].works) \in MemberRows
      BY <3>0, RowsMade, Zenon
    <3>2. member' \in [Members -> MemberRows] /\ wide' \subseteq Members /\ {m} \in SUBSET Members
      BY <1>t, <2>2, <3>1
    <3>3. /\ invite' \in [Invites -> InviteRows]
          /\ \A j \in Invites :
                /\ invite'[j].role # "EVENT_ADMIN" => invite'[j].works = {}
                /\ invite[j].state # "none" => invite'[j].state # "none" /\ invite'[j].works = invite[j].works
      BY <2>2, InviteMoves
    <3>4. \E M \in SUBSET Members : Outdates(M)
      BY <2>2, <3>2, Zenon
    <3>5. live' \subseteq Events /\ suspended' \in BOOLEAN /\ stale' \in BOOLEAN
      BY <1>t, <2>0
    <3> HIDE <2>2
    <3> QED
      BY <3>2, <3>3, <3>4, <3>5, TypesStay, Zenon
  <2> QED
    BY <1>10, <2>1, <2>2, AcceptIs
<1>11. ASSUME NEW r \in TeamRequests, Readings(r) PROVE TeamTypes'
  BY <1>11, ReadTypes
<1>12. ASSUME NEW i \in Invites, InviteSteps(i) PROVE TeamTypes'
  BY <1>12, InviteTypes
<1> QED
  BY <1>0, <1>1, <1>2, <1>3, <1>4, <1>5, <1>6, <1>7, <1>8, <1>9, <1>10, <1>11, <1>12, TeamCases, Zenon

\* The states of the team are well formed (the types of Team.tla, and that an
\* assignment is confirmed for whom it is and an acceptance has read an
\* invitation).
THEOREM TeamTypeCorrect == TeamSpec => []TeamTypeOK
<1>1. TeamTypes => TeamTypeOK
  BY DEF TeamTypes, TeamTypeOK, MemberRows, InviteRows, TaskRows, TaskOps
<1> QED
  BY <1>1, TeamInitTypes, TeamNextTypes, PTL DEF TeamSpec

-----------------------------------------------------------------------------
(* Team: an admin remains, and who is held to some events stays held.      *)

\* What a request reads is true while nobody writes to it.
Fresh == \A r \in TeamRequests : task[r].fresh => Reads(task[r])

\* An event admin without events was let see them all; nobody else has any.
Narrow(m) ==
    /\ member[m].role = "EVENT_ADMIN" /\ member[m].works = {} => m \in wide
    /\ member[m].role # "EVENT_ADMIN" => member[m].works = {}

\* Also while it is suspended the workspace has an admin, for when it is not;
\* and every admin was let see every event, for when they are one no longer.
Held ==
    /\ \E m \in Members : member[m].role = "TENANT_ADMIN"
    /\ \A m \in Members : member[m].role = "TENANT_ADMIN" => m \in wide
    /\ suspended \/ \E m \in Members : Administers(m)
    /\ \A m \in Members : Narrow(m)

TeamInv == TeamTypes /\ Fresh /\ (stale \/ Held)

\* Nobody reads what is not there any more.
LEMMA FreshStays ==
    ASSUME TeamTypes, Fresh, NEW M, Outdates(M), \A m \in Members \ M : member'[m] = member[m]
    PROVE  Fresh'
<1> SUFFICES ASSUME NEW q \in TeamRequests, task'[q].fresh
             PROVE  Reads(task[q])'
  BY DEF Fresh
<1>1. CASE task'[q] = NoTask
  BY <1>1, TasksMade DEF Reads
<1>2. CASE /\ task'[q].op = task[q].op /\ task'[q].of = task[q].of /\ task'[q].was = task[q].was
           /\ task'[q].works = task[q].works /\ task'[q].by = task[q].by
           /\ task[q].fresh /\ (task[q].op = "RESTORE" => M = {}) /\ task[q].of \cap M = {}
  <2>1. Reads(task[q]) /\ task[q].of \subseteq Members
    BY <1>2 DEF Fresh, TeamTypes, TaskRows
  <2>2. \A m \in task[q].of : member'[m] = member[m]
    BY <1>2, <2>1
  <2>3. task[q].op = "RESTORE" => task[q].of = {m \in Members : Here(m) /\ ~member[m].active}'
    BY <1>2, <2>1 DEF Reads, Here
  <2> QED
    BY <1>2, <2>1, <2>2, <2>3 DEF Reads
<1> QED
  BY <1>1, <1>2 DEF Outdates

\* A reading is true of the members it is of.
LEMMA FreshBegins ==
    ASSUME TeamTypes, Fresh, NEW r \in TeamRequests, Readings(r)
    PROVE  Fresh'
<1>1. UNCHANGED member
  BY ReadingIs
<1>2. PICK t \in TaskRows : Begins(r, t) /\ Reads(t)
  BY ReadingIs
<1>3. task'[r] = t /\ \A q \in TeamRequests \ {r} : task'[q] = task[q]
  BY <1>2, BeginsIs
<1>4. ASSUME NEW u, Reads(u) PROVE Reads(u)'
  BY <1>1, <1>4 DEF Reads, Here
<1>5. \A q \in TeamRequests : task'[q].fresh => Reads(task'[q])
  BY <1>2, <1>3 DEF Fresh
<1> QED
  BY <1>1, <1>5 DEF Fresh, Reads, Here

\* Nobody loses a role, a list or their way in, and more is confirmed.
LEMMA HeldStays ==
    ASSUME Held, wide \subseteq wide', suspended' = suspended,
           \A m \in Members : /\ member'[m].role = member[m].role /\ member'[m].works = member[m].works
                              /\ member[m].active => member'[m].active
    PROVE  Held'
BY DEF Held, Narrow, Administers

LEMMA UpdateHolds ==
    ASSUME TeamTypes, Fresh, Held, NEW r \in TeamRequests, NEW m \in Members, Update(r, m), ~stale'
    PROVE  Held'
<1>1. CASE UNCHANGED <<member, wide, stale>>
  BY <1>1, UpdateIs, HeldStays
<1>2. CASE ~UNCHANGED <<member, wide, stale>>
  <2>1. /\ task[r].op = "ROLE" /\ task[r].of = {m} /\ UNCHANGED <<live, invite, suspended>>
        /\ task[r].role # task[r].was /\ task[r].was = "TENANT_ADMIN" => OtherAdmins(m) # {}
        /\ \A o \in Members \ {m} : member'[o] = member[o]
        /\ member'[m].role = task[r].role /\ member'[m].active = member[m].active
        /\ member'[m].works = IF task[r].role # task[r].was /\ task[r].role # "EVENT_ADMIN"
                              THEN {} ELSE member[m].works
        /\ wide' = IF task[r].role = "TENANT_ADMIN" THEN wide \cup {m} ELSE wide
        /\ task[r].fresh
    BY <1>2, UpdateIs
  <2>2. member[m].role = task[r].was /\ member[m].active /\ task[r].was \in Roles
    BY <2>1 DEF Fresh, Reads
  <2>3. \/ task[r].role = "TENANT_ADMIN"
        \/ \E o \in Members \ {m} : member[o].role = "TENANT_ADMIN"
    BY <2>1, <2>2 DEF Held, OtherAdmins, Administers
  <2>4. suspended \/ \/ task[r].role = "TENANT_ADMIN"
                     \/ \E o \in Members \ {m} : Administers(o)
    BY <2>1, <2>2 DEF Held, OtherAdmins, Administers
  <2>5. \E o \in Members : member'[o].role = "TENANT_ADMIN"
    BY <2>1, <2>3
  <2>6. suspended' \/ \E o \in Members : Administers(o)'
    BY <2>1, <2>2, <2>4 DEF Administers
  <2>7. \A o \in Members : member'[o].role = "TENANT_ADMIN" => o \in wide'
    BY <2>1 DEF Held
  <2>8. Narrow(m)'
    BY <2>1, <2>2 DEF Held, Narrow, Roles
  <2>9. \A o \in Members \ {m} : Narrow(o)'
    BY <2>1 DEF Held, Narrow
  <2> QED
    BY <2>5, <2>6, <2>7, <2>8, <2>9 DEF Held
<1> QED
  BY <1>1, <1>2

LEMMA ReplaceHolds ==
    ASSUME TeamTypes, Fresh, Held, NEW r \in TeamRequests, NEW m \in Members, ReplaceForUser(r, m), ~stale'
    PROVE  Held'
<1>1. /\ task[r].op = "ASSIGN" /\ task[r].of = {m} /\ UNCHANGED <<live, invite, suspended>>
      /\ \A o \in Members \ {m} : member'[o] = member[o]
      /\ member'[m].role = member[m].role /\ member'[m].active = member[m].active
      /\ member'[m].works = task[r].works
      /\ wide' = IF task[r].works = {} THEN wide \cup task[r].by ELSE wide \ {m}
      /\ task[r].fresh
  BY ReplaceIs
<1>2. member[m].role = "EVENT_ADMIN" /\ (task[r].works = {} => member[m].works = {} \/ m \in task[r].by)
  BY <1>1 DEF Fresh, Reads
<1>3. \A o \in Members : member'[o].role = member[o].role /\ member'[o].active = member[o].active
  BY <1>1
<1>4. (\E o \in Members : member'[o].role = "TENANT_ADMIN") /\ (suspended' \/ \E o \in Members : Administers(o)')
  BY <1>1, <1>3 DEF Held, Administers
<1>5. \A o \in Members : member'[o].role = "TENANT_ADMIN" => o \in wide'
  BY <1>1, <1>2 DEF Held
<1>6. Narrow(m)'
  BY <1>1, <1>2 DEF Held, Narrow
<1>7. \A o \in Members \ {m} : Narrow(o)'
  BY <1>1 DEF Held, Narrow
<1> QED
  BY <1>4, <1>5, <1>6, <1>7 DEF Held

LEMMA ArchiveHolds ==
    ASSUME TeamTypes, Fresh, Held, NEW r \in TeamRequests, NEW m \in Members, ArchiveMember(r, m), ~stale'
    PROVE  Held'
<1>1. CASE UNCHANGED <<member, stale>>
  BY <1>1, ArchiveIs, HeldStays
<1>2. CASE ~UNCHANGED <<member, stale>>
  <2>1. /\ task[r].op = "ARCHIVE" /\ task[r].of = {m} /\ UNCHANGED <<suspended, wide>>
        /\ task[r].was = "TENANT_ADMIN" => OtherAdmins(m) # {}
        /\ \A o \in Members \ {m} : member'[o] = member[o]
        /\ member'[m].role = member[m].role /\ member'[m].works = member[m].works
        /\ task[r].fresh
    BY <1>2, ArchiveIs
  <2>2. member[m].role = task[r].was
    BY <2>1 DEF Fresh, Reads
  <2>3. suspended \/ \E o \in Members \ {m} : Administers(o)
    BY <2>1, <2>2 DEF Held, OtherAdmins, Administers
  <2>4. suspended' \/ \E o \in Members : Administers(o)'
    BY <2>1, <2>3 DEF Administers
  <2>5. \A o \in Members : member'[o].role = member[o].role /\ member'[o].works = member[o].works
    BY <2>1
  <2> QED
    BY <2>1, <2>4, <2>5 DEF Held, Narrow
<1> QED
  BY <1>1, <1>2

\* Whoever had no account is one more member.
LEMMA ArrivalHolds ==
    ASSUME Held, member \in [Members -> MemberRows], NEW m \in Members, ~HasAccount(m),
           NEW role \in Roles \cup {"none", "elsewhere"}, NEW works \in SUBSET Events,
           member' = [member EXCEPT ![m] = Member(role, TRUE, works)],
           role # "EVENT_ADMIN" => works = {},
           wide \subseteq wide', works = {} => m \in wide' \/ role \notin Roles, suspended' = suspended
    PROVE  Held'
<1> DEFINE row == Member(role, TRUE, works)
<1>1. row.role = role /\ row.works = works
  BY DEF Member
<1> HIDE DEF row
<1>2. member'[m] = row /\ \A o \in Members \ {m} : member'[o] = member[o]
  BY DEF row
<1>3. member[m].role = "none"
  BY DEF HasAccount
<1>4. (\E o \in Members : member'[o].role = "TENANT_ADMIN") /\ (suspended' \/ \E o \in Members : Administers(o)')
  BY <1>2, <1>3 DEF Held, Administers
<1>5. \A o \in Members : member'[o].role = "TENANT_ADMIN" => o \in wide'
  BY <1>1, <1>2 DEF Held, Roles
<1>6. Narrow(m)'
  BY <1>1, <1>2 DEF Narrow, Roles
<1>7. \A o \in Members \ {m} : Narrow(o)'
  BY <1>2 DEF Held, Narrow
<1> QED
  BY <1>4, <1>5, <1>6, <1>7 DEF Held

LEMMA WorkspaceHolds ==
    ASSUME TeamTypes, Fresh, Held, NEW r \in TeamRequests, SuspendWorkspace(r) \/ RestoreWorkspace(r), ~stale'
    PROVE  Held'
<1>1. /\ UNCHANGED wide
      /\ \A m \in Members : member'[m].role = member[m].role /\ member'[m].works = member[m].works
  BY WorkspaceIs
<1>2. CASE suspended' = TRUE
  BY <1>1, <1>2 DEF Held, Narrow
<1>3. CASE /\ task[r].op = "RESTORE" /\ stale' = (stale \/ ~task[r].fresh)
           /\ \A m \in Members : member'[m].active = (member[m].active \/ m \in task[r].of)
  <2>1. task[r].of = {m \in Members : Here(m) /\ ~member[m].active}
    BY <1>3 DEF Fresh, Reads
  <2>2. PICK m \in Members : member[m].role = "TENANT_ADMIN"
    BY DEF Held
  <2>3. Administers(m)'
    BY <1>1, <1>3, <2>1, <2>2 DEF Administers, Here
  <2> QED
    BY <1>1, <2>3 DEF Held, Narrow
<1> QED
  BY <1>2, <1>3, WorkspaceIs

LEMMA AcceptHolds ==
    ASSUME TeamTypes, Held, NEW r \in TeamRequests, NEW i \in Invites, AcceptInvite(r, i)
    PROVE  Held'
<1>0. task[r].op = "ACCEPT" /\ task[r].by = {i} /\ UNCHANGED suspended
  BY AcceptIs
<1>1. CASE UNCHANGED <<invite, member, wide>>
  BY <1>0, <1>1, HeldStays
<1>2. ASSUME NEW m \in Members, ~HasAccount(m),
             member' = [member EXCEPT ![m] = Member(invite[i].role, TRUE, task[r].works)],
             wide' = IF invite[i].works = {} THEN wide \cup {m} ELSE wide
      PROVE  Held'
  <2>1. invite[i].role \in Roles \cup {"none", "elsewhere"} /\ task[r].works \in SUBSET Events
    BY DEF TeamTypes, InviteRows, TaskRows
  <2>2. /\ task[r].works = {} <=> invite[i].works = {}
        /\ invite[i].role # "EVENT_ADMIN" => invite[i].works = {}
    BY <1>0 DEF TeamTypes, InvitesFit
  <2>3. /\ invite[i].role # "EVENT_ADMIN" => task[r].works = {}
        /\ wide \subseteq wide' /\ task[r].works = {} => m \in wide'
    BY <1>2, <2>2
  <2>4. member \in [Members -> MemberRows]
    BY DEF TeamTypes
  <2> QED
    BY <1>0, <1>2, <2>1, <2>3, <2>4, ArrivalHolds, Zenon
<1> QED
  BY <1>1, <1>2, AcceptIs

LEMMA TeamNextInv == TeamInv /\ [TeamNext]_teamVars => TeamInv'
<1> SUFFICES ASSUME TeamInv, [TeamNext]_teamVars PROVE TeamInv'
  OBVIOUS
<1>t. TeamTypes /\ TeamTypes' /\ Fresh /\ (stale \/ Held) /\ member \in [Members -> MemberRows]
  BY TeamNextTypes DEF TeamInv, TeamTypes
<1> DEFINE Safe == Fresh' /\ (stale' \/ Held')
<1>a. ASSUME UNCHANGED <<member, suspended, wide, stale>> PROVE stale' \/ Held'
  BY <1>a, <1>t, HeldStays
<1>0. ASSUME UNCHANGED teamVars PROVE Safe
  <2>1. Fresh'
    BY <1>0, <1>t DEF teamVars, Fresh, Reads, Here
  <2> QED
    BY <1>0, <1>a, <2>1 DEF teamVars
<1>1. ASSUME NEW e \in Events, EventComesOrGoes(e) PROVE Safe
  <2>1. Fresh'
    BY <1>1, <1>t DEF EventComesOrGoes, Fresh, Reads, Here
  <2> QED
    BY <1>1, <1>a, <2>1 DEF EventComesOrGoes
<1>2. ASSUME NEW m \in Members, Register(m) PROVE Safe
  <2>1. /\ member[m].role = "none" /\ UNCHANGED <<task, wide, suspended, stale>>
        /\ member' = [member EXCEPT ![m] = Member("elsewhere", TRUE, {})]
    BY <1>2 DEF Register, HasAccount
  <2>2. "elsewhere" \in Roles \cup {"none", "elsewhere"} /\ "elsewhere" \notin Roles /\ {} \in SUBSET Events
    BY DEF Roles
  <2>3. ASSUME Held PROVE Held'
    <3>1. /\ ~HasAccount(m) /\ wide \subseteq wide' /\ suspended' = suspended
          /\ ({} = {} => m \in wide' \/ "elsewhere" \notin Roles)
          /\ ("elsewhere" # "EVENT_ADMIN" => {} = {})
      BY <2>1, <2>2 DEF HasAccount
    <3>2. /\ "elsewhere" \in Roles \cup {"none", "elsewhere"} /\ {} \in SUBSET Events
          /\ member' = [member EXCEPT ![m] = Member("elsewhere", TRUE, {})]
          /\ member \in [Members -> MemberRows]
      BY <1>t, <2>1, <2>2
    <3> QED
      BY <2>3, <3>1, <3>2, ArrivalHolds
  <2>4. member'[m].role = "elsewhere" /\ \A o \in Members \ {m} : member'[o] = member[o]
    BY <1>t, <2>1 DEF Member
  <2>5. ASSUME NEW t \in TaskRows, Reads(t) PROVE Reads(t)'
    <3>1. t.of \subseteq Members
      BY DEF TaskRows
    <3>2. {o \in Members : Here(o) /\ ~member[o].active} = {o \in Members : Here(o) /\ ~member[o].active}'
      BY <2>1, <2>4 DEF Here
    <3>3. t.op \in {"ROLE", "ARCHIVE", "ASSIGN"} => m \notin t.of
      BY <2>1, <2>5 DEF Reads, Roles
    <3> QED
      BY <2>4, <2>5, <3>1, <3>2, <3>3 DEF Reads
  <2>6. Fresh'
    BY <1>t, <2>1, <2>5 DEF Fresh, TeamTypes
  <2> QED
    BY <1>t, <2>1, <2>3, <2>6
<1>3. ASSUME NEW m \in Members, Reactivate(m) PROVE Safe
  <2>1. /\ Outdates({m}) /\ \A o \in Members \ {m} : member'[o] = member[o]
        /\ member'[m].role = member[m].role /\ member'[m].works = member[m].works
        /\ member'[m].active /\ UNCHANGED <<suspended, wide, stale>>
    BY <1>3, <1>t, ArrivalIs DEF Reactivate
  <2>2. Fresh'
    BY <1>t, <2>1, FreshStays
  <2>3. Held => Held'
    BY <2>1, HeldStays
  <2> QED
    BY <1>t, <2>1, <2>2, <2>3
<1>4. ASSUME NEW m \in Members, NEW role \in Roles, Create(m, role) PROVE Safe
  <2>1. /\ Outdates({m}) /\ ~HasAccount(m) /\ member' = [member EXCEPT ![m] = Member(role, TRUE, {})]
        /\ wide' = wide \cup {m} /\ UNCHANGED <<suspended, stale>>
    BY <1>4, <1>t, ArrivalIs DEF Create
  <2>2. Fresh'
    <3>1. \A o \in Members \ {m} : member'[o] = member[o]
      BY <1>t, <2>1
    <3> QED
      BY <1>t, <2>1, <3>1, FreshStays
  <2>3. ASSUME Held PROVE Held'
    <3>1. /\ role \in Roles \cup {"none", "elsewhere"} /\ {} \in SUBSET Events
          /\ wide \subseteq wide' /\ m \in wide' /\ suspended' = suspended
      BY <2>1
    <3> QED
      BY <1>t, <2>1, <2>3, <3>1, ArrivalHolds, Zenon
  <2> QED
    BY <1>t, <2>1, <2>2, <2>3
<1>m. ASSUME NEW m \in Members, \A o \in Members \ {m} : member'[o] = member[o],
             Outdates(IF member'[m] = member[m] THEN {} ELSE {m})
      PROVE  Fresh'
  BY <1>t, <1>m, FreshStays
<1>5. ASSUME NEW r \in TeamRequests, NEW m \in Members, Update(r, m) PROVE Safe
  <2>1. Fresh'
    BY <1>5, <1>m, <1>t, UpdateIs, FreshStays
  <2>2. stale => stale'
    BY <1>5, <1>t, UpdateIs
  <2> QED
    BY <1>5, <1>t, <2>1, <2>2, UpdateHolds
<1>6. ASSUME NEW r \in TeamRequests, NEW m \in Members, ReplaceForUser(r, m) PROVE Safe
  <2>1. Fresh'
    BY <1>6, <1>m, <1>t, ReplaceIs
  <2>2. stale => stale'
    BY <1>6, <1>t, ReplaceIs
  <2> QED
    BY <1>6, <1>t, <2>1, <2>2, ReplaceHolds
<1>7. ASSUME NEW r \in TeamRequests, NEW m \in Members, ArchiveMember(r, m) PROVE Safe
  <2>1. Fresh'
    BY <1>7, <1>m, <1>t, ArchiveIs, FreshStays
  <2>2. stale => stale'
    BY <1>7, <1>t, ArchiveIs
  <2> QED
    BY <1>7, <1>t, <2>1, <2>2, ArchiveHolds
<1>8. ASSUME NEW r \in TeamRequests, SuspendWorkspace(r) \/ RestoreWorkspace(r) PROVE Safe
  <2>1. Fresh'
    BY <1>8, <1>t, WorkspaceIs, FreshStays
  <2>2. stale => stale'
    BY <1>8, <1>t, WorkspaceIs
  <2> QED
    BY <1>8, <1>t, <2>1, <2>2, WorkspaceHolds
<1>9. ASSUME NEW r \in TeamRequests, Stops(r) PROVE Safe
  <2>1. Outdates({}) /\ UNCHANGED <<member, suspended, wide, stale>>
    BY <1>9, <1>t, OutdatesIs DEF Stops
  <2>2. Fresh'
    BY <1>t, <2>1, FreshStays
  <2> QED
    BY <1>a, <2>1, <2>2
<1>10. ASSUME NEW r \in TeamRequests, NEW i \in Invites, AcceptInvite(r, i) PROVE Safe
  <2>1. ASSUME UNCHANGED member, Outdates({}) PROVE Fresh'
    <3>1. \A o \in Members \ {} : member'[o] = member[o]
      BY <2>1
    <3> QED
      BY <1>t, <2>1, <3>1, FreshStays
  <2>2. ASSUME NEW m \in Members, Outdates({m}),
               member' = [member EXCEPT ![m] = Member(invite[i].role, TRUE, task[r].works)]
        PROVE  Fresh'
    <3>1. \A o \in Members \ {m} : member'[o] = member[o]
      BY <1>t, <2>2
    <3> QED
      BY <1>t, <2>2, <3>1, FreshStays
  <2>3. Fresh'
    BY <1>10, <1>t, <2>1, <2>2, AcceptIs
  <2>4. stale' = stale
    BY <1>10, <1>t, AcceptIs
  <2> QED
    BY <1>10, <1>t, <2>3, <2>4, AcceptHolds
<1>11. ASSUME NEW r \in TeamRequests, Readings(r) PROVE Safe
  <2>1. UNCHANGED <<member, suspended, wide, stale>>
    BY <1>11, <1>t, ReadingIs
  <2> QED
    BY <1>11, <1>a, <1>t, <2>1, FreshBegins
<1>12. ASSUME NEW i \in Invites, InviteSteps(i) PROVE Safe
  <2>1. UNCHANGED <<member, suspended, task, wide, stale>>
    BY <1>12, <1>t, InviteTypes
  <2>2. Fresh'
    BY <1>t, <2>1 DEF Fresh, Reads, Here
  <2> QED
    BY <1>a, <2>1, <2>2
<1>13. Safe
  <2> HIDE DEF Safe
  <2> QED
    BY <1>0, <1>1, <1>2, <1>3, <1>4, <1>5, <1>6, <1>7, <1>8, <1>9, <1>10, <1>11, <1>12, TeamCases, Zenon
<1> QED
  BY <1>t, <1>13 DEF TeamInv

\* However the requests of a workspace's admins interleave, one admin who can
\* get in remains, and an event admin held to some events is let see them all
\* only by somebody who said so (update, archive and setAssignments of
\* user.service.ts, accept of user-invite.service.ts).
THEOREM RolesAreKept == TeamSpec => []RolesKept
<1>1. TeamInit => TeamInv
  <2> SUFFICES ASSUME TeamInit PROVE TeamInv
    OBVIOUS
  <2>1. TeamTypes
    BY TeamInitTypes
  <2>2. Fresh
    BY TasksMade DEF TeamInit, Fresh, Reads
  <2>3. /\ member[Founder].role = "TENANT_ADMIN" /\ member[Founder].active /\ member[Founder].works = {}
        /\ \A m \in Members \ {Founder} : member[m].role = "none" /\ member[m].works = {}
    BY TeamAssumption DEF TeamInit, Nobody, Member
  <2>4. Held
    BY <2>3, TeamAssumption DEF TeamInit, Held, Narrow, Administers
  <2> QED
    BY <2>1, <2>2, <2>4 DEF TeamInv
<1>2. TeamInv => RolesKept
  BY DEF TeamInv, Held, Narrow, RolesKept, AdminsRemain, NarrowUntilConfirmed
<1> QED
  BY <1>1, <1>2, TeamNextInv, PTL DEF TeamSpec

-----------------------------------------------------------------------------
(* The services together.                                                  *)

\* Of each of its modules the whole is a behaviour like any other, so that
\* what holds of a module alone holds of it here.
LEMMA ServicesParts ==
    ServicesSpec =>
        /\ AlbumSpec
        /\ RetentionSpec
        /\ FeedbackSpec
        /\ RemindersSpec
        /\ AnnouncementsSpec
        /\ PassSpec
        /\ SignInSpec
        /\ TeamSpec
<1>1. ServicesInit =>
        /\ AlbumInit
        /\ RetentionInit
        /\ FeedbackInit
        /\ RemindersInit
        /\ AnnouncementsInit
        /\ PassInit
        /\ SignInInit
        /\ TeamInit
  BY DEF ServicesInit
<1>2. [ServicesNext]_servicesVars => [AlbumNext]_albumVars
  BY DEF ServicesNext, servicesVars, mediaVars, sendingVars, accountVars
<1>3. [ServicesNext]_servicesVars => [RetentionNext]_retentionVars
  BY DEF ServicesNext, servicesVars, mediaVars, sendingVars, accountVars
<1>4. [ServicesNext]_servicesVars => [FeedbackNext]_feedbackVars
  BY DEF ServicesNext, servicesVars, mediaVars, sendingVars, accountVars
<1>5. [ServicesNext]_servicesVars => [RemindersNext]_reminderVars
  BY DEF ServicesNext, servicesVars, mediaVars, sendingVars, accountVars
<1>6. [ServicesNext]_servicesVars => [AnnouncementsNext]_announcementVars
  BY DEF ServicesNext, servicesVars, mediaVars, sendingVars, accountVars
<1>7. [ServicesNext]_servicesVars => [PassNext]_passVars
  BY DEF ServicesNext, servicesVars, mediaVars, sendingVars, accountVars
<1>8. [ServicesNext]_servicesVars => [SignInNext]_signInVars
  BY DEF ServicesNext, servicesVars, mediaVars, sendingVars, accountVars
<1>9. [ServicesNext]_servicesVars => [TeamNext]_teamVars
  BY DEF ServicesNext, servicesVars, mediaVars, sendingVars, accountVars
<1> QED
  BY <1>1, <1>2, <1>3, <1>4, <1>5, <1>6, <1>7, <1>8, <1>9, PTL
     DEF ServicesSpec, AlbumSpec, RetentionSpec, FeedbackSpec, RemindersSpec, AnnouncementsSpec, PassSpec, SignInSpec, TeamSpec

\* Every module keeps its types, for every value of the constants, whatever
\* requests, sweeps and deliveries run in it (the services of src/src/modules
\* that they are about).
THEOREM ServicesTypesHold == ServicesSpec => []ServicesTypeOK
<1>1. ServicesInit => scene \in Scenes
  BY DEF ServicesInit
<1>2. scene \in Scenes /\ [ServicesNext]_servicesVars => (scene \in Scenes)'
  BY DEF ServicesNext, servicesVars
<1>3. scene \in Scenes /\ AlbumTypeOK /\ RetentionTypeOK /\ FeedbackTypeOK /\ RemindersTypeOK
        /\ AnnouncementsTypeOK /\ PassTypeOK /\ SignInTypeOK /\ TeamTypeOK
      => ServicesTypeOK
  BY DEF ServicesTypeOK
<1> QED
  BY <1>1, <1>2, <1>3, ServicesParts,
     AlbumTypeCorrect, RetentionTypeCorrect, FeedbackTypeCorrect, RemindersTypeCorrect,
     CancelledIsLast, PassTypeCorrect, SignInTypeCorrect, TeamTypeCorrect, PTL
     DEF ServicesSpec
=============================================================================
