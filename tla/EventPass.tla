----------------------------- MODULE EventPass ------------------------------
(***************************************************************************)
(* The pass of one event and its SMS bundles (event-pass.service.ts,       *)
(* event-pass.repository.ts, event-entitlement.util.ts).  Nothing is held  *)
(* and nothing locked: several checkouts may be open at once, and each     *)
(* charge is confirmed, by the webhook or by the page the buyer returns    *)
(* to, whenever Paystack gets to it.                                       *)
(***************************************************************************)
EXTENDS Naturals, FiniteSets

CONSTANTS
    MaxBuys,    \* purchases there are room for
    TopPass,    \* pass tiers are 1..TopPass, ranked
    Cashiers    \* transactions that confirm or fail purchases, at once

ASSUME EventPassAssumption == MaxBuys \in Nat /\ TopPass \in Nat

VARIABLES
    pass,       \* EventPass.passTier, or 0 before there is one
    over,       \* the last day of the event was more than 30 days ago
    buy,        \* EventPassPurchase and EventSmsBundlePurchase rows
    till,       \* what each transaction is doing
    together,   \* history: purchases two transactions had read as pending
    lowered     \* history: a pass was replaced by one ranked lower, with
                \* nothing changed since that one was asked for

passVars == <<pass, over, buy, till, together, lowered>>

Buys == 1..MaxBuys
Bundle == 0         \* bought in place of a tier

\* saw: the pass and its expiry as read.  page: the checkout page at Paystack.
\* doubted: the request that opened it was told, or thinks, that it did not.
\* succeeded: _SUCCEEDED rows of the ledger.
NoBuy == [status |-> "none", tier |-> Bundle, saw |-> <<0, FALSE>>, page |-> "none",
          declined |-> FALSE, doubted |-> FALSE, succeeded |-> 0]
Till(op, b) == [op |-> op, of |-> b]
Closed == Till("none", 0)

PassInit ==
    /\ pass = 0 /\ over = FALSE /\ buy = [b \in Buys |-> NoBuy]
    /\ till = [c \in Cashiers |-> Closed] /\ together = {} /\ lowered = FALSE

\* isEventPassActive.
Active == pass # 0 /\ ~over

\* Time, or an edit of the event's days, either way.
DaysMove ==
    /\ over' = ~over
    /\ UNCHANGED <<pass, buy, till, together, lowered>>

------------------------------------------------------------------------------
\* purchasePass and purchaseSmsBundle: the row, then the page.

Sells(b, tier) ==
    /\ buy[b].status = "none" /\ \A c \in 1..(b - 1) : buy[c].status # "none"
    /\ buy' = [buy EXCEPT ![b] = [NoBuy EXCEPT !.status = "PENDING", !.tier = tier, !.saw = <<pass, over>>]]
    /\ UNCHANGED <<pass, over, till, together, lowered>>

\* Of the active pass, only an upgrade is sold.
Purchase(b, tier) == (Active => tier > pass) /\ Sells(b, tier)

PurchaseBundle(b) == Active /\ Sells(b, Bundle)

\* Opened; refused; or opened, and the answer lost or the ledger not written.
Initialize(b) ==
    /\ buy[b].status = "PENDING" /\ buy[b].page = "none"
    /\ \/ buy' = [buy EXCEPT ![b].page = "open"]
       \/ buy' = [buy EXCEPT ![b].page = "refused", ![b].doubted = TRUE]
       \/ buy' = [buy EXCEPT ![b].page = "open", ![b].doubted = TRUE]
    /\ UNCHANGED <<pass, over, till, together, lowered>>

\* markPurchaseFailed: of a pending purchase only.
MarkFailed(b) ==
    /\ buy[b].doubted
    /\ buy' = [buy EXCEPT ![b].doubted = FALSE,
                          ![b].status = IF @ = "PENDING" THEN "FAILED" ELSE @]
    /\ UNCHANGED <<pass, over, till, together, lowered>>

\* At Paystack.  A declined charge may be tried again.
Charge(b) ==
    /\ buy[b].page = "open"
    /\ \/ buy' = [buy EXCEPT ![b].page = "charged"]
       \/ buy' = [buy EXCEPT ![b].declined = TRUE]
    /\ UNCHANGED <<pass, over, till, together, lowered>>

------------------------------------------------------------------------------
\* The webhook and reconcile: read, and if pending, written over in the same
\* transaction, with no lock taken at the read.

StillPendingOrNot(b) == buy[b].status # "none"

StillPending(b) == buy[b].status = "PENDING"

Takes(c, op, b) ==
    /\ till[c] = Closed /\ StillPending(b)
    /\ till' = [till EXCEPT ![c] = Till(op, b)]
    /\ together' = IF \E d \in Cashiers : till[d].of = b THEN together \cup {b} ELSE together
    /\ UNCHANGED <<pass, over, buy, lowered>>

\* What the webhook was sent for, and reconcile asks Paystack.
Charged(b) == buy[b].page = "charged"

TakeConfirm(c, b) == Charged(b) /\ Takes(c, "CONFIRM", b)

TakeFail(c, b) == buy[b].declined /\ Takes(c, "FAIL", b)

Books(c, status) ==
    /\ till' = [till EXCEPT ![c] = Closed]
    /\ buy' = [buy EXCEPT ![till[c].of].status = status,
                          ![till[c].of].succeeded = IF status = "PAID" THEN @ + 1 ELSE @]
    /\ UNCHANGED <<over, together>>

\* confirmPurchase: whatever pass the event has now is replaced.
Confirm(c) ==
    LET b == till[c].of  tier == buy[b].tier
    IN  /\ till[c].op = "CONFIRM" /\ tier # Bundle
        /\ pass' = tier /\ Books(c, "PAID")
        /\ lowered' = (lowered \/ (Active /\ tier < pass /\ buy[b].saw = <<pass, over>>))

ConfirmBundle(c) ==
    /\ till[c].op = "CONFIRM" /\ buy[till[c].of].tier = Bundle
    /\ Books(c, "PAID") /\ UNCHANGED <<pass, lowered>>

Fail(c) ==
    /\ till[c].op = "FAIL" /\ buy[till[c].of].tier # Bundle
    /\ Books(c, "FAILED") /\ UNCHANGED <<pass, lowered>>

FailBundle(c) ==
    /\ till[c].op = "FAIL" /\ buy[till[c].of].tier = Bundle
    /\ Books(c, "FAILED") /\ UNCHANGED <<pass, lowered>>

RollBack(c) ==
    /\ till[c] # Closed /\ till' = [till EXCEPT ![c] = Closed]
    /\ UNCHANGED <<pass, over, buy, together, lowered>>

PassNext ==
    \/ DaysMove
    \/ \E b \in Buys : \/ \E tier \in 1..TopPass : Purchase(b, tier)
                       \/ PurchaseBundle(b) \/ Initialize(b) \/ MarkFailed(b) \/ Charge(b)
                       \/ \E c \in Cashiers : TakeConfirm(c, b) \/ TakeFail(c, b)
    \/ \E c \in Cashiers : Confirm(c) \/ ConfirmBundle(c) \/ Fail(c) \/ FailBundle(c) \/ RollBack(c)

PassSpec == PassInit /\ [][PassNext]_passVars

------------------------------------------------------------------------------
PassTypeOK ==
    /\ pass \in 0..TopPass /\ over \in BOOLEAN /\ lowered \in BOOLEAN /\ together \subseteq Buys
    /\ \A b \in Buys :
          /\ buy[b].status \in {"none", "PENDING", "PAID", "FAILED"} /\ buy[b].tier \in 0..TopPass
          /\ buy[b].page \in {"none", "refused", "open", "charged"} /\ buy[b].succeeded \in Nat
    /\ till \in [Cashiers -> [op : {"none", "CONFIRM", "FAIL"}, of : 0..MaxBuys]]

\* The event has the pass that was paid for.  However many checkouts are open
\* and whichever order their charges are confirmed in, a purchase is confirmed
\* and booked once and its pass given once, unless two transactions had both
\* read it as pending; the pass is one that was paid for; and a purchase lowers
\* an active pass only if another one was confirmed, or the event's days were
\* moved, after it was sold.
PassAsPaid ==
    /\ ~lowered
    /\ \A b \in Buys \ together : buy[b].succeeded = IF buy[b].status = "PAID" THEN 1 ELSE 0
    /\ \A b \in Buys : buy[b].succeeded > 0 => buy[b].page = "charged"
    /\ pass # 0 => \E b \in Buys : buy[b].tier = pass /\ buy[b].succeeded > 0
=============================================================================
