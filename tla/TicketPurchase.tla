--------------------------- MODULE TicketPurchase ---------------------------
(***************************************************************************)
(* The money-moving side of ticketing: ticket-purchase.service.ts, the     *)
(* stock statements of ticket.repository.ts, the part of rsvp.service.ts   *)
(* that calls them, and the dispatch of payment-webhook.service.ts to      *)
(* them, for ONE ticket type and the guests who buy it.                    *)
(*                                                                         *)
(* A worker is one HTTP request being served.  An interactive transaction  *)
(* is one step, except where the code acts on something it read before it  *)
(* held the row lock: there the read and the locked write are two steps.   *)
(* Paystack is external: it may charge a checkout it was given at any      *)
(* time, deliver an event late, twice, in any order, or never.             *)
(***************************************************************************)
EXTENDS Integers, FiniteSets

CONSTANTS
    Invites,    \* invitations (a guest's token); each may buy tickets
    Purchases,  \* TicketPurchase row ids
    Refs,       \* payment references generatePaymentReference can produce
    Workers,    \* requests that can be in progress at once
    MaxQty,     \* MAX_TICKET_QUANTITY
    Limits,     \* values Ticket.totalQuantity takes; NULL is a limit out of reach
    Switches,   \* values the organiser may set onSale and payout to in a run
    MaxAborts,  \* bound on transactions rolled back and processes crashing
    None        \* SQL NULL, and the absent row

ASSUME ConstantsAssumption ==
    /\ IsFiniteSet(Purchases)
    /\ MaxQty \in Nat \ {0}
    /\ Limits \subseteq Nat
    /\ Switches \subseteq BOOLEAN
    /\ MaxAborts \in Nat
    /\ None \notin Purchases
    /\ None \notin Refs

VARIABLES
    invite,     \* TicketPurchase.inviteId, None while the row does not exist
    status,     \* TicketPurchase.status, "NONE" while the row does not exist
    qty,        \* TicketPurchase.quantity
    payRef,     \* TicketPurchase.paymentRef, the CURRENT attempt's reference
    lapsed,     \* holdExpiresAt < now()
    limit,      \* Ticket.totalQuantity
    onSale,     \* Ticket.isAvailable and not Ticket.isArchived
    payout,     \* Tenant.paystackSubaccountStatus = ACTIVE
    sold,       \* Ticket.soldCount
    held,       \* Ticket.heldCount
    ledger,     \* PaymentLedgerEntry rows per purchase, by type
    issued,     \* the purchase a TICKET_PAYMENT_INITIATED row names per reference
    processed,  \* PaystackWebhookEvent dedupe keys committed
    unhandled,  \* references of WEBHOOK_EVENT_UNHANDLED ledger rows, by event
    duplicates, \* there is a WEBHOOK_EVENT_DUPLICATE ledger row
    paystack,   \* Paystack's own record of each reference
    sent,       \* webhook events Paystack has emitted and may deliver
    job,        \* what each worker is doing
    aborts,     \* rolled-back transactions and crashes so far
    late,       \* history: purchases confirmed after their hold was given back
    peak        \* history: the largest totalQuantity there has been

rowVars == <<invite, status, qty, payRef, lapsed>>
ticketVars == <<limit, onSale, payout, peak>>
stockVars == <<sold, held, late>>
hookVars == <<processed, unhandled, duplicates>>
envVars == <<paystack, sent>>
vars == <<rowVars, ticketVars, stockVars, hookVars, envVars,
          ledger, issued, job, aborts>>

Statuses == {"NONE", "PENDING", "PAID", "FAILED", "EXPIRED"}
LedgerCounts == [SUCCEEDED : Nat, COMMISSION : Nat, FAILED : Nat]
Events == {"charge.success", "charge.failed"} \X Refs   \* also the dedupe keys

Idle == [step |-> "idle", kind |-> "none", invite |-> None, ref |-> None, found |-> None]

EventNames == {"charge.success", "charge.failed"}

JobRecords == [step : {"idle", "reserve", "checkout", "verify", "settle"},
               kind : EventNames \cup {"submit", "retry", "reconcile", "checkoutFailed", "none"},
               invite : Invites \cup {None},
               ref : Refs \cup {None},
               found : Purchases \cup {None}]

\* A delivery always carries a reference.
Jobs == {j \in JobRecords : j.kind \in EventNames => j.ref \in Refs}

-----------------------------------------------------------------------------
(* Rows and stock.  A definition followed by a second one of the same      *)
(* purpose (HasRoomNoSold, HasRoom) is the mistake the second one avoids;  *)
(* no action uses it.                                                      *)

WithStatus(s) == {p \in Purchases : status[p] = s}

\* One element per ticket of each purchase in S.
Units(S, q) == {u \in S \X (1..MaxQty) : u[2] <= q[u[1]]}
UnitsOf(S) == Cardinality(Units(S, qty))

\* The rows sweepExpiredHolds turns from PENDING to EXPIRED.
LapsedAny == {p \in Purchases : lapsed[p]}
Lapsed == {p \in Purchases : status[p] = "PENDING" /\ lapsed[p]}

\* The WHERE clause of reserveHold, after `back` held tickets were released.
HasRoomNoSold(q, back) == held - back + q <= limit
HasRoom(q, back) == sold + held - back + q <= limit

\* What releaseHold gives back when a purchase is confirmed.
ReleasedByConfirmAlways(p) == qty[p]
ReleasedByConfirm(p) == IF status[p] = "PENDING" THEN qty[p] ELSE 0

\* confirm does nothing more to a PAID row; fail acts on a PENDING one only.
ConfirmableAny(p) == TRUE
ConfirmableHeld(p) == status[p] = "PENDING"
Confirmable(p) == status[p] # "PAID"
Failable(p) == status[p] = "PENDING"

\* retryPayment goes on from FAILED and EXPIRED; PAID and PENDING are
\* answered with the status as it is.
Retryable(p) == status[p] \in {"FAILED", "EXPIRED"}

\* findByPaymentRef: the row whose CURRENT reference is r.
RowOfPending(r) == {p \in Purchases : status[p] = "PENDING" /\ payRef[p] = r}
RowOf(r) == {p \in Purchases : status[p] # "NONE" /\ payRef[p] = r}
FindMany(r) == RowOf(r)
Find(r) == IF RowOf(r) = {} THEN None ELSE CHOOSE p \in RowOf(r) : TRUE

\* A reference is 16 random bytes: never issued twice.
Fresh(r) == issued[r] = None

Init ==
    /\ invite = [p \in Purchases |-> None]
    /\ status = [p \in Purchases |-> "NONE"]
    /\ qty = [p \in Purchases |-> 0]
    /\ payRef = [p \in Purchases |-> None]
    /\ lapsed = [p \in Purchases |-> FALSE]
    /\ limit \in Limits
    /\ peak = limit
    /\ onSale = TRUE
    /\ payout = TRUE
    /\ sold = 0
    /\ held = 0
    /\ late = {}
    /\ ledger = [p \in Purchases |-> [SUCCEEDED |-> 0, COMMISSION |-> 0, FAILED |-> 0]]
    /\ issued = [r \in Refs |-> None]
    /\ processed = {}
    /\ unhandled = {}
    /\ duplicates = FALSE
    /\ paystack = [r \in Refs |-> "unknown"]
    /\ sent = {}
    /\ job = [w \in Workers |-> Idle]
    /\ aborts = 0

-----------------------------------------------------------------------------
(* Reserving.                                                              *)

\* Sweep the lapsed holds, take a new hold of q tickets, make p the PENDING
\* row of attempt r and write TICKET_PAYMENT_INITIATED: the body shared by
\* reserveWithinTransaction and retryPayment.
TakeHold(p, r, q) ==
    /\ payout
    /\ onSale
    /\ Fresh(r)
    /\ HasRoom(q, UnitsOf(Lapsed))
    /\ held' = held - UnitsOf(Lapsed) + q
    /\ status' = [x \in Purchases |->
                    IF x = p THEN "PENDING"
                    ELSE IF x \in Lapsed THEN "EXPIRED" ELSE status[x]]
    /\ qty' = [qty EXCEPT ![p] = q]
    /\ payRef' = [payRef EXCEPT ![p] = r]
    /\ lapsed' = [lapsed EXCEPT ![p] = FALSE]
    /\ issued' = [issued EXCEPT ![r] = p]
    /\ UNCHANGED <<sold, late, ledger>>

\* rsvpService.submit reads the invite with its purchases; without one, and
\* with the ticket still offered, it goes on to reserve.
SubmitRead(w, i) ==
    /\ job[w] = Idle
    /\ onSale
    /\ \A p \in Purchases : invite[p] # i
    /\ job' = [job EXCEPT ![w] = [Idle EXCEPT !.step = "reserve", !.kind = "submit", !.invite = i]]
    /\ UNCHANGED <<rowVars, ticketVars, stockVars, hookVars, envVars, ledger, issued, aborts>>

\* The rest of the submit transaction: the hold, and a new row.
SubmitReserve(w, p, r, q) ==
    /\ job[w].step = "reserve"
    /\ status[p] = "NONE"
    /\ TakeHold(p, r, q)
    /\ invite' = [invite EXCEPT ![p] = job[w].invite]
    /\ job' = [job EXCEPT ![w].step = "checkout", ![w].ref = r]
    /\ UNCHANGED <<ticketVars, hookVars, envVars, aborts>>

\* reserveHold found no room, or there is no active payout account: the
\* whole transaction rolls back, the sweep with it.
SubmitRefused(w) ==
    /\ job[w].step = "reserve"
    /\ \/ ~payout
       \/ ~onSale
       \/ \E q \in 1..MaxQty : ~HasRoom(q, UnitsOf(Lapsed))
    /\ job' = [job EXCEPT ![w] = Idle]
    /\ UNCHANGED <<rowVars, ticketVars, stockVars, hookVars, envVars, ledger, issued, aborts>>

\* retryPayment: one transaction under the row's lock, which overwrites the
\* reference of the earlier attempt.
RetryPayment(w, p, r) ==
    /\ job[w] = Idle
    /\ Retryable(p)
    /\ TakeHold(p, r, qty[p])
    /\ job' = [job EXCEPT ![w] = [Idle EXCEPT !.step = "checkout", !.kind = "retry", !.ref = r]]
    /\ UNCHANGED <<invite, ticketVars, hookVars, envVars, aborts>>

-----------------------------------------------------------------------------
(* The Paystack call, after the transaction has committed.                 *)

\* initializeTransaction succeeds: the guest holds a checkout page for ref.
CheckoutStarts(w) ==
    /\ job[w].step = "checkout"
    /\ paystack' = [paystack EXCEPT ![job[w].ref] = "open"]
    /\ job' = [job EXCEPT ![w] = Idle]
    /\ UNCHANGED <<rowVars, ticketVars, stockVars, hookVars, sent, ledger, issued, aborts>>

\* It throws: startPaystackCheckout calls failPayment, which looks the
\* reference up.
CheckoutFails(w) ==
    /\ job[w].step = "checkout"
    /\ job' = [job EXCEPT ![w].step = "settle", ![w].kind = "checkoutFailed",
                          ![w].found = Find(job[w].ref)]
    /\ UNCHANGED <<rowVars, ticketVars, stockVars, hookVars, envVars, ledger, issued, aborts>>

-----------------------------------------------------------------------------
(* Settling: confirm and fail, from the webhook, from the callback's       *)
(* reconcile and from a failed checkout.                                   *)

KeyHeld(k) == \E w \in Workers : job[w].step = "settle" /\ <<job[w].kind, job[w].ref>> = k

\* process: the dedupe key is inserted first (a concurrent delivery of the
\* same key waits on that insert), then the row is looked up unlocked.
HookStart(w, k) ==
    /\ job[w] = Idle
    /\ k \in sent \ processed
    /\ ~KeyHeld(k)
    /\ job' = [job EXCEPT ![w] = [Idle EXCEPT !.step = "settle", !.kind = k[1],
                                             !.ref = k[2], !.found = Find(k[2])]]
    /\ UNCHANGED <<rowVars, ticketVars, stockVars, hookVars, envVars, ledger, issued, aborts>>

\* A delivery whose key is taken trips the unique index: a ledger row, and
\* nothing else.
HookDuplicate(k) ==
    /\ k \in sent \cap processed
    /\ duplicates' = TRUE
    /\ UNCHANGED <<rowVars, ticketVars, stockVars, processed, unhandled, envVars, ledger, issued, job, aborts>>

\* reconcile reads the purchase; only a PENDING one is asked about.
ReconcileRead(w, p) ==
    /\ job[w] = Idle
    /\ status[p] = "PENDING"
    /\ job' = [job EXCEPT ![w] = [Idle EXCEPT !.step = "verify", !.kind = "reconcile", !.ref = payRef[p]]]
    /\ UNCHANGED <<rowVars, ticketVars, stockVars, hookVars, envVars, ledger, issued, aborts>>

\* verifyTransaction answers for the reference read earlier: a definite
\* success is confirmed (looked up again by that reference), anything else
\* is left as it is.
ReconcileVerify(w) ==
    /\ job[w].step = "verify"
    /\ job' = [job EXCEPT ![w] =
                  IF paystack[job[w].ref] = "charged"
                  THEN [@ EXCEPT !.step = "settle", !.found = Find(job[w].ref)]
                  ELSE Idle]
    /\ UNCHANGED <<rowVars, ticketVars, stockVars, hookVars, envVars, ledger, issued, aborts>>

\* confirmPaymentWithinTransaction on the locked row p.
ConfirmRow(p) ==
    /\ Confirmable(p)
    /\ status' = [status EXCEPT ![p] = "PAID"]
    /\ sold' = sold + qty[p]
    /\ held' = held - ReleasedByConfirm(p)
    /\ late' = IF status[p] = "PENDING" THEN late ELSE late \cup {p}
    /\ ledger' = [ledger EXCEPT ![p] = [SUCCEEDED |-> @.SUCCEEDED + 1,
                                        COMMISSION |-> @.COMMISSION + 1,
                                        FAILED |-> @.FAILED]]
    /\ UNCHANGED <<invite, qty, payRef, lapsed, issued>>

\* failPaymentWithinTransaction on the locked row p.
FailRow(p) ==
    /\ Failable(p)
    /\ status' = [status EXCEPT ![p] = "FAILED"]
    /\ held' = held - qty[p]
    /\ ledger' = [ledger EXCEPT ![p].FAILED = @ + 1]
    /\ UNCHANGED <<invite, qty, payRef, lapsed, sold, late, issued>>

RowUntouched == UNCHANGED <<rowVars, stockVars, ledger, issued>>

\* The row lock is granted and the transaction commits, with the dedupe key
\* when a webhook opened it.  The row is the one found by the lookup, and
\* its reference is not compared again.
Settle(w) ==
    LET j == job[w]
        hook == j.kind \in EventNames
    IN
    /\ j.step = "settle"
    /\ \/ /\ j.found # None
          /\ j.kind \in {"charge.success", "reconcile"}
          /\ ConfirmRow(j.found) \/ (~Confirmable(j.found) /\ RowUntouched)
       \/ /\ j.found # None
          /\ j.kind \in {"charge.failed", "checkoutFailed"}
          /\ FailRow(j.found) \/ (~Failable(j.found) /\ RowUntouched)
       \/ /\ j.found = None
          /\ RowUntouched
    /\ processed' = IF hook THEN processed \cup {<<j.kind, j.ref>>} ELSE processed
    /\ unhandled' = IF hook /\ j.found = None
                    THEN unhandled \cup {<<j.kind, j.ref>>} ELSE unhandled
    /\ job' = [job EXCEPT ![w] = Idle]
    /\ UNCHANGED <<ticketVars, envVars, duplicates, aborts>>

\* A transaction times out or a process dies: what was not committed is gone,
\* and so is the request.  A webhook's key goes with it, so Paystack's retry
\* finds it free.  A guest without an email leaves retryTicketPayment the
\* same way, between the committed hold and the checkout.
Abort(w) ==
    /\ aborts < MaxAborts
    /\ job[w] # Idle
    /\ job' = [job EXCEPT ![w] = Idle]
    /\ aborts' = aborts + 1
    /\ UNCHANGED <<rowVars, ticketVars, stockVars, hookVars, envVars, ledger, issued>>

-----------------------------------------------------------------------------
(* The world around: time, the organiser, Paystack and its customer.       *)

HoldLapses(p) ==
    /\ status[p] = "PENDING"
    /\ ~lapsed[p]
    /\ lapsed' = [lapsed EXCEPT ![p] = TRUE]
    /\ UNCHANGED <<invite, status, qty, payRef, ticketVars, stockVars, hookVars, envVars,
                   ledger, issued, job, aborts>>

\* ticketService.update takes any whole number, below what is sold too.
SetLimit(n) ==
    /\ limit' = n
    /\ peak' = IF n > peak THEN n ELSE peak
    /\ UNCHANGED <<rowVars, onSale, payout, stockVars, hookVars, envVars, ledger, issued, job, aborts>>

SetOnSale(b) ==
    /\ onSale' = b
    /\ UNCHANGED <<rowVars, limit, payout, peak, stockVars, hookVars, envVars, ledger, issued, job, aborts>>

SetPayout(b) ==
    /\ payout' = b
    /\ UNCHANGED <<rowVars, limit, onSale, peak, stockVars, hookVars, envVars, ledger, issued, job, aborts>>

\* A charge attempt on an open checkout fails; the page stays open.
PaystackDeclines(r) ==
    /\ paystack[r] = "open"
    /\ sent' = sent \cup {<<"charge.failed", r>>}
    /\ UNCHANGED <<rowVars, ticketVars, stockVars, hookVars, paystack, ledger, issued, job, aborts>>

\* A charge succeeds: the money has moved.  The page does not know of
\* holdExpiresAt.
PaystackCharges(r) ==
    /\ paystack[r] = "open"
    /\ paystack' = [paystack EXCEPT ![r] = "charged"]
    /\ sent' = sent \cup {<<"charge.success", r>>}
    /\ UNCHANGED <<rowVars, ticketVars, stockVars, hookVars, ledger, issued, job, aborts>>

-----------------------------------------------------------------------------

Next ==
    \/ \E w \in Workers, i \in Invites : SubmitRead(w, i)
    \/ \E w \in Workers, p \in Purchases, r \in Refs, q \in 1..MaxQty : SubmitReserve(w, p, r, q)
    \/ \E w \in Workers : SubmitRefused(w)
    \/ \E w \in Workers, p \in Purchases, r \in Refs : RetryPayment(w, p, r)
    \/ \E w \in Workers : CheckoutStarts(w)
    \/ \E w \in Workers : CheckoutFails(w)
    \/ \E w \in Workers, k \in Events : HookStart(w, k)
    \/ \E k \in Events : HookDuplicate(k)
    \/ \E w \in Workers, p \in Purchases : ReconcileRead(w, p)
    \/ \E w \in Workers : ReconcileVerify(w)
    \/ \E w \in Workers : Settle(w)
    \/ \E w \in Workers : Abort(w)
    \/ \E p \in Purchases : HoldLapses(p)
    \/ \E n \in Limits : SetLimit(n)
    \/ \E b \in Switches : SetOnSale(b)
    \/ \E b \in Switches : SetPayout(b)
    \/ \E r \in Refs : PaystackDeclines(r)
    \/ \E r \in Refs : PaystackCharges(r)

Spec == Init /\ [][Next]_vars

\* Requests in progress are served to their end, and Paystack goes on
\* delivering an event until it is answered 200.  Nothing is assumed of
\* guests, of the organiser or of a charge ever being made.
Fairness ==
    /\ \A w \in Workers : /\ WF_vars(Settle(w))
                          /\ WF_vars(ReconcileVerify(w))
                          /\ WF_vars(CheckoutStarts(w) \/ CheckoutFails(w))
    /\ \A k \in Events : SF_vars(\E w \in Workers : HookStart(w, k))

FairSpec == Spec /\ Fairness

-----------------------------------------------------------------------------
(* Properties.                                                             *)

\* The type of every variable.
TypeOK ==
    /\ invite \in [Purchases -> Invites \cup {None}]
    /\ status \in [Purchases -> Statuses]
    /\ qty \in [Purchases -> 0..MaxQty]
    /\ payRef \in [Purchases -> Refs \cup {None}]
    /\ lapsed \in [Purchases -> BOOLEAN]
    /\ limit \in Limits /\ peak \in Limits
    /\ onSale \in BOOLEAN /\ payout \in BOOLEAN
    /\ sold \in Int /\ held \in Int
    /\ late \in SUBSET Purchases
    /\ ledger \in [Purchases -> LedgerCounts]
    /\ issued \in [Refs -> Purchases \cup {None}]
    /\ processed \in SUBSET Events
    /\ unhandled \in SUBSET Events
    /\ duplicates \in BOOLEAN
    /\ paystack \in [Refs -> {"unknown", "open", "charged"}]
    /\ sent \in SUBSET Events
    /\ job \in [Workers -> Jobs]
    /\ aborts \in 0..MaxAborts

\* heldCount is exactly the tickets of the PENDING purchases, whoever
\* releases them first: the sweep, a confirmation, a failed checkout or a
\* charge.failed webhook.  Each hold is given back once.
HeldExact == held = UnitsOf(WithStatus("PENDING"))

\* soldCount is exactly the tickets of the PAID purchases: the webhook and
\* the callback's reconcile never both count a sale.
SoldExact == sold = UnitsOf(WithStatus("PAID"))

\* The ledger tells the same story as the rows: one SUCCEEDED and one
\* COMMISSION entry for a PAID purchase and none for another, and never more
\* FAILED entries than attempts that are over.
LedgerExact ==
    \A p \in Purchases :
        /\ ledger[p].SUCCEEDED = (IF status[p] = "PAID" THEN 1 ELSE 0)
        /\ ledger[p].COMMISSION = ledger[p].SUCCEEDED
        /\ ledger[p].FAILED + (IF status[p] = "PENDING" THEN 1 ELSE 0)
              <= Cardinality({r \in Refs : issued[r] = p})

\* Tickets are oversold only by purchases confirmed after their hold had been
\* given back: all the others, sold or held, always fit the largest quantity
\* the organiser ever put on sale.
StockBound == sold + held - UnitsOf(late) <= peak

\* A webhook that ticketing had issued the reference of goes unclaimed only
\* if a retry has put another reference on that purchase.
UnclaimedOnlyIfSuperseded ==
    \A k \in Events : k \in unhandled =>
        issued[k[2]] # None /\ payRef[issued[k[2]]] # k[2]

\* A PAID purchase stays PAID, whatever arrives afterwards: a late
\* charge.failed, the sweep, a retry.
PaidIsFinal ==
    [][\A p \in Purchases : status[p] = "PAID" => status'[p] = "PAID"]_vars

\* A charge on the current reference is recorded, through crashes, lapsed
\* holds and duplicated webhooks, unless a retry takes the reference away.
ChargeIsRecorded ==
    \A r \in Refs :
        paystack[r] = "charged" ~>
            (issued[r] # None /\ (status[issued[r]] = "PAID" \/ payRef[issued[r]] # r))

Phase(s) == CASE s = "NONE" -> "none"
              [] s = "PENDING" -> "held"
              [] s = "PAID" -> "paid"
              [] OTHER -> "released"

Stock == INSTANCE TicketStock WITH
            phase <- [p \in Purchases |-> Phase(status[p])],
            open <- onSale /\ payout

\* The counters, the row locks, the lazy sweep and the lookups by reference
\* together do what TicketStock says of one ticket type: every hold found
\* room among all that is really held and paid, and a row goes through the
\* phases in no other way.
StockSpec == Stock!Spec

\* ticket-purchase.service.ts: once Paystack says a charge succeeded, not
\* recording it as PAID would leave the records permanently wrong.
ProcessedChargeIsPaid ==
    \A r \in Refs :
        <<"charge.success", r>> \in processed =>
            issued[r] # None /\ status[issued[r]] = "PAID"
=============================================================================
