---------------------------- MODULE Subscription ----------------------------
(***************************************************************************)
(* The paid plan of ONE tenant: subscription.service.ts (subscribe,        *)
(* changeTier, cancel and the four webhook handlers), the statements of    *)
(* subscription.repository.ts, and the plan effective-tier.util.ts derives *)
(* from the row when it is read.  Nothing sweeps the row: it follows       *)
(* Paystack through webhooks alone.                                        *)
(*                                                                         *)
(* A worker is one request; its read, each call to Paystack and each write *)
(* are steps of their own, there is no transaction around them.  A webhook *)
(* handler is one transaction and one step, and what it does after the     *)
(* commit is another.  Paystack is external: it owns the renewals, and     *)
(* tells of them in events.  A plan is its rank (tier and period together, *)
(* 0 is SPARK).                                                            *)
(***************************************************************************)
EXTENDS Integers, FiniteSets, Sequences, SequencesExt

CONSTANTS
    Codes,      \* Paystack subscription codes
    Refs,       \* references generateSubscribeReference can produce
    Workers,    \* requests that can be in progress at once
    TopPlan,    \* the highest plan's rank
    MaxTime,    \* bound on the clock
    Period,     \* the ticks a charge pays for
    Grace,      \* GRACE_PERIOD_DAYS, in ticks
    Faults,     \* what may go wrong outside, in a run (see below)
    None        \* SQL NULL

\* The events that carry neither an id nor a reference: extractReference gives
\* null, and their dedupe key is their name.
SubscriptionEvents == {"subscription.create", "subscription.disable"}

ASSUME ConstantsAssumption ==
    /\ IsFiniteSet(Codes) /\ IsFiniteSet(Refs) /\ IsFiniteSet(Workers)
    /\ TopPlan \in Nat \ {0} /\ MaxTime \in Nat
    /\ Period \in Nat \ {0} /\ Grace \in Nat
    /\ Faults \subseteq {"reorder", "lose", "refresh", "pages"} \cup SubscriptionEvents
    /\ None \notin Codes \cup Refs \cup Nat

(* The faults of a run:                                                    *)
(*   "reorder"  events are delivered in any order, several at a time       *)
(*   "lose"     a subscription.disable event is never delivered            *)
(*   "refresh"  the call that follows a renewal's webhook fails            *)
(*   "pages"    a checkout page is used although a later one was opened    *)
(*              or the tenant has a subscription already                   *)
(*   and the name of a subscription event: one of that name is answered as *)
(*              the duplicate of one handled before, of any tenant         *)

VARIABLES
    plan,       \* Tenant.subscriptionTier and subscriptionPeriod
    code,       \* Tenant.paystackSubscriptionCode (and its email token)
    cancelled,  \* Tenant.subscriptionCancelAtPeriodEnd
    endsAt,     \* Tenant.subscriptionCurrentPeriodEnd
    graceAt,    \* Tenant.subscriptionGraceStartedAt
    pending,    \* Tenant.subscriptionPendingReference
    known,      \* Tenant.paystackCustomerCode is set
    refresh,    \* subscriptions whose period end a webhook has yet to fetch
    job,        \* what each worker is doing
    now,        \* the clock
    page,       \* Paystack's checkout page of each reference
    subs,       \* Paystack's own record of each subscription
    events,     \* events emitted and not yet handled, oldest first
    hit         \* history: the faults there have been

rowVars == <<plan, code, cancelled, endsAt, graceAt, pending, known>>
payVars == <<page, subs>>
vars == <<rowVars, refresh, job, now, payVars, events, hit>>

Request(s, k, p, c) == [step |-> s, kind |-> k, plan |-> p, ref |-> None, code |-> c]
Idle == Request("idle", "none", 0, None)

JobRecords == [step : {"idle", "save", "open", "disable", "create", "schedule"},
               kind : {"none", "subscribe", "upgrade", "end"},
               plan : 0..TopPlan,
               ref : Refs \cup {None},
               code : Codes \cup {None}]

\* What is being disabled is a subscription.
Jobs == {j \in JobRecords : j.step = "disable" => j.code \in Codes}

Pages == [state : {"none", "issued", "open", "left", "paid"}, plan : 0..TopPlan]

SubRecords == [state : {"none", "active", "attention", "disabled"},
               plan : 0..TopPlan,
               next : 0..MaxTime + Period]   \* next_payment_date: paid for until then

EventRecords == [name : {"charge.success", "charge.failed",
                         "subscription.create", "subscription.disable"},
                 ref : Refs \cup {None},
                 code : Codes \cup {None}]

\* A subscription.create event says which.
Events == {e \in EventRecords : e.name = "subscription.create" => e.code \in Codes}

Event(n, r, c) == [name |-> n, ref |-> r, code |-> c]

-----------------------------------------------------------------------------
(* What the row says.                                                      *)

\* resolveEffectiveTier.
EffectivePlan ==
    IF cancelled THEN IF endsAt # None /\ now < endsAt THEN plan ELSE 0
    ELSE IF graceAt # None /\ now >= graceAt + Grace THEN 0
    ELSE plan

\* subscribe is refused while this holds.
HasActiveSubscription == code # None /\ ~cancelled

\* recordChargeFailureIfFirst.  (Here and below, a definition followed by a
\* second one of the same purpose is the mistake the second one avoids.)
GraceStartDeadline == now + Grace
GraceStartAlways == now
GraceStart == IF graceAt = None THEN now ELSE graceAt

\* The subscription a webhook has to ask Paystack about once it commits.
NothingToRefresh == {}
ToRefresh == IF code # None THEN {code} ELSE {}

\* Paystack disables a subscription that is running, and refuses another.
Running(c) == subs[c].state \in {"active", "attention"}

\* changeTier and cancel stop when Paystack refuses to disable.
GoesOnRefused(w) == TRUE
GoesOn(w) == Running(job[w].code)

Init ==
    /\ plan = 0 /\ code = None /\ cancelled = FALSE /\ endsAt = None
    /\ graceAt = None /\ pending = None /\ known = FALSE
    /\ refresh = {}
    /\ job = [w \in Workers |-> Idle]
    /\ now = 0
    /\ page = [r \in Refs |-> [state |-> "none", plan |-> 0]]
    /\ subs = [c \in Codes |-> [state |-> "none", plan |-> 0, next |-> 0]]
    /\ events = <<>>
    /\ hit = {}

-----------------------------------------------------------------------------
(* Requests.                                                               *)

\* subscribe reads the tenant, and goes on without an active subscription.
SubscribeRead(w, p) ==
    /\ job[w] = Idle
    /\ ~HasActiveSubscription
    /\ job' = [job EXCEPT ![w] = Request("save", "subscribe", p, None)]
    /\ UNCHANGED <<rowVars, refresh, now, payVars, events, hit>>

\* savePendingAttempt, over whatever attempt there was.
SubscribeSave(w, r) ==
    /\ job[w].step = "save"
    /\ page[r].state = "none"
    /\ pending' = r
    /\ page' = [page EXCEPT ![r] = [state |-> "issued", plan |-> job[w].plan]]
    /\ job' = [job EXCEPT ![w].step = "open", ![w].ref = r]
    /\ UNCHANGED <<plan, code, cancelled, endsAt, graceAt, known, refresh, now, subs, events, hit>>

\* initializeTransaction succeeds.  The customer leaves the pages before it.
SubscribeOpens(w) ==
    /\ job[w].step = "open"
    /\ page' = [r \in Refs |->
                   IF r = job[w].ref THEN [page[r] EXCEPT !.state = "open"]
                   ELSE IF page[r].state = "open" THEN [page[r] EXCEPT !.state = "left"]
                   ELSE page[r]]
    /\ job' = [job EXCEPT ![w] = Idle]
    /\ UNCHANGED <<rowVars, refresh, now, subs, events, hit>>

\* It throws: clearPendingAttempt, whichever attempt is the pending one.
SubscribeFails(w) ==
    /\ job[w].step = "open"
    /\ pending' = None
    /\ job' = [job EXCEPT ![w] = Idle]
    /\ UNCHANGED <<plan, code, cancelled, endsAt, graceAt, known, refresh, now, payVars, events, hit>>

\* changeTier reads the tenant; a plan of a higher rank is an upgrade.
UpgradeRead(w, p) ==
    /\ job[w] = Idle
    /\ HasActiveSubscription
    /\ p > plan
    /\ job' = [job EXCEPT ![w] = Request("disable", "upgrade", p, code)]
    /\ UNCHANGED <<rowVars, refresh, now, payVars, events, hit>>

\* cancel, and changeTier to any other plan, the current one included.
EndRead(w) ==
    /\ job[w] = Idle
    /\ HasActiveSubscription
    /\ job' = [job EXCEPT ![w] = Request("disable", "end", 0, code)]
    /\ UNCHANGED <<rowVars, refresh, now, payVars, events, hit>>

\* disableSubscription of the code that was read.
Disable(w) ==
    LET c == job[w].code IN
    /\ job[w].step = "disable"
    /\ GoesOn(w)
    /\ IF Running(c)
       THEN /\ subs' = [subs EXCEPT ![c].state = "disabled"]
            /\ events' = Append(events, Event("subscription.disable", None, c))
       ELSE UNCHANGED <<subs, events>>
    /\ job' = [job EXCEPT ![w].step = IF job[w].kind = "upgrade" THEN "create" ELSE "schedule"]
    /\ UNCHANGED <<rowVars, refresh, now, page, hit>>

\* A subscription starts at Paystack: the first period is charged at once.
\* The two events come in either order.
Starts(c, p, r) ==
    /\ subs[c].state = "none"
    /\ subs' = [subs EXCEPT ![c] = [state |-> "active", plan |-> p, next |-> now + Period]]
    /\ \E s \in {<<Event("charge.success", r, None), Event("subscription.create", None, c)>>,
                 <<Event("subscription.create", None, c), Event("charge.success", r, None)>>} :
          events' = events \o s

\* createSubscription with the saved card.
Create(w, c) ==
    /\ job[w].step = "create"
    /\ Starts(c, job[w].plan, None)
    /\ job' = [job EXCEPT ![w] = Idle]
    /\ UNCHANGED <<rowVars, refresh, now, page, hit>>

\* scheduleEndOfPeriodChange, whichever subscription the row now names.
Schedule(w) ==
    /\ job[w].step = "schedule"
    /\ cancelled' = TRUE
    /\ job' = [job EXCEPT ![w] = Idle]
    /\ UNCHANGED <<plan, code, endsAt, graceAt, pending, known, refresh, now, payVars, events, hit>>

\* A call to Paystack is refused or times out, or the process dies: the
\* request ends where it is, with nothing undone.
Abort(w) ==
    /\ job[w] # Idle
    /\ job' = [job EXCEPT ![w] = Idle]
    /\ UNCHANGED <<rowVars, refresh, now, payVars, events, hit>>

-----------------------------------------------------------------------------
(* Webhooks.  An event once handled is never handled again (see            *)
(* TicketPurchase for the dedupe key); and one that is handled may pass    *)
(* for another that never was.                                             *)

\* The event at k is delivered, and with it the faults in more.  Paystack waits
\* for the answer to one event before it sends the next, and the answer waits
\* for the refresh.
Arrives(k, more) ==
    LET inOrder == k = 1 /\ refresh = {} IN
    /\ inOrder \/ "reorder" \in Faults
    /\ hit' = hit \cup more \cup (IF inOrder THEN {} ELSE {"reorder"})
    /\ events' = RemoveAt(events, k)

\* Its key is new: it is handled.
Deliver(k) == Arrives(k, {})

\* Its key is taken.  The key of a subscription event is its name alone, the
\* same for every tenant, so what took it need not be an event of this one:
\* that it is taken is a choice.  markProcessed fails, the transaction is
\* rolled back, and Paystack is answered that the event was handled.
Duplicate(k) ==
    /\ events[k].name \in Faults
    /\ Arrives(k, {events[k].name})
    /\ UNCHANGED <<rowVars, refresh, job, now, payVars>>

\* handleChargeSuccess: the pending attempt's own charge, or any other charge
\* of a customer that is known, taken for a renewal.
ChargeSucceeded(k) ==
    LET own == events[k].ref # None /\ events[k].ref = pending IN
    /\ events[k].name = "charge.success"
    /\ Deliver(k)
    /\ IF own \/ known
       THEN /\ known' = TRUE
            /\ graceAt' = None
            /\ refresh' = IF own THEN refresh ELSE refresh \cup ToRefresh
       ELSE UNCHANGED <<known, graceAt, refresh>>
    /\ UNCHANGED <<plan, code, cancelled, endsAt, pending, job, now, payVars>>

\* postCommit: getSubscription, then updateCurrentPeriodEnd.
Refresh(c) ==
    /\ c \in refresh
    /\ endsAt' = subs[c].next
    /\ refresh' = refresh \ {c}
    /\ UNCHANGED <<plan, code, cancelled, graceAt, pending, known, job, now, payVars, events, hit>>

RefreshLost(c) ==
    /\ "refresh" \in Faults
    /\ c \in refresh
    /\ refresh' = refresh \ {c}
    /\ hit' = hit \cup {"refresh"}
    /\ UNCHANGED <<rowVars, job, now, payVars, events>>

\* handleChargeFailed: the pending attempt is given up, or grace starts.
ChargeFailed(k) ==
    LET own == events[k].ref # None /\ events[k].ref = pending IN
    /\ events[k].name = "charge.failed"
    /\ Deliver(k)
    /\ pending' = IF own THEN None ELSE pending
    /\ graceAt' = IF ~own /\ known THEN GraceStart ELSE graceAt
    /\ UNCHANGED <<plan, code, cancelled, endsAt, known, refresh, job, now, payVars>>

\* handleSubscriptionCreate, matched by the tenant's email: activateSubscription.
SubscriptionCreated(k) ==
    LET c == events[k].code IN
    /\ events[k].name = "subscription.create"
    /\ Deliver(k)
    /\ plan' = subs[c].plan
    /\ code' = c
    /\ endsAt' = subs[c].next
    /\ cancelled' = FALSE
    /\ graceAt' = None
    /\ pending' = None
    /\ known' = TRUE
    /\ UNCHANGED <<refresh, job, now, payVars>>

\* handleSubscriptionDisable (and not_renew), matched by email alone: the
\* subscription the event is about is not compared with the row's.
SubscriptionDisabled(k) ==
    /\ events[k].name = "subscription.disable"
    /\ Deliver(k)
    /\ cancelled' = TRUE
    /\ UNCHANGED <<plan, code, endsAt, graceAt, pending, known, refresh, job, now, payVars>>

-----------------------------------------------------------------------------
(* Paystack, its customer and time.                                        *)

Emit(e) == events' = IF \E k \in DOMAIN events : events[k] = e THEN events ELSE Append(events, e)

\* The customer uses a page: the last one opened, while their subscription is
\* neither running nor being replaced; with the fault, any page at any time.
Uses(r) ==
    LET proper == /\ page[r].state = "open"
                  /\ \A c \in Codes : ~Running(c)
                  /\ \A w \in Workers : job[w].step # "create"
    IN
    /\ page[r].state \in {"open", "left"}
    /\ proper \/ "pages" \in Faults
    /\ hit' = IF proper THEN hit ELSE hit \cup {"pages"}

Pays(r, c) ==
    /\ Uses(r)
    /\ Starts(c, page[r].plan, r)
    /\ page' = [page EXCEPT ![r].state = "paid"]
    /\ UNCHANGED <<rowVars, refresh, job, now>>

Declined(r) ==
    /\ Uses(r)
    /\ Emit(Event("charge.failed", r, None))
    /\ UNCHANGED <<rowVars, refresh, job, now, payVars>>

Due(c) == Running(c) /\ subs[c].next <= now

\* The payment date that follows t on its schedule: always one ahead.
DatesAhead(t) == {d \in now + 1..now + Period : (d - t) % Period = 0}

Renews(c) ==
    /\ Due(c)
    /\ \E d \in DatesAhead(subs[c].next) :
          subs' = [subs EXCEPT ![c].state = "active", ![c].next = d]
    /\ Emit(Event("charge.success", None, None))
    /\ UNCHANGED <<rowVars, refresh, job, now, page, hit>>

\* The card is refused; Paystack tries again later.
RenewalFails(c) ==
    /\ Due(c)
    /\ subs' = [subs EXCEPT ![c].state = "attention"]
    /\ Emit(Event("charge.failed", None, None))
    /\ UNCHANGED <<rowVars, refresh, job, now, page, hit>>

\* Paystack, or the customer on Paystack's own page, ends a subscription.
EndsAtPaystack(c) ==
    /\ Running(c)
    /\ subs' = [subs EXCEPT ![c].state = "disabled"]
    /\ Emit(Event("subscription.disable", None, c))
    /\ UNCHANGED <<rowVars, refresh, job, now, page, hit>>

Lost(k) ==
    /\ "lose" \in Faults
    /\ events[k].name = "subscription.disable"
    /\ events' = RemoveAt(events, k)
    /\ hit' = hit \cup {"lose"}
    /\ UNCHANGED <<rowVars, refresh, job, now, payVars>>

\* A tick is longer than a delivery takes, and a renewal is tried on its day.
Settled == events = <<>> /\ refresh = {} /\ \A c \in Codes : Due(c) => subs[c].state = "attention"

Tick ==
    /\ now < MaxTime
    /\ Settled
    /\ now' = now + 1
    /\ UNCHANGED <<rowVars, refresh, job, payVars, events, hit>>

-----------------------------------------------------------------------------

Next ==
    \/ \E w \in Workers, p \in 1..TopPlan : SubscribeRead(w, p)
    \/ \E w \in Workers, r \in Refs : SubscribeSave(w, r)
    \/ \E w \in Workers : SubscribeOpens(w)
    \/ \E w \in Workers : SubscribeFails(w)
    \/ \E w \in Workers, p \in 1..TopPlan : UpgradeRead(w, p)
    \/ \E w \in Workers : EndRead(w)
    \/ \E w \in Workers : Disable(w)
    \/ \E w \in Workers, c \in Codes : Create(w, c)
    \/ \E w \in Workers : Schedule(w)
    \/ \E w \in Workers : Abort(w)
    \/ \E k \in DOMAIN events : Duplicate(k)
    \/ \E k \in DOMAIN events : ChargeSucceeded(k)
    \/ \E c \in Codes : Refresh(c)
    \/ \E c \in Codes : RefreshLost(c)
    \/ \E k \in DOMAIN events : ChargeFailed(k)
    \/ \E k \in DOMAIN events : SubscriptionCreated(k)
    \/ \E k \in DOMAIN events : SubscriptionDisabled(k)
    \/ \E r \in Refs, c \in Codes : Pays(r, c)
    \/ \E r \in Refs : Declined(r)
    \/ \E c \in Codes : Renews(c)
    \/ \E c \in Codes : RenewalFails(c)
    \/ \E c \in Codes : EndsAtPaystack(c)
    \/ \E k \in DOMAIN events : Lost(k)
    \/ Tick

Spec == Init /\ [][Next]_vars

-----------------------------------------------------------------------------
(* Properties.                                                             *)

\* The type of every variable.
TypeOK ==
    /\ plan \in 0..TopPlan
    /\ code \in Codes \cup {None}
    /\ cancelled \in BOOLEAN
    /\ endsAt \in 0..MaxTime + Period \cup {None}
    /\ graceAt \in 0..MaxTime \cup {None}
    /\ pending \in Refs \cup {None}
    /\ known \in BOOLEAN
    /\ refresh \in SUBSET Codes
    /\ job \in [Workers -> Jobs]
    /\ now \in 0..MaxTime
    /\ page \in [Refs -> Pages]
    /\ subs \in [Codes -> SubRecords]
    /\ events \in Seq(Events)
    /\ hit \in SUBSET Faults

\* Concurrent upgrades and cancellations never leave a tenant paying for more
\* subscriptions than checkouts it went through: an upgrade replaces one.
ActiveWithinPaid ==
    Cardinality({c \in Codes : Running(c)}) + Cardinality({w \in Workers : job[w].step = "create"})
        <= Cardinality({r \in Refs : page[r].state = "paid"})

\* Nobody has a paid plan for longer than they paid for it and, while a
\* renewal is being retried, the one grace period after that: also when the
\* start of a subscription passes for one handled before.
EntitledOnlyIfPaid ==
    Settled /\ EffectivePlan > 0 =>
        \E c \in Codes :
            /\ subs[c].plan >= EffectivePlan
            /\ now < subs[c].next + (IF subs[c].state = "attention" THEN Grace ELSE 0)
EntitledIfDelivered == hit \subseteq {"refresh", "subscription.create"} => EntitledOnlyIfPaid

\* What the tenant paid for it has, the subscription that runs and the one its
\* row names, until the last day, cancelled or not.  This takes every fault
\* away: the start of a subscription that passes for another leaves the tenant
\* without the plan it pays for.
PaidIsEntitled ==
    Settled => \A c \in Codes :
        (Running(c) \/ c = code) /\ now < subs[c].next => EffectivePlan = subs[c].plan
PaidIsEntitledIfPlain == hit = {} => PaidIsEntitled
=============================================================================
