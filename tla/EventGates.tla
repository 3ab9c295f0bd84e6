----------------------------- MODULE EventGates -----------------------------
(***************************************************************************)
(* What may make an event public or paid, and what may be sold: the        *)
(* platform's feature switches, the plan or pass, and the payout account   *)
(* (event.service.ts's create, update and publish,                         *)
(* ticketing-availability.util.ts, public-events-availability.util.ts,     *)
(* payment-account-readiness.util.ts).  The plan's limit on active events  *)
(* is EventCreation's; the steps of publishing are EventStatus's.          *)
(***************************************************************************)
EXTENDS EventEntitlement

Features == {"ticketing", "publicEvents"}   \* those of the switches these rules read
Ticketings == {"FREE", "PAID"}
Visibilities == {"PRIVATE", "PUBLIC"}

\* An event, with the plan its workspace has now; what a request sends, which may
\* leave either field out; and the payout account.
GatedEvents == [ticketing : Ticketings, visibility : Visibilities, tier : Tiers, pass : PassTiers, active : BOOLEAN]
SentFields == [ticketing : Ticketings \cup {"unsent"}, visibility : Visibilities \cup {"unsent"}]
Payouts == [status : {"NOT_STARTED", "PENDING", "ACTIVE", "FAILED"}, hasCode : BOOLEAN]

\* Switched off, a feature may not be turned on; an event that has it keeps it.
PaidTicketingAvailable(on, ticketing, current) ==
    ticketing = "PAID" /\ current # "PAID" => "ticketing" \in on
PublicEventsAvailable(on, visibility, current) ==
    visibility = "PUBLIC" /\ current # "PUBLIC" => "publicEvents" \in on

\* Somewhere for the money to land, and the plan's or the pass's leave to sell.
SubaccountReadyForPurchase(payout) == payout.status = "ACTIVE" /\ payout.hasCode
TenantReadyToSellTickets(config, tier, payout) ==
    resolveTierCapability(config, tier, "paidTicketing") /\ SubaccountReadyForPurchase(payout)
EventReadyToSellTickets(config, event, payout) ==
    TenantReadyToSellTickets(config, resolveEventEntitlement(event.tier, event.pass, event.active), payout)

AsksOf(ticketing, visibility) ==
    (IF ticketing = "PAID" THEN {"paidTicketing"} ELSE {})
      \cup (IF visibility = "PUBLIC" THEN {"publicEvents"} ELSE {})

------------------------------------------------------------------------------
\* create: an event has no pass yet, so only the workspace's plan counts.
EventCreateAllowed(config, on, tier, data, payout) ==
    /\ PaidTicketingAvailable(on, data.ticketing, "none")
    /\ PublicEventsAvailable(on, data.visibility, "none")
    /\ Gates(config, tier, AsksOf(data.ticketing, data.visibility))
    /\ data.ticketing = "PAID" => TenantReadyToSellTickets(config, tier, payout)

Created(tier, pass, data) ==
    [ticketing |-> IF data.ticketing = "unsent" THEN "FREE" ELSE data.ticketing,
     visibility |-> IF data.visibility = "unsent" THEN "PRIVATE" ELSE data.visibility,
     tier |-> tier, pass |-> pass, active |-> FALSE]

\* update: a switched-off feature's value stays out of the plan's and the payout's checks.
EventUpdateAllowed(config, on, event, data, payout) ==
    LET ticketing == IF "ticketing" \in on THEN data.ticketing ELSE "unsent"
        visibility == IF "publicEvents" \in on THEN data.visibility ELSE "unsent"
    IN  /\ PaidTicketingAvailable(on, data.ticketing, event.ticketing)
        /\ PublicEventsAvailable(on, data.visibility, event.visibility)
        /\ EventUpdatable(config, event.tier, event.pass, event.active, AsksOf(ticketing, visibility))
        /\ ticketing = "PAID" => EventReadyToSellTickets(config, event, payout)

Updated(event, data) ==
    [ticketing |-> IF data.ticketing = "unsent" THEN event.ticketing ELSE data.ticketing,
     visibility |-> IF data.visibility = "unsent" THEN event.visibility ELSE data.visibility,
     tier |-> event.tier, pass |-> event.pass, active |-> event.active]

\* publish: a draft saved as paid or public before a switch went off is refused.
\* It asks the plan about selling, not about being public.
EventPublishAllowed(config, on, event, payout) ==
    /\ PaidTicketingAvailable(on, event.ticketing, "none")
    /\ PublicEventsAvailable(on, event.visibility, "none")
    /\ event.ticketing = "PAID" => EventReadyToSellTickets(config, event, payout)

------------------------------------------------------------------------------
\* Both fields are sent; nothing but what the event has is.
SendsBoth(data) == data.ticketing # "unsent" /\ data.visibility # "unsent"
SendsNothingNew(data, event) ==
    data.ticketing \in {"unsent", event.ticketing} /\ data.visibility \in {"unsent", event.visibility}
=============================================================================
