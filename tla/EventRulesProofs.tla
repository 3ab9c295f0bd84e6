-------------------------- MODULE EventRulesProofs --------------------------
(***************************************************************************)
(* What holds of the rules about an event for every input: its plan and    *)
(* its pass, what makes it public or paid, its days, the dates its         *)
(* organisers are shown and the list at its door.                          *)
(***************************************************************************)
EXTENDS TicketPricing, EventGates, EventDayFields, ShownDates, DoorRoster,
        FiniteSetTheorems, SequenceTheorems, WellFoundedInduction, TLAPS

LEMMA Ranks ==
    /\ TIER_RANK("SPARK") = 0 /\ TIER_RANK("CELEBRATE") = 1 /\ TIER_RANK("ELEVATE") = 2
    /\ \A tier \in Tiers : TIER_RANK(tier) \in 0..2
    /\ \A pass : EVENT_PASS_GRANTED_TIER(pass) \in Tiers
  BY SMT DEF TIER_RANK, Tiers, EVENT_PASS_GRANTED_TIER

LEMMA Caps ==
    /\ \A pass \in PassTiers : EVENT_PASS_GUEST_CAP(pass) \in Nat
    /\ \A less, more \in PassTiers : EVENT_PASS_TIER_RANK(less) < EVENT_PASS_TIER_RANK(more) =>
          /\ EVENT_PASS_GUEST_CAP(less) < EVENT_PASS_GUEST_CAP(more)
          /\ TIER_RANK(EVENT_PASS_GRANTED_TIER(less)) <= TIER_RANK(EVENT_PASS_GRANTED_TIER(more))
<1>1. \A pass \in PassTiers : EVENT_PASS_GUEST_CAP(pass) \in Nat
  BY SMT DEF PassTiers, EVENT_PASS_GUEST_CAP
<1>2. ASSUME NEW less \in PassTiers, NEW more \in PassTiers,
             EVENT_PASS_TIER_RANK(less) < EVENT_PASS_TIER_RANK(more)
      PROVE  /\ EVENT_PASS_GUEST_CAP(less) < EVENT_PASS_GUEST_CAP(more)
             /\ TIER_RANK(EVENT_PASS_GRANTED_TIER(less)) <= TIER_RANK(EVENT_PASS_GRANTED_TIER(more))
  BY <1>2, SMT DEF PassTiers, EVENT_PASS_GUEST_CAP, EVENT_PASS_TIER_RANK, TIER_RANK, EVENT_PASS_GRANTED_TIER
<1> QED
  BY <1>1, <1>2

\* The plan an event is treated as is never below the workspace's own, nor, while
\* the pass is active, below the one it grants; once the pass is over it is the
\* workspace's again, whatever that has become (resolveEventEntitlement).
THEOREM PassOnlyAdds ==
    ASSUME NEW tier \in Tiers, NEW pass \in PassTiers, NEW active \in BOOLEAN
    PROVE  LET plan == resolveEventEntitlement(tier, pass, active)
           IN  /\ plan \in Tiers
               /\ TIER_RANK(tier) <= TIER_RANK(plan)
               /\ active => TIER_RANK(EVENT_PASS_GRANTED_TIER(pass)) <= TIER_RANK(plan)
               /\ ~active => plan = tier
  BY Ranks, SMT DEF resolveEventEntitlement

\* Buying a larger pass, or moving to a higher plan, never lowers what an event
\* is treated as (resolveEventEntitlement).
THEOREM MoreIsNeverLess ==
    ASSUME NEW low \in Tiers, NEW high \in Tiers, TIER_RANK(low) <= TIER_RANK(high),
           NEW less \in PassTiers, NEW more \in PassTiers,
           EVENT_PASS_TIER_RANK(less) < EVENT_PASS_TIER_RANK(more)
    PROVE  /\ TIER_RANK(resolveEventEntitlement(low, less, TRUE))
                <= TIER_RANK(resolveEventEntitlement(low, more, TRUE))
           /\ TIER_RANK(resolveEventEntitlement(low, less, TRUE))
                <= TIER_RANK(resolveEventEntitlement(high, less, TRUE))
<1>1. TIER_RANK(EVENT_PASS_GRANTED_TIER(less)) <= TIER_RANK(EVENT_PASS_GRANTED_TIER(more))
  BY Caps
<1> DEFINE Raised(tier, pass) ==
             IF TIER_RANK(EVENT_PASS_GRANTED_TIER(pass)) > TIER_RANK(tier)
             THEN TIER_RANK(EVENT_PASS_GRANTED_TIER(pass)) ELSE TIER_RANK(tier)
<1>2. /\ TIER_RANK(resolveEventEntitlement(low, less, TRUE)) = Raised(low, less)
      /\ TIER_RANK(resolveEventEntitlement(low, more, TRUE)) = Raised(low, more)
      /\ TIER_RANK(resolveEventEntitlement(high, less, TRUE)) = Raised(high, less)
  BY Zenon DEF resolveEventEntitlement
<1>3. /\ TIER_RANK(low) \in Nat /\ TIER_RANK(high) \in Nat
      /\ TIER_RANK(EVENT_PASS_GRANTED_TIER(less)) \in Nat
      /\ TIER_RANK(EVENT_PASS_GRANTED_TIER(more)) \in Nat
  BY Ranks, SMT
<1>4. \A a, c, d \in Nat : c <= d => (IF c > a THEN c ELSE a) <= (IF d > a THEN d ELSE a)
  BY SMT
<1>5. \A a, b, c \in Nat : a <= b => (IF c > a THEN c ELSE a) <= (IF c > b THEN c ELSE b)
  BY SMT
<1>6. Raised(low, less) <= Raised(low, more)
  BY <1>1, <1>3, <1>4, Zenon
<1>7. Raised(low, less) <= Raised(high, less)
  BY <1>3, <1>5, Zenon
<1> HIDE DEF Raised
<1> QED
  BY <1>2, <1>6, <1>7, Zenon

------------------------------------------------------------------------------
\* The guests.

LEMMA PlanLimit ==
    ASSUME NEW config \in Configs, NEW tier \in Tiers
    PROVE  (IF config[tier] = NoRow THEN Unlimited ELSE config[tier].guests) \in Limits
<1>1. CASE config[tier] = NoRow
  BY <1>1, Zenon DEF Limits
<1>2. CASE config[tier] # NoRow
  <2>1. config[tier] \in Settings
    BY <1>2, Zenon DEF Configs
  <2>2. config[tier].guests \in Limits
    BY <2>1, SMT DEF Settings
  <2> QED
    BY <1>2, <2>2, Zenon
<1> QED
  BY <1>1, <1>2, Zenon

\* A pass never lowers the guests an event may have, whatever its plan's limit
\* was changed to, and never caps a plan that has none; when it is over, the
\* limit is the plan's (resolveGuestLimit).
THEOREM PassNeverTakesGuests ==
    ASSUME NEW config \in Configs, NEW tier \in Tiers, NEW pass \in PassTiers
    PROVE  LET own == resolveGuestLimit(config, tier, pass, FALSE)
               with == resolveGuestLimit(config, tier, pass, TRUE)
           IN  /\ own.limit = (IF config[tier] = NoRow THEN Unlimited ELSE config[tier].guests)
               /\ AtMost(own.limit, with.limit)
               /\ with.limit # Unlimited => EVENT_PASS_GUEST_CAP(pass) <= with.limit
<1> DEFINE plan == IF config[tier] = NoRow THEN Unlimited ELSE config[tier].guests
           own == resolveGuestLimit(config, tier, pass, FALSE)
           with == resolveGuestLimit(config, tier, pass, TRUE)
           cap == EVENT_PASS_GUEST_CAP(pass)
<1>1. plan \in Limits /\ cap \in Nat /\ Unlimited \notin Int
  BY PlanLimit, Caps, EntitlementAssumption
<1>2. own.limit = plan
  BY SMT DEF resolveGuestLimit, GuestLimit
<1>3. with.limit = IF plan = Unlimited THEN Unlimited ELSE IF cap >= plan THEN cap ELSE plan
  BY SMT DEF resolveGuestLimit, GuestLimit
<1> HIDE DEF own, with, plan, cap
<1>4. AtMost(plan, with.limit) /\ (with.limit # Unlimited => cap <= with.limit)
  <2>1. CASE plan = Unlimited
    BY <1>3, <2>1, Zenon DEF AtMost
  <2>2. CASE plan # Unlimited
    <3>1. plan \in Nat
      BY <1>1, <2>2, Zenon DEF Limits
    <3> QED
      BY <1>1, <1>3, <2>2, <3>1, SMT DEF AtMost
  <2> QED
    BY <2>1, <2>2, Zenon
<1> QED
  BY <1>2, <1>4 DEF own, with, plan, cap

\* A refusal advises what helps: told to upgrade the pass, any larger pass allows
\* more guests; told to upgrade the plan, so does any plan with a higher limit
\* (boundByPass and the wording of assertWithinPlanGuestLimit).
THEOREM AdviceHelps ==
    ASSUME NEW config \in Configs, NEW tier \in Tiers, NEW pass \in PassTiers, NEW active \in BOOLEAN,
           resolveGuestLimit(config, tier, pass, active).limit # Unlimited
    PROVE  LET now == resolveGuestLimit(config, tier, pass, active)
           IN  /\ now.boundByPass =>
                     \A more \in PassTiers : EVENT_PASS_TIER_RANK(pass) < EVENT_PASS_TIER_RANK(more) =>
                         now.limit < resolveGuestLimit(config, tier, more, TRUE).limit
               /\ ~now.boundByPass =>
                     \A high \in Tiers :
                         /\ config[high] # NoRow /\ config[high].guests # Unlimited
                         /\ config[high].guests > now.limit
                         => now.limit < resolveGuestLimit(config, high, pass, active).limit
<1> DEFINE plan == IF config[tier] = NoRow THEN Unlimited ELSE config[tier].guests
           now == resolveGuestLimit(config, tier, pass, active)
           cap == EVENT_PASS_GUEST_CAP(pass)
<1>1. plan \in Limits /\ cap \in Nat /\ Unlimited \notin Int
  BY PlanLimit, Caps, EntitlementAssumption
<1>2. /\ plan # Unlimited
      /\ now.boundByPass = (active /\ cap >= plan)
      /\ now.limit = IF active /\ cap >= plan THEN cap ELSE plan
  <2>1. now = IF plan = Unlimited THEN GuestLimit(Unlimited, FALSE)
              ELSE IF active /\ cap >= plan THEN GuestLimit(cap, TRUE) ELSE GuestLimit(plan, FALSE)
    BY Zenon DEF resolveGuestLimit
  <2>2. \A limit, byPass : GuestLimit(limit, byPass).limit = limit /\ GuestLimit(limit, byPass).boundByPass = byPass
    BY SMT DEF GuestLimit
  <2>3. now.limit # Unlimited
    BY Zenon
  <2> HIDE DEF now, plan, cap
  <2>4. plan # Unlimited
    <3>1. SUFFICES ASSUME plan = Unlimited PROVE FALSE
      BY Zenon
    <3>2. now = GuestLimit(Unlimited, FALSE)
      BY <2>1, <3>1, Zenon
    <3> QED
      BY <2>2, <2>3, <3>2, Zenon
  <2> QED
    BY <2>1, <2>2, <2>4, Zenon
<1>3. plan \in Nat
  BY <1>1, <1>2, Zenon DEF Limits
<1>4. ASSUME now.boundByPass, NEW more \in PassTiers, EVENT_PASS_TIER_RANK(pass) < EVENT_PASS_TIER_RANK(more)
      PROVE  now.limit < resolveGuestLimit(config, tier, more, TRUE).limit
  <2>1. EVENT_PASS_GUEST_CAP(more) \in Nat /\ cap < EVENT_PASS_GUEST_CAP(more)
    BY <1>4, Caps
  <2>2. cap >= plan /\ now.limit = cap
    BY <1>2, <1>4, Zenon
  <2>3. EVENT_PASS_GUEST_CAP(more) >= plan
    BY <1>1, <1>3, <2>1, <2>2, SMT
  <2>4. resolveGuestLimit(config, tier, more, TRUE).limit = EVENT_PASS_GUEST_CAP(more)
    BY <1>2, <2>3, SMT DEF resolveGuestLimit, GuestLimit
  <2> QED
    BY <2>1, <2>2, <2>4, Zenon
<1>5. ASSUME ~now.boundByPass, NEW high \in Tiers, config[high] # NoRow,
             config[high].guests # Unlimited, config[high].guests > now.limit
      PROVE  now.limit < resolveGuestLimit(config, high, pass, active).limit
  <2> DEFINE raised == config[high].guests
  <2>1. raised \in Nat
    BY <1>5, PlanLimit, Zenon DEF Limits
  <2>2. now.limit = plan /\ raised > plan
    BY <1>2, <1>5, Zenon
  <2>3. resolveGuestLimit(config, high, pass, active).limit = IF active /\ cap >= raised THEN cap ELSE raised
    BY <1>5, SMT DEF resolveGuestLimit, GuestLimit
  <2> HIDE DEF raised
  <2> QED
    BY <1>1, <1>3, <2>1, <2>2, <2>3, SMT
<1> QED
  BY <1>4, <1>5, Zenon

------------------------------------------------------------------------------
\* A pass may take something away, since an event is treated wholly as the plan
\* it grants and an admin sets each plan's row freely; it takes just this.  A save
\* is refused for it only over what the granted plan is shown to lack and the
\* workspace's own is not, which a plan with no row never lacks; the album and
\* the vendors go only if the row says so or is missing, and the space shrinks
\* only if it says so (assertEventUpdatable, assertMemoryHubAccessible,
\* assertEventVendorMarketplaceAccessible, getMemoryHubQuotaBytes).
THEOREM PassTakesWhatItsPlanLacks ==
    ASSUME NEW config \in Configs, NEW tier \in Tiers, NEW pass \in PassTiers, NEW asks \in Asks
    PROVE  LET granted == EVENT_PASS_GRANTED_TIER(pass)
               lost == asks \cap TakenByPass(config, tier, pass)
           IN  /\ EventUpdatable(config, tier, pass, FALSE, asks) =>
                     (EventUpdatable(config, tier, pass, TRUE, asks) <=> lost = {})
               /\ lost # {} => Raises(tier, pass) /\ config[granted] # NoRow
               /\ HubEnabled(config, tier, pass, FALSE) /\ ~HubEnabled(config, tier, pass, TRUE) =>
                     Raises(tier, pass) /\ (config[granted] = NoRow \/ ~config[granted].hub)
               /\ EventMarketOpen(config, tier, pass, FALSE) /\ ~EventMarketOpen(config, tier, pass, TRUE) =>
                     Raises(tier, pass) /\ (config[granted] = NoRow \/ ~config[granted].vendors)
               /\ ~AtMost(HubQuota(config, tier, pass, FALSE), HubQuota(config, tier, pass, TRUE)) =>
                     Raises(tier, pass) /\ config[granted] # NoRow /\ config[granted].hubBytes # Unlimited
<1> DEFINE granted == EVENT_PASS_GRANTED_TIER(pass)
           taken == TakenByPass(config, tier, pass)
           plan == resolveEventEntitlement(tier, pass, TRUE)
<1>1. /\ plan = IF Raises(tier, pass) THEN granted ELSE tier
      /\ resolveEventEntitlement(tier, pass, FALSE) = tier
  BY Zenon DEF resolveEventEntitlement, Raises
<1>2. \A c \in Capabilities :
         c \in taken <=> /\ Raises(tier, pass) /\ resolveTierCapability(config, tier, c)
                        /\ ~resolveTierCapability(config, granted, c)
  <2>1. \A t : resolvePlanSettings(config, t).allows = {c \in Capabilities : resolveTierCapability(config, t, c)}
    BY Zenon DEF resolvePlanSettings
  <2> QED
    BY <2>1, Zenon DEF TakenByPass
<1>3. asks \subseteq Capabilities /\ "vendorPriorityPlacement" \notin asks
  BY SMT DEF Asks, Capabilities
<1>4. granted # "SPARK"
  BY SMT DEF EVENT_PASS_GRANTED_TIER
<1>5. \A c \in asks : c \in taken => Raises(tier, pass) /\ config[granted] # NoRow
  BY <1>2, <1>3, <1>4, Zenon DEF resolveTierCapability, DefaultWithoutConfig
<1> HIDE DEF plan, taken, granted
<1>6. Gates(config, tier, asks) => (Gates(config, plan, asks) <=> asks \cap taken = {})
  <2>1. CASE Raises(tier, pass)
    BY <1>1, <1>2, <1>3, <2>1, Zenon DEF Gates
  <2>2. CASE ~Raises(tier, pass)
    <3>1. plan = tier /\ asks \cap taken = {}
      BY <1>1, <1>2, <1>3, <2>2, Zenon
    <3> QED
      BY <3>1, Zenon
  <2> QED
    BY <2>1, <2>2
<1>7. EventUpdatable(config, tier, pass, FALSE, asks) =>
         (EventUpdatable(config, tier, pass, TRUE, asks) <=> asks \cap taken = {})
  BY <1>1, <1>6, Zenon DEF EventUpdatable, plan
<1>8. asks \cap taken # {} => Raises(tier, pass) /\ config[granted] # NoRow
  BY <1>5, Zenon
<1>9. HubEnabled(config, tier, pass, FALSE) /\ ~HubEnabled(config, tier, pass, TRUE) =>
         Raises(tier, pass) /\ (config[granted] = NoRow \/ ~config[granted].hub)
  BY <1>1, Zenon DEF HubEnabled, plan
<1>m. EventMarketOpen(config, tier, pass, FALSE) /\ ~EventMarketOpen(config, tier, pass, TRUE) =>
         Raises(tier, pass) /\ (config[granted] = NoRow \/ ~config[granted].vendors)
  BY <1>1, Zenon DEF EventMarketOpen, TenantMarketOpen, plan
<1>10. ~AtMost(HubQuota(config, tier, pass, FALSE), HubQuota(config, tier, pass, TRUE)) =>
          Raises(tier, pass) /\ config[granted] # NoRow /\ config[granted].hubBytes # Unlimited
  <2> DEFINE Bytes(t) == IF config[t] = NoRow THEN Unlimited ELSE config[t].hubBytes
  <2>1. HubQuota(config, tier, pass, FALSE) = Bytes(tier) /\ HubQuota(config, tier, pass, TRUE) = Bytes(plan)
    BY <1>1, Zenon DEF HubQuota, plan
  <2>2. Bytes(tier) \in Limits /\ Bytes(granted) \in Limits
    <3>1. granted \in Tiers
      BY Ranks, Zenon DEF granted
    <3>2. \A t \in Tiers : config[t] # NoRow => config[t].hubBytes \in Limits
      BY SMT DEF Configs, Settings
    <3> QED
      BY <3>1, <3>2, Zenon DEF Limits
  <2>3. \A b \in Limits : AtMost(b, b) /\ AtMost(b, Unlimited)
    BY SMT DEF AtMost, Limits
  <2>4. ~AtMost(Bytes(tier), Bytes(plan)) => plan # tier /\ Bytes(plan) # Unlimited
    BY <2>2, <2>3, Zenon
  <2>5. ~AtMost(Bytes(tier), Bytes(plan)) => Raises(tier, pass) /\ Bytes(granted) # Unlimited
    BY <1>1, <2>4, Zenon
  <2> QED
    BY <2>1, <2>5, Zenon
<1> QED
  BY <1>7, <1>8, <1>9, <1>m, <1>10, Zenon DEF taken, granted

------------------------------------------------------------------------------
\* Public and paid events.

LEMMA AskedCapabilities ==
    /\ \A ticketing, visibility : AsksOf(ticketing, visibility) \in Asks
    /\ \A ticketing, visibility :
          /\ "paidTicketing" \in AsksOf(ticketing, visibility) <=> ticketing = "PAID"
          /\ "publicEvents" \in AsksOf(ticketing, visibility) <=> visibility = "PUBLIC"
    /\ AsksOf("unsent", "unsent") = {}
  BY SMT DEF AsksOf, Asks

\* With the features switched off, an event is saved with what it already has,
\* whatever the plan has become and whatever the payout account's state: the
\* stored values stay out of both checks (assertEventUpdateAllowed).
THEOREM SwitchedOffIsNeverRefused ==
    ASSUME NEW config, NEW event \in GatedEvents, NEW data \in SentFields, NEW payout,
           SendsNothingNew(data, event)
    PROVE  EventUpdateAllowed(config, {}, event, data, payout)
<1>1. data.ticketing \in {"unsent", event.ticketing} /\ data.visibility \in {"unsent", event.visibility}
  BY DEF SendsNothingNew
<1>2. /\ PaidTicketingAvailable({}, data.ticketing, event.ticketing)
      /\ PublicEventsAvailable({}, data.visibility, event.visibility)
  BY <1>1, SMT DEF PaidTicketingAvailable, PublicEventsAvailable
<1>3. EventUpdatable(config, event.tier, event.pass, event.active, AsksOf("unsent", "unsent"))
  BY AskedCapabilities, Zenon DEF EventUpdatable, Gates
<1>4. "unsent" # "PAID"
  OBVIOUS
<1> QED
  BY <1>2, <1>3, <1>4, Zenon DEF EventUpdateAllowed

\* An event created, or saved with both of its fields sent while the features are
\* on, may be published for as long as the plan, the pass, the features and the
\* payout account stay as they were, and its tickets bought.  A save that leaves
\* out a stored PAID promises nothing, nor does one made while a feature is off
\* (create, assertEventUpdateAllowed, publish, assertSubaccountReadyForPurchase).
THEOREM SavedIsPublishable ==
    ASSUME NEW config, NEW on, NEW event \in GatedEvents, NEW data \in SentFields, NEW payout \in Payouts
    PROVE  /\ EventCreateAllowed(config, on, event.tier, data, payout) =>
                 LET new == Created(event.tier, event.pass, data)
                 IN  /\ EventPublishAllowed(config, on, new, payout)
                     /\ new.ticketing = "PAID" => SubaccountReadyForPurchase(payout)
           /\ EventUpdateAllowed(config, Features, event, data, payout) /\ SendsBoth(data) =>
                 /\ EventPublishAllowed(config, Features, Updated(event, data), payout)
                 /\ Updated(event, data).ticketing = "PAID" => SubaccountReadyForPurchase(payout)
<1>1. ASSUME EventCreateAllowed(config, on, event.tier, data, payout)
      PROVE  LET new == Created(event.tier, event.pass, data)
             IN  /\ EventPublishAllowed(config, on, new, payout)
                 /\ new.ticketing = "PAID" => SubaccountReadyForPurchase(payout)
  <2> DEFINE new == Created(event.tier, event.pass, data)
  <2>1. /\ new.ticketing = IF data.ticketing = "unsent" THEN "FREE" ELSE data.ticketing
        /\ new.visibility = IF data.visibility = "unsent" THEN "PRIVATE" ELSE data.visibility
        /\ new.tier = event.tier /\ new.pass = event.pass /\ new.active = FALSE
    BY SMT DEF Created
  <2> HIDE DEF new
  <2>2. /\ new.ticketing = "PAID" => data.ticketing = "PAID"
        /\ new.visibility = "PUBLIC" => data.visibility = "PUBLIC"
    BY <2>1, SMT
  <2>3. resolveEventEntitlement(new.tier, new.pass, new.active) = event.tier
    BY <2>1, Zenon DEF resolveEventEntitlement
  <2>4. /\ PaidTicketingAvailable(on, new.ticketing, "none")
        /\ PublicEventsAvailable(on, new.visibility, "none")
    BY <1>1, <2>2, Zenon DEF EventCreateAllowed, PaidTicketingAvailable, PublicEventsAvailable
  <2>5. ASSUME new.ticketing = "PAID"
        PROVE  EventReadyToSellTickets(config, new, payout) /\ SubaccountReadyForPurchase(payout)
    BY <1>1, <2>2, <2>3, <2>5, Zenon DEF EventCreateAllowed, EventReadyToSellTickets, TenantReadyToSellTickets
  <2> QED
    BY <2>4, <2>5, Zenon DEF EventPublishAllowed, new
<1>2. ASSUME EventUpdateAllowed(config, Features, event, data, payout), SendsBoth(data)
      PROVE  /\ EventPublishAllowed(config, Features, Updated(event, data), payout)
             /\ Updated(event, data).ticketing = "PAID" => SubaccountReadyForPurchase(payout)
  <2> DEFINE new == Updated(event, data)
  <2>1. /\ new.ticketing = data.ticketing /\ new.visibility = data.visibility
        /\ new.tier = event.tier /\ new.pass = event.pass /\ new.active = event.active
    BY <1>2, SMT DEF Updated, SendsBoth
  <2> HIDE DEF new
  <2>2. "ticketing" \in Features /\ "publicEvents" \in Features
    BY Zenon DEF Features
  <2>3. data.ticketing = "PAID" => EventReadyToSellTickets(config, event, payout)
    BY <1>2, <2>2, Zenon DEF EventUpdateAllowed
  <2>4. EventReadyToSellTickets(config, event, payout) => EventReadyToSellTickets(config, new, payout)
    BY <2>1, Zenon DEF EventReadyToSellTickets
  <2>5. EventReadyToSellTickets(config, event, payout) => SubaccountReadyForPurchase(payout)
    BY Zenon DEF EventReadyToSellTickets, TenantReadyToSellTickets
  <2> QED
    BY <2>1, <2>2, <2>3, <2>4, <2>5, Zenon
       DEF EventPublishAllowed, PaidTicketingAvailable, PublicEventsAvailable, new
<1> QED
  BY <1>1, <1>2, Zenon

\* An event that gets a pass is saved, published and sold as it was without one,
\* but over what the plan of the pass lacks; a publication asks it about selling
\* alone, and a feature switched off asks it nothing.  What the workspace may
\* create it may save on any of its events with the same exception
\* (assertEventCreatable, assertEventUpdatable, assertEventReadyToSellTickets).
THEOREM PassRefusesWhatItsPlanLacks ==
    ASSUME NEW config \in Configs, NEW on, NEW payout \in Payouts,
           NEW event \in GatedEvents, NEW data \in SentFields, ~event.active
    PROVE  LET passed == [ticketing |-> event.ticketing, visibility |-> event.visibility,
                          tier |-> event.tier, pass |-> event.pass, active |-> TRUE]
               taken == TakenByPass(config, event.tier, event.pass)
               asked == AsksOf(IF "ticketing" \in on THEN data.ticketing ELSE "unsent",
                               IF "publicEvents" \in on THEN data.visibility ELSE "unsent")
           IN  /\ EventUpdateAllowed(config, on, event, data, payout) =>
                     (EventUpdateAllowed(config, on, passed, data, payout) <=> asked \cap taken = {})
               /\ EventPublishAllowed(config, on, event, payout) =>
                     (EventPublishAllowed(config, on, passed, payout)
                        <=> ~(event.ticketing = "PAID" /\ "paidTicketing" \in taken))
               /\ EventCreateAllowed(config, on, event.tier, data, payout) =>
                     (EventUpdateAllowed(config, on, passed, data, payout) <=> asked \cap taken = {})
<1> DEFINE passed == [ticketing |-> event.ticketing, visibility |-> event.visibility,
                      tier |-> event.tier, pass |-> event.pass, active |-> TRUE]
           taken == TakenByPass(config, event.tier, event.pass)
           Heard(t) == IF "ticketing" \in on THEN t ELSE "unsent"
           Seen(v) == IF "publicEvents" \in on THEN v ELSE "unsent"
           asked == AsksOf(Heard(data.ticketing), Seen(data.visibility))
<1>1. /\ passed.ticketing = event.ticketing /\ passed.visibility = event.visibility
      /\ passed.tier = event.tier /\ passed.pass = event.pass /\ passed.active = TRUE
      /\ event.tier \in Tiers /\ event.pass \in PassTiers /\ event.active = FALSE
  BY SMT DEF GatedEvents
<1> HIDE DEF passed, taken
<1>2. \A asks \in Asks : EventUpdatable(config, event.tier, event.pass, FALSE, asks) =>
          (EventUpdatable(config, event.tier, event.pass, TRUE, asks) <=> asks \cap taken = {})
  BY <1>1, PassTakesWhatItsPlanLacks DEF taken
<1>3. /\ \A t, v : EventUpdatable(config, event.tier, event.pass, event.active, AsksOf(t, v)) =>
                    (EventUpdatable(config, passed.tier, passed.pass, passed.active, AsksOf(t, v))
                       <=> AsksOf(t, v) \cap taken = {})
      /\ resolveEventEntitlement(event.tier, event.pass, event.active) = event.tier
  BY <1>1, <1>2, AskedCapabilities, Zenon DEF resolveEventEntitlement
<1>4. /\ \A plan : resolveTierCapability(config, plan, "paidTicketing") <=> Gates(config, plan, AsksOf("PAID", "PRIVATE"))
      /\ \A plan, t, v : Gates(config, plan, AsksOf(t, v)) => Gates(config, plan, AsksOf(Heard(t), Seen(v)))
      /\ AsksOf("PAID", "PRIVATE") = {"paidTicketing"}
      /\ \A t, v : t = "PAID" => "paidTicketing" \in AsksOf(t, v)
  <2>1. AsksOf("PAID", "PRIVATE") = {"paidTicketing"} /\ \A t, v : t = "PAID" => "paidTicketing" \in AsksOf(t, v)
    BY SMT DEF AsksOf
  <2>2. \A t, v : AsksOf(Heard(t), Seen(v)) \subseteq AsksOf(t, v)
    BY SMT DEF AsksOf
  <2> QED
    BY <2>1, <2>2, Zenon DEF Gates
<1> HIDE DEF Heard, Seen
<1>5. EventReadyToSellTickets(config, event, payout) =>
         (EventReadyToSellTickets(config, passed, payout) <=> "paidTicketing" \notin taken)
  <2>1. \A e : EventReadyToSellTickets(config, e, payout) <=>
            /\ EventUpdatable(config, e.tier, e.pass, e.active, AsksOf("PAID", "PRIVATE"))
            /\ SubaccountReadyForPurchase(payout)
    BY <1>4, Zenon DEF EventReadyToSellTickets, TenantReadyToSellTickets, EventUpdatable
  <2>2. AsksOf("PAID", "PRIVATE") \cap taken = {} <=> "paidTicketing" \notin taken
    BY <1>4, Zenon
  <2> QED
    BY <1>3, <2>1, <2>2, Zenon
<1>6. \A e : EventUpdateAllowed(config, on, e, data, payout) <=>
          /\ PaidTicketingAvailable(on, data.ticketing, e.ticketing)
          /\ PublicEventsAvailable(on, data.visibility, e.visibility)
          /\ EventUpdatable(config, e.tier, e.pass, e.active, asked)
          /\ Heard(data.ticketing) = "PAID" => EventReadyToSellTickets(config, e, payout)
  BY Zenon DEF EventUpdateAllowed, Heard, Seen
<1>7. ASSUME EventUpdateAllowed(config, on, event, data, payout)
      PROVE  EventUpdateAllowed(config, on, passed, data, payout) <=> asked \cap taken = {}
  <2>1. /\ PaidTicketingAvailable(on, data.ticketing, passed.ticketing)
        /\ PublicEventsAvailable(on, data.visibility, passed.visibility)
    BY <1>1, <1>6, <1>7, Zenon
  <2>2. EventUpdatable(config, passed.tier, passed.pass, passed.active, asked) <=> asked \cap taken = {}
    BY <1>3, <1>6, <1>7, Zenon
  <2>3. Heard(data.ticketing) = "PAID" /\ asked \cap taken = {} => EventReadyToSellTickets(config, passed, payout)
    BY <1>4, <1>5, <1>6, <1>7, Zenon
  <2> QED
    BY <1>6, <2>1, <2>2, <2>3, Zenon
<1>8. EventPublishAllowed(config, on, event, payout) =>
         (EventPublishAllowed(config, on, passed, payout) <=> ~(event.ticketing = "PAID" /\ "paidTicketing" \in taken))
  BY <1>1, <1>5, Zenon DEF EventPublishAllowed
<1>9. ASSUME EventCreateAllowed(config, on, event.tier, data, payout)
      PROVE  EventUpdateAllowed(config, on, event, data, payout)
  <2>1. /\ PaidTicketingAvailable(on, data.ticketing, event.ticketing)
        /\ PublicEventsAvailable(on, data.visibility, event.visibility)
    BY <1>9, SMT DEF EventCreateAllowed, PaidTicketingAvailable, PublicEventsAvailable
  <2>2. EventUpdatable(config, event.tier, event.pass, event.active, asked)
    BY <1>3, <1>4, <1>9, Zenon DEF EventCreateAllowed, EventUpdatable
  <2>3. Heard(data.ticketing) = "PAID" => data.ticketing = "PAID"
    BY SMT DEF Heard
  <2>4. data.ticketing = "PAID" => EventReadyToSellTickets(config, event, payout)
    BY <1>3, <1>9, Zenon DEF EventCreateAllowed, EventReadyToSellTickets
  <2> QED
    BY <1>6, <2>1, <2>2, <2>3, <2>4, Zenon
<1> QED
  BY <1>7, <1>8, <1>9, Zenon DEF passed, taken, Heard, Seen

------------------------------------------------------------------------------
\* A day put together of sound parts is sound.
LEMMA StoredParts ==
    ASSUME NEW a \in Names, NEW b \in Int, NEW c \in Instants, NEW d \in Instants,
           NEW e \in Names, NEW f \in Names, NEW g \in PinsOf(Latitudes), NEW h \in PinsOf(Longitudes),
           ValidCoordinates(g, h), TimesInOrder(c, d)
    PROVE  SoundDay(DayOf(a, b, c, d, e, f, g, h))
<1>1. DayOf(a, b, c, d, e, f, g, h) \in StoredDays
  BY SMT DEF DayOf, StoredDays
<1> DEFINE day == DayOf(a, b, c, d, e, f, g, h)
<1>2. /\ day.startTime = c /\ day.endTime = d /\ day.location = e /\ day.address = f
      /\ day.latitude = g /\ day.longitude = h
  BY SMT DEF DayOf
<1> QED
  BY <1>1, <1>2, SMT DEF SoundDay

LEMMA ValidPins ==
    ASSUME NEW g, NEW h, ValidCoordinates(g, h)
    PROVE  g \in PinsOf(Latitudes) /\ h \in PinsOf(Longitudes)
  BY Zenon DEF ValidCoordinates, PinsOf

\* A new day that is accepted has its venue, a pin whole or none, and ends after
\* it starts (resolveNewDay).
THEOREM NewDayIsSound ==
    ASSUME NEW data \in DayInput, NEW now \in Int, NewDayAllowed(data, now)
    PROVE  SoundDay(NewDay(data))
<1>1. /\ data.startTime \in Instants \cup {Omitted} /\ data.endTime \in Instants \cup {Omitted}
  BY SMT DEF DayInput
<1>2. Given(data.startTime) \in Instants /\ Given(data.endTime) \in Instants
  BY <1>1, Zenon DEF Given, Instants
<1>3. Given(data.latitude) \in PinsOf(Latitudes) /\ Given(data.longitude) \in PinsOf(Longitudes)
  BY ValidPins, Zenon DEF NewDayAllowed, VenueForCreateAllowed
<1> QED
  BY <1>2, <1>3, StoredParts, Zenon DEF NewDayAllowed, VenueForCreateAllowed, NewDay

\* The pin that a change leaves is the one it sends, whole, or the stored one of
\* an address that stays; a pin never stays behind at an address that moved
\* (resolveDayVenueForUpdate).
THEOREM PinGoesWithItsAddress ==
    ASSUME NEW data \in DayInput, NEW day \in StoredDays, NEW now \in Int,
           ValidCoordinates(day.latitude, day.longitude), ChangeAllowed(data, day, now)
    PROVE  LET after == ChangedDay(data, day)
           IN  /\ ValidCoordinates(after.latitude, after.longitude)
               /\ after.address # day.address /\ after.latitude # Blank =>
                     after.latitude = data.latitude /\ after.longitude = data.longitude
<1> DEFINE after == ChangedDay(data, day)
<1>1. /\ after.address = Sent(data.address, day.address)
      /\ after.latitude = PinAfter(data, day, data.latitude, day.latitude)
      /\ after.longitude = PinAfter(data, day, data.longitude, day.longitude)
  BY SMT DEF ChangedDay, DayOf
<1> HIDE DEF after
<1>2. ValidCoordinates(after.latitude, after.longitude)
  <2>1. CASE CoordinatesSent(data)
    BY <1>1, <2>1, Zenon DEF PinAfter, ChangeAllowed, VenueForUpdateAllowed
  <2>2. CASE ~CoordinatesSent(data) /\ Sent(data.address, day.address) # day.address
    BY <1>1, <2>2, Zenon DEF PinAfter, ValidCoordinates
  <2>3. CASE ~CoordinatesSent(data) /\ Sent(data.address, day.address) = day.address
    BY <1>1, <2>3, Zenon DEF PinAfter
  <2> QED
    BY <2>1, <2>2, <2>3, Zenon
<1>3. ASSUME after.address # day.address, after.latitude # Blank
      PROVE  after.latitude = data.latitude /\ after.longitude = data.longitude
  <2>1. CoordinatesSent(data)
    BY <1>1, <1>3, Zenon DEF PinAfter
  <2>2. after.latitude = Given(data.latitude) /\ after.longitude = Given(data.longitude)
    BY <1>1, <2>1, Zenon DEF PinAfter
  <2>3. after.longitude # Blank
    BY <1>2, <1>3, FieldsAssumption, Zenon DEF ValidCoordinates
  <2> QED
    BY <1>3, <2>2, <2>3, Zenon DEF Given
<1> QED
  BY <1>2, <1>3, Zenon DEF after

\* So does a change, on a day that was sound or came from before days had
\* venues: what is left out keeps its value, and the day left behind is judged
\* (resolveDayChanges).
THEOREM ChangedDayIsSound ==
    ASSUME NEW data \in DayInput, NEW day \in StoredDays, NEW now \in Int,
           ValidCoordinates(day.latitude, day.longitude), ChangeAllowed(data, day, now)
    PROVE  SoundDay(ChangedDay(data, day))
<1>1. /\ day.label \in Names /\ day.date \in Int
      /\ day.startTime \in Instants /\ day.endTime \in Instants
  BY SMT DEF StoredDays
<1>2. /\ data.startTime \in Instants \cup {Omitted} /\ data.endTime \in Instants \cup {Omitted}
  BY SMT DEF DayInput
<1>3. Sent(data.label, day.label) \in Names
  BY <1>1, Zenon DEF Sent, ChangeAllowed
<1>4. Sent(data.date, day.date) \in Int
  BY <1>1, Zenon DEF Sent, ChangeAllowed
<1>5. Sent(data.startTime, day.startTime) \in Instants /\ Sent(data.endTime, day.endTime) \in Instants
  BY <1>1, <1>2, Zenon DEF Sent
<1>6. /\ Sent(data.location, day.location) \in Names /\ Sent(data.address, day.address) \in Names
      /\ TimesInOrder(Sent(data.startTime, day.startTime), Sent(data.endTime, day.endTime))
  BY Zenon DEF ChangeAllowed, VenueForUpdateAllowed
<1>7. ValidCoordinates(PinAfter(data, day, data.latitude, day.latitude),
                       PinAfter(data, day, data.longitude, day.longitude))
  <2>1. /\ ChangedDay(data, day).latitude = PinAfter(data, day, data.latitude, day.latitude)
        /\ ChangedDay(data, day).longitude = PinAfter(data, day, data.longitude, day.longitude)
    BY SMT DEF ChangedDay, DayOf
  <2> QED
    BY <2>1, PinGoesWithItsAddress, Zenon
<1> QED
  BY <1>3, <1>4, <1>5, <1>6, <1>7, StoredParts, ValidPins, Zenon DEF ChangedDay

\* A saved day whose date has gone by stays editable: sent again as it is, whole
\* or in part, it is accepted whatever the time, and stays what it was ("re-sending
\* it unchanged is never refused", event-day-validation.util.ts).
THEOREM ResentUnchanged ==
    ASSUME NEW data \in DayInput, NEW day, SoundDay(day), NEW now \in Int, SaysNothingNew(data, day)
    PROVE  /\ ChangeAllowed(data, day, now)
           /\ ChangedDay(data, day) = day
<1>1. /\ day.label \in Names /\ day.date \in Int
      /\ day.startTime \in Instants /\ day.endTime \in Instants
      /\ day.latitude \in PinsOf(Latitudes) /\ day.longitude \in PinsOf(Longitudes)
      /\ day = DayOf(day.label, day.date, day.startTime, day.endTime, day.location, day.address,
                     day.latitude, day.longitude)
      /\ DOMAIN day = {"label", "date", "startTime", "endTime", "location", "address", "latitude", "longitude"}
  BY SMT DEF SoundDay, StoredDays, DayOf
<1>2. /\ data.label \in {day.label, Omitted} /\ data.date \in {day.date, Omitted}
      /\ data.startTime \in {day.startTime, Omitted} /\ data.endTime \in {day.endTime, Omitted}
      /\ data.location \in {day.location, Omitted} /\ data.address \in {day.address, Omitted}
      /\ data.latitude \in {day.latitude, Omitted} /\ data.longitude \in {day.longitude, Omitted}
      /\ (data.latitude = Omitted) <=> (data.longitude = Omitted)
  BY <1>1, Zenon DEF SaysNothingNew
<1>3. /\ Sent(data.label, day.label) = day.label /\ Sent(data.date, day.date) = day.date
      /\ Sent(data.startTime, day.startTime) = day.startTime /\ Sent(data.endTime, day.endTime) = day.endTime
      /\ Sent(data.location, day.location) = day.location /\ Sent(data.address, day.address) = day.address
  BY <1>2, Zenon DEF Sent
<1>4. /\ day.location \in Names /\ day.address \in Names
      /\ ValidCoordinates(day.latitude, day.longitude)
      /\ TimesInOrder(day.startTime, day.endTime)
  BY Zenon DEF SoundDay
<1>5. CoordinatesSent(data) => Given(data.latitude) = day.latitude /\ Given(data.longitude) = day.longitude
  BY <1>2, Zenon DEF CoordinatesSent, Given
<1>6. VenueForUpdateAllowed(data, day)
  BY <1>3, <1>4, <1>5, Zenon DEF VenueForUpdateAllowed
<1>7. data.date # Omitted => data.date \in Int /\ isSameUtcDate(data.date, day.date)
  BY <1>1, <1>2, Zenon DEF isSameUtcDate
<1>8. ChangeAllowed(data, day, now)
  BY <1>1, <1>2, <1>3, <1>4, <1>6, <1>7, Zenon DEF ChangeAllowed
<1>9. /\ PinAfter(data, day, data.latitude, day.latitude) = day.latitude
      /\ PinAfter(data, day, data.longitude, day.longitude) = day.longitude
  BY <1>3, <1>5, Zenon DEF PinAfter
<1> QED
  BY <1>1, <1>3, <1>8, <1>9, Zenon DEF ChangedDay

\* Nobody is refused their own today, or a later day, for where they are: no clock
\* is more than a day behind UTC (earliestAllowedDayDate).
THEOREM OwnTodayIsAllowed ==
    ASSUME NEW now \in Int, NEW behind \in 0..MinutesOfDay, NEW date \in Int,
           UtcDate(now - behind) <= UtcDate(date)
    PROVE  DateNotPast(date, now)
<1>1. UtcDate(now) - 1 <= UtcDate(now - behind)
  BY SMT DEF UtcDate, MinutesOfDay
<1>2. UtcDate(now) \in Int /\ UtcDate(now - behind) \in Int /\ UtcDate(date) \in Int
  BY SMT DEF UtcDate, MinutesOfDay
<1> QED
  BY <1>1, <1>2, SMT DEF DateNotPast, earliestAllowedDayDate

------------------------------------------------------------------------------
\* The dates organisers are shown.

\* What an event is shown once reminded at r, and at t while it is not.
After(a, r) == IF r + Notice > a + Kept THEN r + Notice ELSE a + Kept
Before(a, t) == IF t >= a + (Kept - Notice) THEN After(a, t) ELSE a + Kept

LEMMA Spans ==
    /\ Kept \in Nat /\ Notice \in Nat /\ Notice <= Kept
    /\ \A n \in Nat : n # NotYet
<1>1. Kept \in Nat /\ Notice \in Nat /\ Notice <= Kept
  BY SMT DEF Kept, Notice, DAY, MEDIA_RETENTION_DAYS, MEDIA_PURGE_REMINDER_DAYS_BEFORE
<1>2. \A n \in Nat : n # NotYet
  BY DatesAssumption, SMT
<1> QED
  BY <1>1, <1>2, Zenon

LEMMA DatesInOrder ==
    /\ \A a, r \in Nat : After(a, r) >= a + Kept /\ After(a, r) >= r + Notice
    /\ \A a, t \in Nat : Before(a, t) >= a + Kept
    /\ \A a, r, t \in Nat : a <= t - Kept /\ r <= t - Notice <=> After(a, r) <= t
    /\ \A a, t, u \in Nat : t <= u => Before(a, t) <= Before(a, u)
    /\ \A a, t, r \in Nat : t <= r /\ r >= a + (Kept - Notice) => Before(a, t) <= After(a, r)
  BY Spans, SMT DEF After, Before

LEMMA Due ==
    ASSUME NEW a \in Nat
    PROVE  /\ mediaPurgeDueAt(a, NotYet) = a + Kept
           /\ \A r \in Nat : mediaPurgeDueAt(a, r) = After(a, r)
  BY Spans, Zenon DEF mediaPurgeDueAt, After

\* What a view shows of an event whose purge has not begun.
LEMMA Shown ==
    ASSUME NEW e \in ArchivedEvents, e.startedAt = NotYet, NEW t \in Nat
    PROVE  /\ e.archivedAt \in Nat
           /\ e.remindedAt = NotYet => withMediaRetention(TRUE, e, t) = Before(e.archivedAt, t)
           /\ e.remindedAt # NotYet =>
                 e.remindedAt \in Nat /\ withMediaRetention(TRUE, e, t) = After(e.archivedAt, e.remindedAt)
<1>1. e.archivedAt \in Nat /\ e.remindedAt \in Nat \cup {NotYet}
  BY DEF ArchivedEvents
<1>2. withMediaRetention(TRUE, e, t) =
          IF e.remindedAt # NotYet THEN mediaPurgeDueAt(e.archivedAt, e.remindedAt)
          ELSE mediaPurgeDueAt(e.archivedAt, IF t >= e.archivedAt + (Kept - Notice) THEN t ELSE NotYet)
  BY Zenon DEF withMediaRetention, scheduledPurgeAt, mediaPurgeReminderDueAt
<1>3. ASSUME e.remindedAt = NotYet PROVE withMediaRetention(TRUE, e, t) = Before(e.archivedAt, t)
  BY <1>1, <1>2, <1>3, Due, Zenon DEF Before
<1>4. ASSUME e.remindedAt # NotYet
      PROVE  e.remindedAt \in Nat /\ withMediaRetention(TRUE, e, t) = After(e.archivedAt, e.remindedAt)
  BY <1>1, <1>2, <1>4, Due, Zenon
<1> QED
  BY <1>1, <1>3, <1>4, Zenon

LEMMA Swept ==
    ASSUME NEW e \in ArchivedEvents, e.startedAt = NotYet, NEW now \in Nat
    PROVE  PurgeIsDue(e, TRUE, now) <=> e.remindedAt # NotYet /\ After(e.archivedAt, e.remindedAt) <= now
<1>1. PurgeIsDue(e, TRUE, now) <=>
          e.remindedAt # NotYet /\ e.archivedAt <= now - Kept /\ e.remindedAt <= now - Notice
  BY Zenon DEF PurgeIsDue
<1>2. e.remindedAt # NotYet =>
          (e.archivedAt <= now - Kept /\ e.remindedAt <= now - Notice <=> After(e.archivedAt, e.remindedAt) <= now)
  BY Shown, DatesInOrder, Zenon
<1> QED
  BY <1>1, <1>2, Zenon

\* Once its organisers have been reminded, an event that still has something to
\* download is purged from the date they were given on and never before it, which
\* is a week after the reminder at the least and 30 days after archiving: the
\* sweep's two cutoffs are that one date (mediaPurgeDueAt, findDuePurgeEventIds).
THEOREM PurgedFromItsDateOn ==
    ASSUME NEW e \in ArchivedEvents, e.remindedAt # NotYet, e.startedAt = NotYet, NEW now \in Nat
    PROVE  LET date == mediaPurgeDueAt(e.archivedAt, e.remindedAt)
           IN  /\ PurgeIsDue(e, TRUE, now) <=> date <= now
               /\ date >= e.remindedAt + Notice /\ date >= e.archivedAt + Kept
<1>1. e.archivedAt \in Nat /\ e.remindedAt \in Nat
  BY Shown
<1>2. mediaPurgeDueAt(e.archivedAt, e.remindedAt) = After(e.archivedAt, e.remindedAt)
  BY <1>1, Due
<1> QED
  BY <1>1, <1>2, Swept, DatesInOrder, Zenon

\* While an event that has something to download waits, the date it is shown never
\* comes nearer, reminders sent late included, no sweep purges it before any date
\* it was ever shown, and the date its reminder gives is the one shown from then
\* on (withMediaRetention, remindFor, findDuePurgeEventIds).
THEOREM CountdownNeverShortens ==
    ASSUME NEW e \in ArchivedEvents, e.startedAt = NotYet,
           NEW now \in Nat, NEW later \in Nat, now <= later
    PROVE  /\ withMediaRetention(TRUE, e, now) <= withMediaRetention(TRUE, e, later)
           /\ PurgeIsDue(e, TRUE, later) => withMediaRetention(TRUE, e, now) <= later
           /\ \A sweep \in Nat : now <= sweep /\ sweep <= later /\ ReminderMayGo(e, TRUE, sweep) =>
                 /\ withMediaRetention(TRUE, e, now) <= withMediaRetention(TRUE, Reminded(e, sweep), later)
                 /\ PurgeIsDue(Reminded(e, sweep), TRUE, later) => withMediaRetention(TRUE, e, now) <= later
                 /\ withMediaRetention(TRUE, Reminded(e, sweep), later) = mediaPurgeDueAt(e.archivedAt, sweep)
<1>1. /\ e.archivedAt \in Nat
      /\ \A t \in {now, later} :
            /\ e.remindedAt = NotYet => withMediaRetention(TRUE, e, t) = Before(e.archivedAt, t)
            /\ e.remindedAt # NotYet =>
                  e.remindedAt \in Nat /\ withMediaRetention(TRUE, e, t) = After(e.archivedAt, e.remindedAt)
  BY Shown, Zenon
<1>2. \A a, r \in Nat : After(a, r) <= After(a, r)
  BY Spans, SMT DEF After
<1>3. withMediaRetention(TRUE, e, now) <= withMediaRetention(TRUE, e, later)
  BY <1>1, <1>2, DatesInOrder, Zenon
<1>4. PurgeIsDue(e, TRUE, later) => withMediaRetention(TRUE, e, now) <= later
  BY <1>1, Swept, Zenon
<1>5. ASSUME NEW sweep \in Nat, now <= sweep, sweep <= later, ReminderMayGo(e, TRUE, sweep)
      PROVE  /\ withMediaRetention(TRUE, e, now) <= withMediaRetention(TRUE, Reminded(e, sweep), later)
             /\ PurgeIsDue(Reminded(e, sweep), TRUE, later) => withMediaRetention(TRUE, e, now) <= later
             /\ withMediaRetention(TRUE, Reminded(e, sweep), later) = mediaPurgeDueAt(e.archivedAt, sweep)
  <2> DEFINE f == Reminded(e, sweep)
  <2>1. f \in ArchivedEvents /\ f.archivedAt = e.archivedAt /\ f.remindedAt = sweep /\ f.startedAt = NotYet
    BY SMT DEF Reminded, ArchivedEvents
  <2> HIDE DEF f
  <2>2. e.remindedAt = NotYet /\ sweep >= e.archivedAt + (Kept - Notice)
    BY <1>5, Zenon DEF ReminderMayGo, mediaPurgeReminderDueAt
  <2>3. Before(e.archivedAt, now) <= After(e.archivedAt, sweep)
    BY <1>1, <1>5, <2>2, DatesInOrder, Zenon
  <2>4. sweep # NotYet
    BY Spans
  <2>5. withMediaRetention(TRUE, f, later) = After(e.archivedAt, sweep)
    BY <2>1, <2>4, Shown, Zenon
  <2>6. PurgeIsDue(f, TRUE, later) => After(e.archivedAt, sweep) <= later
    BY <2>1, Swept, Zenon
  <2>7. /\ Before(e.archivedAt, now) \in Int /\ After(e.archivedAt, sweep) \in Int
    BY <1>1, Spans, SMT DEF Before, After
  <2>8. \A x, y, z \in Int : x <= y /\ y <= z => x <= z
    BY SMT
  <2>9. later \in Int
    BY SMT
  <2> QED
    BY <1>1, <2>2, <2>3, <2>5, <2>6, <2>7, <2>8, <2>9, Due, Zenon DEF f
<1> QED
  BY <1>3, <1>4, <1>5, Zenon

------------------------------------------------------------------------------
\* When the next announcement can go, and the next reminder.

LEMMA SmallestOf ==
    ASSUME NEW T, T \subseteq Nat, T # {}
    PROVE  \E x \in T : \A y \in T : x <= y
<1> DEFINE R == {p \in Nat \X Nat : p[1] < p[2]}
<1>1. R = OpToRel(<, Nat)
  BY SMT DEF OpToRel
<1>2. IsWellFoundedOn(R, Nat)
  BY <1>1, NatLessThanWellFounded, Zenon
<1> HIDE DEF R
<1>3. \E x \in T : \A y \in T : ~ (<<y, x>> \in R)
  BY <1>2, WFMin, Zenon
<1>4. \A x, y \in Nat : <<y, x>> \in R <=> y < x
  BY SMT DEF R
<1>5. \A x, y \in T : ~ (<<y, x>> \in R) => x <= y
  BY <1>4, SMT
<1> QED
  BY <1>3, <1>5, Zenon

LEMMA OldestIsOldest ==
    ASSUME NEW Posts, NEW sentAt \in [Posts -> Nat], NEW set \in SUBSET Posts, set # {}
    PROVE  Oldest(sentAt, set) \in set /\ \A b \in set : sentAt[Oldest(sentAt, set)] <= sentAt[b]
<1> DEFINE T == {sentAt[a] : a \in set}
<1>1. T \subseteq Nat /\ T # {}
  OBVIOUS
<1>2. \E x \in T : \A y \in T : x <= y
  BY <1>1, SmallestOf, Zenon
<1>3. \E a \in set : \A b \in set : sentAt[a] <= sentAt[b]
  BY <1>2
<1> QED
  BY <1>3, Zenon DEF Oldest

\* An organiser told that the limit is reached, and when the next announcement
\* can go, is refused up to and including that very instant and from then on is
\* not, unless more have been sent: the window still holds its own first instant
\* (dailyLimitFrom, findSentSince and the claim in send; the claim under the
\* event's lock never lets the window hold more than the limit).
THEOREM NextAnnouncementWhenShown ==
    ASSUME NEW Posts, IsFiniteSet(Posts), NEW sentAt \in [Posts -> Nat],
           NEW now \in Nat, NEW later \in Nat, now <= later,
           Cardinality(findSentSince(sentAt, now)) = ANNOUNCEMENTS_PER_EVENT_PER_DAY
    PROVE  ~dailyLimitRefusal(sentAt, later) <=> later > nextAvailableAt(sentAt, now)
<1> DEFINE window == findSentSince(sentAt, now)
           oldest == Oldest(sentAt, window)
           then == findSentSince(sentAt, later)
           W == ANNOUNCEMENT_WINDOW
<1>1. /\ window \in SUBSET Posts /\ then \in SUBSET window
      /\ \A a \in Posts : (a \in then <=> sentAt[a] >= later - W)
      /\ W \in Nat
  BY SMT DEF findSentSince, ANNOUNCEMENT_WINDOW, DAY
<1>2. /\ IsFiniteSet(window) /\ IsFiniteSet(then)
      /\ Cardinality(then) <= Cardinality(window)
      /\ Cardinality(window) = Cardinality(then) => window = then
      /\ Cardinality(then) \in Nat /\ Cardinality(window) \in Nat
  BY <1>1, FS_Subset, FS_CardinalityType, Zenon
<1>3. Cardinality(window) = 5
  BY DEF ANNOUNCEMENTS_PER_EVENT_PER_DAY
<1>4. window # {}
  BY <1>2, <1>3, FS_EmptySet, SMT
<1>5. oldest \in window /\ \A b \in window : sentAt[oldest] <= sentAt[b]
  BY <1>1, <1>4, OldestIsOldest, Zenon
<1>6. nextAvailableAt(sentAt, now) = sentAt[oldest] + W
  BY <1>3, SMT DEF nextAvailableAt, dailyLimitRefusal, ANNOUNCEMENTS_PER_EVENT_PER_DAY
<1>7. dailyLimitRefusal(sentAt, later) <=> Cardinality(then) >= 5
  BY Zenon DEF dailyLimitRefusal, ANNOUNCEMENTS_PER_EVENT_PER_DAY
<1> HIDE DEF window, oldest, then, W
<1>8. ASSUME later > sentAt[oldest] + W PROVE ~(Cardinality(then) >= 5)
  <2>1. oldest \notin then
    BY <1>1, <1>5, <1>8, SMT
  <2>2. Cardinality(window) # Cardinality(then)
    BY <1>2, <1>5, <2>1, Zenon
  <2> QED
    BY <1>2, <1>3, <2>2, SMT
<1>9. ASSUME ~(later > sentAt[oldest] + W) PROVE Cardinality(then) >= 5
  <2>1. \A b \in window : b \in then
    BY <1>1, <1>5, <1>9, SMT
  <2>2. then = window
    BY <1>1, <2>1, Zenon
  <2> QED
    BY <1>3, <2>2, SMT
<1> QED
  BY <1>6, <1>7, <1>8, <1>9, Zenon

\* The invites a guest was reminded on: one of them is the latest, the one that
\* the fewest come after.
LEMMA LatestIsLatest ==
    ASSUME NEW Held, IsFiniteSet(Held), NEW remindedAt \in [Held -> Nat \cup {NotYet}],
           {i \in Held : remindedAt[i] # NotYet} # {}
    PROVE  LET reminded == {i \in Held : remindedAt[i] # NotYet}
           IN  /\ Latest(remindedAt) \in reminded
               /\ \A j \in reminded : remindedAt[j] <= remindedAt[Latest(remindedAt)]
<1> DEFINE reminded == {i \in Held : remindedAt[i] # NotYet}
           Beyond(i) == {j \in reminded : remindedAt[j] > remindedAt[i]}
           beyond == [i \in reminded |-> Cardinality(Beyond(i))]
<1>1. /\ IsFiniteSet(reminded) /\ \A i \in reminded : remindedAt[i] \in Nat
      /\ DOMAIN remindedAt = Held /\ reminded # {}
  BY FS_Subset, Zenon
<1>2. \A i \in reminded : IsFiniteSet(Beyond(i)) /\ Cardinality(Beyond(i)) \in Nat
  BY <1>1, FS_Subset, FS_CardinalityType, Zenon
<1>3. beyond \in [reminded -> Nat]
  <2> HIDE DEF Beyond
  <2> QED
    BY <1>2, Zenon
<1>4. PICK i \in reminded : \A j \in reminded : Cardinality(Beyond(i)) <= Cardinality(Beyond(j))
  <2>1. \E i \in reminded : \A j \in reminded : beyond[i] <= beyond[j]
    <3> HIDE DEF beyond, reminded
    <3> QED
      BY <1>1, <1>3, OldestIsOldest, Zenon
  <2> HIDE DEF Beyond
  <2> QED
    BY <2>1
<1>5. ASSUME NEW j \in reminded, ~(remindedAt[j] <= remindedAt[i]) PROVE FALSE
  <2>1. j \in Beyond(i) /\ j \notin Beyond(j) /\ Beyond(j) \in SUBSET Beyond(i)
    <3>1. remindedAt[j] > remindedAt[i] /\ ~(remindedAt[j] > remindedAt[j])
      BY <1>1, <1>5, SMT
    <3>2. \A k \in reminded : remindedAt[k] > remindedAt[j] => remindedAt[k] > remindedAt[i]
      BY <1>1, <3>1, SMT
    <3> QED
      BY <3>1, <3>2, Zenon
  <2>2. /\ Cardinality(Beyond(j)) <= Cardinality(Beyond(i))
        /\ Cardinality(Beyond(i)) = Cardinality(Beyond(j)) => Beyond(i) = Beyond(j)
    BY <1>2, <2>1, FS_Subset, Zenon
  <2>3. Cardinality(Beyond(i)) # Cardinality(Beyond(j))
    BY <2>1, <2>2, Zenon
  <2>4. Cardinality(Beyond(i)) <= Cardinality(Beyond(j)) /\ Cardinality(Beyond(i)) \in Nat /\ Cardinality(Beyond(j)) \in Nat
    BY <1>2, <1>4, Zenon
  <2> HIDE DEF Beyond
  <2> QED
    BY <2>2, <2>3, <2>4, SMT
<1>6. \E k \in reminded : \A j \in reminded : remindedAt[j] <= remindedAt[k]
  BY <1>5, Zenon
<1>7. Latest(remindedAt) = CHOOSE k \in reminded : \A j \in reminded : remindedAt[j] <= remindedAt[k]
  BY <1>1, Zenon DEF Latest
<1> QED
  BY <1>6, <1>7, Zenon

\* Whether a guest counts as recently reminded, over all their live invites, and
\* what the claim takes, invite by invite, turn at the same instant: someone the
\* list offers can be claimed whichever of their invites the reminder goes to, and
\* someone it turns away could not be claimed on the invite they were last
\* reminded on (nextEligibleAt, claimReminders).
THEOREM RemindedWhenShown ==
    ASSUME NEW Held, IsFiniteSet(Held), NEW remindedAt \in [Held -> Nat \cup {NotYet}], NEW now \in Nat
    PROVE  /\ ~RecentlyReminded(remindedAt, now) <=> claimReminders(remindedAt, now) = Held
           /\ RecentlyReminded(remindedAt, now) => Latest(remindedAt) \in Held \ claimReminders(remindedAt, now)
<1> DEFINE reminded == {i \in Held : remindedAt[i] # NotYet}
           latest == Latest(remindedAt)
           C == REMINDER_COOLDOWN
<1>1. /\ DOMAIN remindedAt = Held /\ C \in Nat
      /\ \A i \in reminded : remindedAt[i] \in Nat
  BY SMT DEF REMINDER_COOLDOWN, DAY
<1>2. claimReminders(remindedAt, now) = {i \in Held : i \in reminded => remindedAt[i] <= now - C}
  BY <1>1, Zenon DEF claimReminders
<1>3. CASE reminded = {}
  <2>1. nextEligibleAt(remindedAt) = NotYet
    BY <1>1, <1>3, Zenon DEF nextEligibleAt
  <2>2. ~RecentlyReminded(remindedAt, now)
    BY <2>1, Zenon DEF RecentlyReminded
  <2> QED
    BY <1>2, <1>3, <2>2, Zenon
<1>4. CASE reminded # {}
  <2>1. latest \in reminded /\ \A j \in reminded : remindedAt[j] <= remindedAt[latest]
    BY <1>4, LatestIsLatest
  <2>2. nextEligibleAt(remindedAt) = remindedAt[latest] + C
    BY <1>1, <1>4, Zenon DEF nextEligibleAt
  <2> HIDE DEF latest, C, reminded
  <2>3. remindedAt[latest] + C # NotYet
    BY <1>1, <2>1, Spans, SMT
  <2>4. RecentlyReminded(remindedAt, now) <=> ~(remindedAt[latest] <= now - C)
    <3>1. RecentlyReminded(remindedAt, now) <=> remindedAt[latest] + C > now
      BY <2>2, <2>3, Zenon DEF RecentlyReminded
    <3>2. remindedAt[latest] \in Nat
      BY <1>1, <2>1
    <3> QED
      BY <1>1, <3>1, <3>2, SMT
  <2>5. remindedAt[latest] <= now - C => \A i \in reminded : remindedAt[i] <= now - C
    BY <1>1, <2>1, SMT
  <2>6. latest \in Held
    BY <2>1, Zenon DEF reminded
  <2> QED
    BY <1>2, <2>1, <2>4, <2>5, <2>6, Zenon DEF latest
<1> QED
  BY <1>3, <1>4

------------------------------------------------------------------------------
\* The list at the door.

\* Of some places in the list there is a first.
LEMMA FirstOf ==
    ASSUME NEW places, places \subseteq Nat, places # {}
    PROVE  \E k \in places : \A j \in places : k <= j
  BY SmallestOf

\* Every guest invited to the day has exactly one row, and is shown as arrived if
\* any of their invites has a check-in: a second invite never lists them twice and
\* never hides an arrival (onePerGuest).
THEOREM OneRowEach ==
    ASSUME NEW list \in Seq(RosterInvites), NEW k \in DOMAIN list
    PROVE  \E row \in onePerGuest(list) :
               /\ list[row].guest = list[k].guest
               /\ \A other \in onePerGuest(list) : list[other].guest = list[k].guest => other = row
               /\ list[row].checkedIn <=> \E j \in DOMAIN list : list[j].guest = list[k].guest /\ list[j].checkedIn
<1> DEFINE Own == {j \in DOMAIN list : list[j].guest = list[k].guest}
           In == {j \in Own : list[j].checkedIn}
           Best == IF In = {} THEN Own ELSE In
<1>1. DOMAIN list \subseteq Nat /\ \A j \in DOMAIN list : list[j].checkedIn \in BOOLEAN
  <2>1. /\ Len(list) \in Nat /\ DOMAIN list = 1..Len(list)
        /\ list \in [1..Len(list) -> RosterInvites]
    BY LenProperties
  <2>2. \A j \in DOMAIN list : list[j] \in RosterInvites
    BY <2>1, Zenon
  <2>3. \A i \in RosterInvites : i.checkedIn \in BOOLEAN
    BY DEF RosterInvites
  <2>4. DOMAIN list \subseteq Nat
    BY <2>1, SMT
  <2> QED
    BY <2>2, <2>3, <2>4, Zenon
<1>2. k \in Own /\ Own \subseteq DOMAIN list /\ In \subseteq Own
  OBVIOUS
<1>3. Best \subseteq Own /\ Best # {} /\ Best \subseteq Nat
  BY <1>1, <1>2, Zenon
<1>4. PICK row \in Best : \A j \in Best : row <= j
  BY <1>3, FirstOf, Zenon
<1>5. row \in DOMAIN list /\ list[row].guest = list[k].guest
  BY <1>3, <1>4, Zenon
<1>6. list[row].checkedIn <=> In # {}
  BY <1>1, <1>3, <1>4, <1>5, Zenon
<1>7. row \in onePerGuest(list)
  <2>1. ASSUME NEW j \in DOMAIN list, list[j].guest = list[row].guest
        PROVE  IF list[j].checkedIn = list[row].checkedIn THEN row <= j ELSE list[row].checkedIn
    <3>1. j \in Own
      BY <1>5, <2>1, Zenon
    <3>2. list[j].checkedIn => list[row].checkedIn
      BY <1>6, <3>1, Zenon
    <3>3. list[j].checkedIn = list[row].checkedIn => j \in Best
      BY <1>6, <3>1, Zenon
    <3>4. list[j].checkedIn \in BOOLEAN /\ list[row].checkedIn \in BOOLEAN
      BY <1>1, <1>5, Zenon
    <3> QED
      BY <1>4, <3>2, <3>3, <3>4, Zenon
  <2> QED
    BY <1>5, <2>1, Zenon DEF onePerGuest
<1>8. ASSUME NEW other \in onePerGuest(list), list[other].guest = list[k].guest
      PROVE  other = row
  <2>1. /\ other \in DOMAIN list
        /\ IF list[row].checkedIn = list[other].checkedIn THEN other <= row ELSE list[other].checkedIn
        /\ IF list[other].checkedIn = list[row].checkedIn THEN row <= other ELSE list[row].checkedIn
    BY <1>5, <1>7, <1>8, Zenon DEF onePerGuest
  <2>2. list[other].checkedIn \in BOOLEAN /\ list[row].checkedIn \in BOOLEAN
    BY <1>1, <1>5, <2>1, Zenon
  <2>3. other <= row /\ row <= other
    BY <2>1, <2>2, Zenon
  <2>4. other \in Nat /\ row \in Nat
    BY <1>1, <1>5, <2>1, Zenon
  <2> QED
    BY <2>3, <2>4, SMT
<1>9. list[row].checkedIn <=> \E j \in DOMAIN list : list[j].guest = list[k].guest /\ list[j].checkedIn
  BY <1>6, Zenon
<1> QED
  BY <1>5, <1>7, <1>8, <1>9, Zenon

LEMMA Disjoint ==
    ASSUME NEW S, NEW T, IsFiniteSet(S), IsFiniteSet(T), S \cap T = {}
    PROVE  IsFiniteSet(S \cup T) /\ Cardinality(S \cup T) = Cardinality(S) + Cardinality(T)
<1>1. /\ IsFiniteSet(S \cup T)
      /\ Cardinality(S \cup T) = Cardinality(S) + Cardinality(T) - Cardinality(S \cap T)
  BY FS_Union
<1>2. Cardinality(S \cap T) = 0 /\ Cardinality(S) \in Nat /\ Cardinality(T) \in Nat
  BY FS_EmptySet, FS_CardinalityType
<1> QED
  BY <1>1, <1>2, SMT

\* The headline numbers agree with the list and with each other: everyone invited
\* is expected, has not answered or is not coming; the arrived are the expected
\* ones and the others, nobody is still expected who has arrived, and no number is
\* negative (countRows).
THEOREM CountsAgree ==
    ASSUME NEW list \in Seq(RosterInvites)
    PROVE  LET counts == countRows(list)
           IN  /\ counts.invited = counts.expected + counts.noResponse + counts.notAttending
               /\ counts.arrivedUnexpected = Cardinality(Arrived(list) \ Saying(list, "YES"))
               /\ counts.stillExpected = Cardinality(Saying(list, "YES") \ Arrived(list))
               /\ \A n \in {counts.expected, counts.arrivedExpected, counts.arrivedUnexpected, counts.stillExpected} : n \in Nat
<1> DEFINE rows == onePerGuest(list)
           yes == Saying(list, "YES")
           none == Saying(list, "NO_RESPONSE")
           no == Saying(list, "NO")
           in == Arrived(list)
<1>1. IsFiniteSet(rows)
  <2>1. IsFiniteSet(1..Len(list)) /\ DOMAIN list = 1..Len(list)
    BY FS_Interval, LenProperties
  <2> QED
    BY <2>1, FS_Subset, Zenon DEF onePerGuest
<1>2. /\ yes \subseteq rows /\ none \subseteq rows /\ no \subseteq rows /\ in \subseteq rows
      /\ IsFiniteSet(yes) /\ IsFiniteSet(none) /\ IsFiniteSet(no) /\ IsFiniteSet(in)
  BY <1>1, FS_Subset, Zenon DEF Saying, Arrived
<1>3. \A i : rsvpForDay(i) \in {"YES", "NO_RESPONSE", "NO"}
  BY SMT DEF rsvpForDay
<1>4. /\ yes \cap none = {} /\ (yes \cup none) \cap no = {} /\ (yes \cup none) \cup no = rows
  BY <1>3, SMT DEF Saying
<1> HIDE DEF rows, yes, none, no, in
<1>5. Cardinality(rows) = Cardinality(yes) + Cardinality(none) + Cardinality(no)
  <2>1. IsFiniteSet(yes \cup none) /\ Cardinality(yes \cup none) = Cardinality(yes) + Cardinality(none)
    BY <1>2, <1>4, Disjoint, Zenon
  <2>2. Cardinality((yes \cup none) \cup no) = Cardinality(yes \cup none) + Cardinality(no)
    BY <1>2, <1>4, <2>1, Disjoint, Zenon
  <2> QED
    BY <1>4, <2>1, <2>2, Zenon
<1>6. /\ IsFiniteSet(yes \cap in) /\ IsFiniteSet(yes \ in) /\ IsFiniteSet(in \ yes)
  BY <1>2, FS_Intersection, FS_Difference
<1>7. /\ (yes \cap in) \cap (yes \ in) = {} /\ (yes \cap in) \cup (yes \ in) = yes
      /\ (yes \cap in) \cap (in \ yes) = {} /\ (yes \cap in) \cup (in \ yes) = in
  BY Zenon
<1>8. /\ Cardinality(yes) = Cardinality(yes \cap in) + Cardinality(yes \ in)
      /\ Cardinality(in) = Cardinality(yes \cap in) + Cardinality(in \ yes)
  BY <1>6, <1>7, Disjoint, Zenon
<1>9. /\ Cardinality(yes) \in Nat /\ Cardinality(yes \cap in) \in Nat
      /\ Cardinality(yes \ in) \in Nat /\ Cardinality(in \ yes) \in Nat
  BY <1>2, <1>6, FS_CardinalityType
<1>10. /\ countRows(list).invited = Cardinality(rows)
       /\ countRows(list).expected = Cardinality(yes)
       /\ countRows(list).noResponse = Cardinality(none)
       /\ countRows(list).notAttending = Cardinality(no)
       /\ countRows(list).arrivedExpected = Cardinality(yes \cap in)
       /\ countRows(list).arrivedUnexpected = Cardinality(in) - Cardinality(yes \cap in)
       /\ countRows(list).stillExpected = Cardinality(yes) - Cardinality(yes \cap in)
  BY SMT DEF countRows, rows, yes, none, no, in
<1>11. /\ Cardinality(in) - Cardinality(yes \cap in) = Cardinality(in \ yes)
       /\ Cardinality(yes) - Cardinality(yes \cap in) = Cardinality(yes \ in)
  BY <1>8, <1>9, SMT
<1>12. /\ countRows(list).invited = countRows(list).expected + countRows(list).noResponse + countRows(list).notAttending
       /\ countRows(list).arrivedUnexpected = Cardinality(in \ yes)
       /\ countRows(list).stillExpected = Cardinality(yes \ in)
  BY <1>5, <1>10, <1>11, Zenon
<1> QED
  BY <1>9, <1>10, <1>12, Zenon DEF yes, in

-----------------------------------------------------------------------------
(* TicketPricing: what holds of every charge, whatever the price, the      *)
(* quantity and the commission.  Multiplying two unknowns is left to one   *)
(* step of its own; all else is linear arithmetic with the code's rates.   *)

\* The rates come to whole numbers: nothing is lost where they are computed.
LEMMA Rates ==
    /\ EFFECTIVE_CARD_FEE_PPM = 33350
    /\ EFFECTIVE_CARD_FLAT_FEE_CENTS = 115
    /\ EftFeePpm = 23000
  BY SMT DEF EFFECTIVE_CARD_FEE_PPM, EFFECTIVE_CARD_FLAT_FEE_CENTS, EftFeePpm, EffectivePpm, RoundedRatio

\* The total for what must be recovered, as one whole number of cents.
LEMMA GrossUp ==
    ASSUME NEW amount \in Nat
    PROVE  /\ grossUpForFeeRate(amount, 33350) \in Nat
           /\ grossUpForFeeRate(amount, 33350) * 1933300 <= 2000000 * amount + 966650
           /\ grossUpForFeeRate(amount, 33350) * 1933300 > 2000000 * amount - 966650
  BY SMT DEF grossUpForFeeRate, RoundedRatio

LEMMA CommissionIsCents ==
    ASSUME NEW amount \in Nat, NEW points \in Nat
    PROVE  applyBasisPoints(amount, points) \in Nat
<1>1. amount * points \in Nat
  BY SMT
<1>2. \A n \in Nat : (2 * n + 10000) \div 20000 \in Nat
  BY SMT
<1> QED
  BY <1>1, <1>2, SMT DEF applyBasisPoints, RoundedRatio

\* Whatever the tickets and the commission come to, the charge is fair: what
\* computeTicketChargeCents says of rounding and of pricing off the card's rate.
THEOREM EveryChargeIsFair ==
    ASSUME NEW tickets \in Nat, NEW commission \in Nat
    PROVE  FairCharge(Breakdown(tickets, commission))
<1> DEFINE amount == tickets + commission + 115
           total == grossUpForFeeRate(amount, 33350)
           b == Breakdown(tickets, commission)
<1>1. /\ b.ticketPrice = tickets /\ b.commission = commission
      /\ b.totalCharge = total /\ b.platformCharge = total - tickets
  BY Rates, SMT DEF Breakdown
<1>2. /\ amount \in Nat /\ total \in Nat
      /\ total * 1933300 <= 2000000 * amount + 966650
      /\ total * 1933300 > 2000000 * amount - 966650
  <2>1. amount \in Nat
    BY SMT
  <2> QED
    BY <2>1, GrossUp, SMT
<1>3. total >= amount
  BY <1>2, SMT
<1> HIDE DEF total, b
<1>4. b.totalCharge = b.ticketPrice + b.platformCharge
  BY <1>1, <1>2, SMT
<1>5. b.platformCharge - b.commission >= EFFECTIVE_CARD_FLAT_FEE_CENTS
  BY <1>1, <1>2, <1>3, Rates, SMT
<1>6. LeftOver(b, CardFee(b.totalCharge)) = total * 966650 - 1000000 * amount
  BY <1>1, <1>2, Rates, SMT DEF LeftOver, CardFee
<1>7. /\ 2 * LeftOver(b, CardFee(b.totalCharge)) <= 1000000
      /\ 2 * LeftOver(b, CardFee(b.totalCharge)) >= -1000000
  BY <1>2, <1>6, SMT
<1>8. LeftOver(b, EftFee(b.totalCharge)) >= 0
  BY <1>1, <1>2, <1>3, Rates, SMT DEF LeftOver, EftFee
<1> QED
  BY <1>4, <1>5, <1>7, <1>8, SMT DEF FairCharge, b

\* So is every quote a guest is shown: computeTicketChargeCents for any price of
\* a ticket, any quantity and any commission, and quote the same sums.
THEOREM EveryQuoteIsFair ==
    ASSUME NEW price \in Nat, NEW quantity \in Nat, NEW points \in Nat
    PROVE  FairCharge(computeTicketChargeCents(price, quantity, points))
<1>1. price * quantity \in Nat
  BY SMT
<1>2. applyBasisPoints(price * quantity, points) \in Nat
  BY <1>1, CommissionIsCents, SMT
<1> QED
  BY <1>1, <1>2, EveryChargeIsFair, SMT DEF computeTicketChargeCents

\* Tickets that are worth more never cost less, and a cent more on them is never
\* lost: the organiser's price and the commission both come out of the total.
THEOREM MoreNeverCostsLess ==
    ASSUME NEW less \in Nat, NEW more \in Nat, NEW points \in Nat, less < more
    PROVE  Breakdown(less, applyBasisPoints(less, points)).totalCharge
             < Breakdown(more, applyBasisPoints(more, points)).totalCharge
<1> DEFINE low == applyBasisPoints(less, points)
           high == applyBasisPoints(more, points)
<1>1. /\ low \in Nat /\ high \in Nat
  BY CommissionIsCents, Zenon
<1>2. less * points <= more * points
  <2>1. (more - less) * points >= 0
    BY SMT
  <2>2. (more - less) * points = more * points - less * points
    BY SMT
  <2> QED
    BY <2>1, <2>2, SMT
<1>3. low <= high
  <2>1. \A m, n \in Nat : m <= n => (2 * m + 10000) \div 20000 <= (2 * n + 10000) \div 20000
    BY SMT
  <2>2. /\ less * points \in Nat /\ more * points \in Nat
    BY SMT
  <2> QED
    BY <1>2, <2>1, <2>2, SMT DEF applyBasisPoints, RoundedRatio
<1> HIDE DEF low, high
<1>4. \A m, n \in Nat : m < n => grossUpForFeeRate(m, 33350) < grossUpForFeeRate(n, 33350)
  BY SMT DEF grossUpForFeeRate, RoundedRatio
<1>5. /\ less + low + 115 \in Nat /\ more + high + 115 \in Nat
      /\ less + low + 115 < more + high + 115
  BY <1>1, <1>3, SMT
<1>6. grossUpForFeeRate(less + low + 115, 33350) < grossUpForFeeRate(more + high + 115, 33350)
  BY <1>4, <1>5, SMT
<1>7. /\ Breakdown(less, low).totalCharge = grossUpForFeeRate(less + low + 115, 33350)
      /\ Breakdown(more, high).totalCharge = grossUpForFeeRate(more + high + 115, 33350)
  BY Rates, SMT DEF Breakdown
<1> QED
  BY <1>6, <1>7, SMT DEF low, high

\* What is written is read as the cents it was written of, with their sign.
LEMMA WrittenCents ==
    ASSUME NEW negative \in BOOLEAN, NEW cents \in Nat
    PROVE  CentsOf(Written(negative, cents \div 100, cents % 100)) = IF negative THEN -cents ELSE cents
<1> DEFINE text == Written(negative, cents \div 100, cents % 100)
<1>1. (cents \div 100) * 100 + (cents % 100) = cents
  BY SMT
<1>2. text.negative = negative /\ text.whole = cents \div 100 /\ text.frac = cents % 100
  BY DEF Written
<1> HIDE DEF text
<1>3. CentsOf(text) = IF text.negative THEN -(text.whole * 100 + text.frac) ELSE text.whole * 100 + text.frac
  BY Zenon DEF CentsOf
<1>4. CentsOf(text) = IF negative THEN -cents ELSE cents
  BY <1>1, <1>2, <1>3, Zenon
<1> QED
  BY <1>4, Zenon DEF text

LEMMA DecimalCents ==
    ASSUME NEW tenths \in Int
    PROVE  decimalToCents(tenths)
             = IF tenths < 0 THEN -((Magnitude(tenths) + 5) \div 10) ELSE (Magnitude(tenths) + 5) \div 10
<1>1. (Magnitude(tenths) + 5) \div 10 \in Nat /\ (tenths < 0) \in BOOLEAN
  BY SMT DEF Magnitude
<1> QED
  BY <1>1, WrittenCents, Zenon DEF decimalToCents, Fixed

\* Cents written into a Decimal column are the cents read out of it, whatever
\* their sign: the boundary money.util.ts is about.
THEOREM CentsComeBack ==
    ASSUME NEW cents \in Int
    PROVE  /\ CentsOf(centsToDecimalString(cents)) = cents
           /\ decimalToCents(10 * cents) = cents
<1>1. /\ Magnitude(cents) \in Nat /\ (cents < 0) \in BOOLEAN
      /\ cents = IF cents < 0 THEN -Magnitude(cents) ELSE Magnitude(cents)
  BY SMT DEF Magnitude
<1>2. CentsOf(centsToDecimalString(cents)) = cents
  BY <1>1, WrittenCents, Zenon DEF centsToDecimalString
<1>3. 10 * cents \in Int
  BY SMT
<1>4. decimalToCents(10 * cents) = cents
  BY <1>3, DecimalCents, SMT DEF Magnitude
<1> QED
  BY <1>2, <1>4, Zenon

\* An amount with tenths of a cent is moved by no more than half a cent, and one
\* owed the same as one due.
THEOREM HalfACentAtMost ==
    ASSUME NEW tenths \in Int
    PROVE  /\ 10 * decimalToCents(tenths) - tenths \in -5..5
           /\ decimalToCents(-tenths) = -decimalToCents(tenths)
<1>1. -tenths \in Int
  BY SMT
<1>2. \A n \in Nat : 10 * ((n + 5) \div 10) - n >= -5 /\ 10 * ((n + 5) \div 10) - n <= 5
  BY SMT
<1>3. Magnitude(tenths) \in Nat /\ (Magnitude(tenths) + 5) \div 10 \in Nat
  BY SMT DEF Magnitude
<1>4. 10 * decimalToCents(tenths) - tenths \in -5..5
  <2>1. CASE tenths < 0
    <3>1. decimalToCents(tenths) = -((Magnitude(tenths) + 5) \div 10) /\ Magnitude(tenths) = -tenths
      BY <2>1, DecimalCents, Zenon DEF Magnitude
    <3> QED
      BY <1>2, <1>3, <3>1, SMT
  <2>2. CASE ~(tenths < 0)
    <3>1. decimalToCents(tenths) = (Magnitude(tenths) + 5) \div 10 /\ Magnitude(tenths) = tenths
      BY <2>2, DecimalCents, Zenon DEF Magnitude
    <3> QED
      BY <1>2, <1>3, <3>1, SMT
  <2> QED
    BY <2>1, <2>2, Zenon
<1>5. decimalToCents(-tenths) = -decimalToCents(tenths)
  BY <1>1, DecimalCents, SMT DEF Magnitude
<1> QED
  BY <1>4, <1>5, Zenon
=============================================================================
