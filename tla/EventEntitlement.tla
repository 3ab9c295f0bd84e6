-------------------------- MODULE EventEntitlement --------------------------
(***************************************************************************)
(* What an event may do: the workspace's plan, the event's own pass while  *)
(* it is active, and the settings of a plan, which are rows an admin edits *)
(* and some of which may be missing (event-entitlement.util.ts,            *)
(* guest-tier-enforcement.util.ts, tier-capabilities.util.ts,              *)
(* event-tier-enforcement.util.ts, memory-hub-tier-enforcement.util.ts,    *)
(* vendor-tier-enforcement.util.ts, plan-settings.util.ts).  Whether a     *)
(* pass is active is EventPass's.                                          *)
(***************************************************************************)
EXTENDS Integers

CONSTANTS
    NoRow,      \* a plan with no settings
    Unlimited   \* null: no limit

ASSUME EntitlementAssumption == Unlimited \notin Int

Tiers == {"SPARK", "CELEBRATE", "ELEVATE"}
PassTiers == {"SMALL", "STANDARD", "LARGE"}
Capabilities == {"publicEvents", "paidTicketing", "customRsvpFields", "vendorPriorityPlacement"}
Limits == Nat \cup {Unlimited}

\* A SubscriptionTierConfig row, and the rows there are.
Settings == [guests : Limits, hub : BOOLEAN, hubBytes : Limits, vendors : BOOLEAN,
             allows : SUBSET Capabilities]
Configs == [Tiers -> Settings \cup {NoRow}]

TIER_RANK(tier) == CASE tier = "SPARK" -> 0 [] tier = "CELEBRATE" -> 1 [] tier = "ELEVATE" -> 2
EVENT_PASS_TIER_RANK(pass) == CASE pass = "SMALL" -> 0 [] pass = "STANDARD" -> 1 [] pass = "LARGE" -> 2
EVENT_PASS_GRANTED_TIER(pass) == IF pass = "LARGE" THEN "ELEVATE" ELSE "CELEBRATE"
EVENT_PASS_GUEST_CAP(pass) == CASE pass = "SMALL" -> 50 [] pass = "STANDARD" -> 150 [] pass = "LARGE" -> 300

------------------------------------------------------------------------------
\* The plan an event is treated as; one without a pass has none that is active.
resolveEventEntitlement(tier, pass, active) ==
    IF active /\ TIER_RANK(EVENT_PASS_GRANTED_TIER(pass)) > TIER_RANK(tier)
    THEN EVENT_PASS_GRANTED_TIER(pass) ELSE tier

\* The guests it may have, and whether the pass is what a refusal names.
GuestLimit(limit, byPass) == [limit |-> limit, boundByPass |-> byPass]

resolveGuestLimit(config, tier, pass, active) ==
    LET plan == IF config[tier] = NoRow THEN Unlimited ELSE config[tier].guests
        cap == EVENT_PASS_GUEST_CAP(pass)
    IN  IF plan = Unlimited THEN GuestLimit(Unlimited, FALSE)
        ELSE IF active /\ cap >= plan THEN GuestLimit(cap, TRUE)
        ELSE GuestLimit(plan, FALSE)

------------------------------------------------------------------------------
\* What a plan with no settings may do, and any other.
DefaultWithoutConfig(tier, capability) ==
    IF capability = "vendorPriorityPlacement" THEN tier = "ELEVATE" ELSE tier # "SPARK"

resolveTierCapability(config, tier, capability) ==
    IF config[tier] = NoRow THEN DefaultWithoutConfig(tier, capability)
    ELSE capability \in config[tier].allows

\* What a workspace is shown of its plan.
resolvePlanSettings(config, tier) ==
    [guests |-> IF config[tier] = NoRow THEN Unlimited ELSE config[tier].guests,
     hub |-> config[tier] # NoRow /\ config[tier].hub,
     hubBytes |-> IF config[tier] = NoRow THEN Unlimited ELSE config[tier].hubBytes,
     vendors |-> config[tier] # NoRow /\ config[tier].vendors,
     allows |-> {c \in Capabilities : resolveTierCapability(config, tier, c)}]

\* assertCapabilityGates: what a save of an event asks for that its plan must allow.
Gates(config, tier, asks) == \A c \in asks : resolveTierCapability(config, tier, c)
Asks == SUBSET {"publicEvents", "paidTicketing", "customRsvpFields"}

\* assertEventUpdatable, and the album and its space.
EventUpdatable(config, tier, pass, active, asks) ==
    Gates(config, resolveEventEntitlement(tier, pass, active), asks)

HubEnabled(config, tier, pass, active) ==
    LET plan == resolveEventEntitlement(tier, pass, active)
    IN  config[plan] # NoRow /\ config[plan].hub

HubQuota(config, tier, pass, active) ==
    LET plan == resolveEventEntitlement(tier, pass, active)
    IN  IF config[plan] = NoRow THEN Unlimited ELSE config[plan].hubBytes

\* Whether vendors may be searched for: by the workspace, and for an event.
TenantMarketOpen(config, tier) == config[tier] # NoRow /\ config[tier].vendors
EventMarketOpen(config, tier, pass, active) ==
    TenantMarketOpen(config, resolveEventEntitlement(tier, pass, active))

------------------------------------------------------------------------------
\* a allows no more than b does.
AtMost(a, b) == b = Unlimited \/ (a # Unlimited /\ a <= b)

\* What an active pass takes away: what a workspace is shown of its own plan and
\* not of the higher one an event with the pass is wholly treated as.
Raises(tier, pass) == TIER_RANK(EVENT_PASS_GRANTED_TIER(pass)) > TIER_RANK(tier)
TakenByPass(config, tier, pass) ==
    IF Raises(tier, pass)
    THEN resolvePlanSettings(config, tier).allows
           \ resolvePlanSettings(config, EVENT_PASS_GRANTED_TIER(pass)).allows
    ELSE {}
=============================================================================
