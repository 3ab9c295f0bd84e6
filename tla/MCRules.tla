------------------------------ MODULE MCRules ------------------------------
(***************************************************************************)
(* The rules of TicketPricing, EventEntitlement, EventGates,               *)
(* EventDayFields, ShownDates and DoorRoster on small inputs.  The theorems *)
(* about them are of every input.                                          *)
(***************************************************************************)
EXTENDS TicketPricing, EventGates, EventDayFields, ShownDates, DoorRoster
CONSTANT Labels  \* those of Names that days have for a label here

\* Prices up to R2.50, with no commission, that of today and 10%.
ASSUME PricesAreFair ==
    \A price \in 0..250, quantity \in 1..3, points \in {0, 250, 1000} :
        FairCharge(computeTicketChargeCents(price, quantity, points))

ASSUME CentsAreKept ==
    \A cents \in -250..250 :
        /\ CentsOf(centsToDecimalString(cents)) = cents
        /\ \A tenths \in -4..4 : cents # 0 => decimalToCents(10 * cents + tenths) = cents

ASSUME CommissionIsRead ==
    /\ getPlatformCommissionBasisPoints(CommissionPercent(2, 1, 5)) = 250
    /\ getPlatformCommissionBasisPoints(CommissionPercent(2, 2, 5)) = 205

\* A plan's rows: missing, narrow or generous, in every combination.
Rows3 == {NoRow} \cup
    [guests : {30, 150, Unlimited}, hub : BOOLEAN, hubBytes : {Unlimited}, vendors : {TRUE},
     allows : {{}, {"publicEvents"}, Capabilities}]

ASSUME PassesAdd ==
    \A low, middle, high \in Rows3 :
        LET config == [t \in Tiers |-> CASE t = "SPARK" -> low [] t = "CELEBRATE" -> middle [] OTHER -> high]
        IN  \A tier \in Tiers, pass \in PassTiers :
                /\ AtMost(resolveGuestLimit(config, tier, pass, FALSE).limit,
                          resolveGuestLimit(config, tier, pass, TRUE).limit)
                /\ HubEnabled(config, tier, pass, FALSE) /\ ~HubEnabled(config, tier, pass, TRUE) => Raises(tier, pass)
                /\ \A asks \in Asks : EventUpdatable(config, tier, pass, FALSE, asks) =>
                      (EventUpdatable(config, tier, pass, TRUE, asks)
                         <=> asks \cap TakenByPass(config, tier, pass) = {})

\* What was saved with both fields sent may be published, and sending back what
\* is stored while the features are off is never refused.
NarrowRows == {NoRow} \cup
    [guests : {Unlimited}, hub : {FALSE}, hubBytes : {Unlimited}, vendors : BOOLEAN,
     allows : {{}, {"publicEvents"}, {"paidTicketing"}}]

ASSUME SavedIsPublished ==
    \A low, high \in NarrowRows, on \in SUBSET Features, event \in GatedEvents, data \in SentFields,
       payout \in [status : {"ACTIVE", "FAILED"}, hasCode : {TRUE}] :
        LET config == [t \in Tiers |-> IF t = "ELEVATE" THEN high ELSE low]
        IN  /\ EventUpdateAllowed(config, on, event, data, payout) /\ SendsBoth(data) /\ on = Features
                 => EventPublishAllowed(config, on, Updated(event, data), payout)
            /\ EventCreateAllowed(config, on, event.tier, data, payout)
                 => EventPublishAllowed(config, on, Created(event.tier, event.pass, data), payout)
            /\ on = {} /\ SendsNothingNew(data, event) => EventUpdateAllowed(config, on, event, data, payout)

\* Days around a midnight of UTC, with a pin or none, some from before days had
\* venues, and requests that move the address, clear the times or leave them out.
SmallDays ==
    {DayOf(l, 1440, s, e, p, a, x[1], x[2]) :
        l \in Labels, s \in {30, Blank}, e \in {60, Blank}, p \in Labels \cup {Blank}, a \in Names,
        x \in {<<Blank, Blank>>} \cup (Latitudes \X Longitudes)}
SmallInput ==
    [label : {Blank, Omitted} \cup Labels, date : {1440, 3000, Omitted}, startTime : {30, Blank, Omitted},
     endTime : {10, 60, Omitted}, location : {Omitted} \cup Labels, address : Names \cup {Omitted},
     latitude : Latitudes \cup {Omitted}, longitude : Longitudes \cup {Omitted}]

ASSUME DaysStaySound ==
    \A day \in SmallDays, data \in SmallInput, now \in {4000, 6000} :
        /\ ChangeAllowed(data, day, now) => SoundDay(ChangedDay(data, day))
        /\ SoundDay(day) /\ SaysNothingNew(data, day) =>
              ChangeAllowed(data, day, now) /\ ChangedDay(data, day) = day
        /\ NewDayAllowed(data, now) => SoundDay(NewDay(data))

\* Days apart, around each of the instants the rules turn at.
Turns == {DAY * d + m : d \in {0, 7, 22, 23, 24, 30, 31, 37}, m \in {0, 1}}

ASSUME CountdownsHold ==
    \A now, later \in Turns, remindedAt \in Turns \cup {NotYet} :
        LET e == [archivedAt |-> 0, remindedAt |-> remindedAt, startedAt |-> NotYet]
        IN  now <= later /\ (remindedAt = NotYet \/ (remindedAt <= now /\ remindedAt >= 23 * DAY)) =>
                /\ withMediaRetention(TRUE, e, now) <= withMediaRetention(TRUE, e, later)
                /\ PurgeIsDue(e, TRUE, later) => withMediaRetention(TRUE, e, now) <= later
                /\ remindedAt # NotYet /\ withMediaRetention(TRUE, e, now) <= later => PurgeIsDue(e, TRUE, later)

\* Six days' sends at the start and the end of a window.
ASSUME LimitsSayWhen ==
    \A sentAt \in [1..5 -> {0, 5, 1440}], later \in {1439, 1440, 1441, 1446, 2880, 2881} :
        /\ dailyLimitRefusal(sentAt, 1440)
        /\ later >= 1440 => (~dailyLimitRefusal(sentAt, later) <=> later > nextAvailableAt(sentAt, 1440))

ASSUME RemindedInTurn ==
    \A remindedAt \in [1..2 -> {NotYet, 0, 5, 1440}], now \in {1439, 1440, 1445, 2880} :
        ~RecentlyReminded(remindedAt, now) <=> claimReminders(remindedAt, now) = 1..2

\* Up to three invites, of two guests.
ASSUME CountsAddUp ==
    \A n \in 0..3 : \A list \in [1..n -> RosterInvites] :
        LET counts == countRows(list)
        IN  /\ counts.invited = counts.expected + counts.noResponse + counts.notAttending
            /\ counts.stillExpected >= 0 /\ counts.arrivedUnexpected >= 0
            /\ counts.invited = Cardinality({list[k].guest : k \in 1..n})
=============================================================================
