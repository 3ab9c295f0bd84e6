--------------------------- MODULE EventDayFields ---------------------------
(***************************************************************************)
(* The fields of one event day: what a new one must have, and what a       *)
(* change leaves behind (event-day-validation.util.ts,                     *)
(* event-day-venue.util.ts, event-coordinates.util.ts, date-input.util.ts).*)
(* Instants are minutes of UTC.  A text is known only as one that is not   *)
(* blank; that labels are unique is EventContent's.                        *)
(***************************************************************************)
EXTENDS Integers

CONSTANTS
    Names,        \* texts that are not blank, as trimmed
    Latitudes,    \* numbers between -90 and 90
    Longitudes,   \* numbers between -180 and 180
    Blank,        \* null, or nothing but spaces
    Omitted       \* a field the request leaves out

ASSUME FieldsAssumption ==
    /\ Blank # Omitted
    /\ \A x \in {Blank, Omitted} : x \notin Int /\ x \notin Names \cup Latitudes \cup Longitudes

Instants == Int \cup {Blank}
PinsOf(numbers) == numbers \cup {Blank}

DayOf(label, date, start, end, location, address, latitude, longitude) ==
    [label |-> label, date |-> date, startTime |-> start, endTime |-> end,
     location |-> location, address |-> address, latitude |-> latitude, longitude |-> longitude]

\* A stored day.  One from before days had venues has none.
StoredDays == [label : Names, date : Int, startTime : Instants, endTime : Instants,
               location : Names \cup {Blank}, address : Names \cup {Blank},
               latitude : PinsOf(Latitudes), longitude : PinsOf(Longitudes)]

\* What a request may say of one.  A coordinate out of range is any other value.
DayInput == [label : Names \cup {Blank, Omitted}, date : Instants \cup {Omitted},
             startTime : Instants \cup {Omitted}, endTime : Instants \cup {Omitted},
             location : Names \cup {Blank, Omitted}, address : Names \cup {Blank, Omitted},
             latitude : PinsOf(Latitudes) \cup {Omitted}, longitude : PinsOf(Longitudes) \cup {Omitted}]

------------------------------------------------------------------------------
\* Dates.

MinutesOfDay == 1440
UtcDate(instant) == instant \div MinutesOfDay
isSameUtcDate(a, b) == UtcDate(a) = UtcDate(b)

\* A date may be as old as the day before UTC's today, for organisers whose own
\* today is still that.
earliestAllowedDayDate(now) == UtcDate(now) - 1
DateNotPast(date, now) == UtcDate(date) >= earliestAllowedDayDate(now)

TimesInOrder(start, end) == start # Blank /\ end # Blank => start < end

------------------------------------------------------------------------------
\* The venue.

Given(sent) == IF sent = Omitted THEN Blank ELSE sent
Sent(sent, kept) == IF sent = Omitted THEN kept ELSE sent

\* assertValidCoordinates: both, in range, or neither.
ValidCoordinates(latitude, longitude) ==
    \/ latitude = Blank /\ longitude = Blank
    \/ latitude \in Latitudes /\ longitude \in Longitudes

CoordinatesSent(data) == data.latitude # Omitted \/ data.longitude # Omitted

VenueForCreateAllowed(data) ==
    /\ data.location \in Names /\ data.address \in Names
    /\ ValidCoordinates(Given(data.latitude), Given(data.longitude))

VenueForUpdateAllowed(data, day) ==
    /\ Sent(data.location, day.location) \in Names /\ Sent(data.address, day.address) \in Names
    /\ CoordinatesSent(data) => ValidCoordinates(Given(data.latitude), Given(data.longitude))

\* The pin of the day left behind: an address that changes on its own loses it.
PinAfter(data, day, sent, stored) ==
    IF CoordinatesSent(data) THEN Given(sent)
    ELSE IF Sent(data.address, day.address) # day.address THEN Blank
    ELSE stored

------------------------------------------------------------------------------
\* resolveNewDay.
NewDayAllowed(data, now) ==
    /\ data.label \in Names
    /\ data.date \in Int /\ DateNotPast(data.date, now)
    /\ VenueForCreateAllowed(data)
    /\ TimesInOrder(Given(data.startTime), Given(data.endTime))

NewDay(data) ==
    DayOf(data.label, data.date, Given(data.startTime), Given(data.endTime), data.location, data.address,
          Given(data.latitude), Given(data.longitude))

\* resolveDayChanges.  Only a date that differs from the stored one is judged.
ChangeAllowed(data, day, now) ==
    /\ data.label \in Names \cup {Omitted}
    /\ data.date # Omitted =>
          data.date \in Int /\ (isSameUtcDate(data.date, day.date) \/ DateNotPast(data.date, now))
    /\ VenueForUpdateAllowed(data, day)
    /\ TimesInOrder(Sent(data.startTime, day.startTime), Sent(data.endTime, day.endTime))

ChangedDay(data, day) ==
    DayOf(Sent(data.label, day.label), Sent(data.date, day.date),
          Sent(data.startTime, day.startTime), Sent(data.endTime, day.endTime),
          Sent(data.location, day.location), Sent(data.address, day.address),
          PinAfter(data, day, data.latitude, day.latitude), PinAfter(data, day, data.longitude, day.longitude))

------------------------------------------------------------------------------
\* What is true of a day that was saved: a venue, a pin whole or none, and an
\* end after its start.
SoundDay(day) ==
    /\ day \in StoredDays
    /\ day.location \in Names /\ day.address \in Names
    /\ ValidCoordinates(day.latitude, day.longitude)
    /\ TimesInOrder(day.startTime, day.endTime)

\* A request that says nothing new: each field is left out, or as it is stored.
SaysNothingNew(data, day) ==
    /\ \A f \in DOMAIN day : data[f] \in {day[f], Omitted}
    /\ (data.latitude = Omitted) <=> (data.longitude = Omitted)
=============================================================================
