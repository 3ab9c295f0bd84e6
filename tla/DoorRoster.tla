----------------------------- MODULE DoorRoster -----------------------------
(***************************************************************************)
(* The list the people at the door have, and its counts                    *)
(* (check-in.service.ts's getDayRoster, check-in.repository.ts).  Checking *)
(* a guest in and taking it back are EventStatus's.                        *)
(***************************************************************************)
EXTENDS Integers, Sequences, FiniteSets

CONSTANT Comers  \* the guests

\* An invite to the day as findRoster reads it: live, and of a live guest; the
\* newest is the first of a list.
RosterInvites ==
    [guest : Comers, status : {"PENDING", "ACCEPTED", "DECLINED"}, attends : BOOLEAN, checkedIn : BOOLEAN]

rsvpForDay(invite) ==
    IF invite.status = "PENDING" THEN "NO_RESPONSE"
    ELSE IF invite.status = "ACCEPTED" /\ invite.attends THEN "YES" ELSE "NO"

\* The places in the list of the rows that are kept: a guest's first, or their
\* first with a check-in if any has one.
onePerGuest(list) ==
    {k \in DOMAIN list : \A j \in DOMAIN list : list[j].guest = list[k].guest =>
        IF list[j].checkedIn = list[k].checkedIn THEN k <= j ELSE list[k].checkedIn}

\* countRows, from the rows themselves.
Saying(list, answer) == {k \in onePerGuest(list) : rsvpForDay(list[k]) = answer}
Arrived(list) == {k \in onePerGuest(list) : list[k].checkedIn}

countRows(list) ==
    LET expected == Cardinality(Saying(list, "YES"))
        arrived == Cardinality(Arrived(list))
        arrivedExpected == Cardinality(Saying(list, "YES") \cap Arrived(list))
    IN  [invited |-> Cardinality(onePerGuest(list)),
         expected |-> expected,
         noResponse |-> Cardinality(Saying(list, "NO_RESPONSE")),
         notAttending |-> Cardinality(Saying(list, "NO")),
         arrived |-> arrived,
         arrivedExpected |-> arrivedExpected,
         arrivedUnexpected |-> arrived - arrivedExpected,
         stillExpected |-> expected - arrivedExpected]
=============================================================================
