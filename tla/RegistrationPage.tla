-------------------------- MODULE RegistrationPage --------------------------
(***************************************************************************)
(* The public page of one event, where anyone with its link registers      *)
(* (event-public.service.ts), and the settings that decide who may, how    *)
(* many and until when (registration-settings.service.ts).                 *)
(*                                                                         *)
(* What the page says and what a form is answered are both worked out from *)
(* the event's rules as they stand; Registration has the forms that cross  *)
(* each other.  A save of the settings reads the event before it checks    *)
(* them and writes later, holding no lock.  Time passes by half days: the  *)
(* instants of day n are 2 * n and, at its end, 2 * n + 1.  A form of the  *)
(* wrong shape, with no name, with a malformed email or phone, or with     *)
(* answers the questions refuse (InvitePage), is refused before the list   *)
(* of guests is read, and left out.                                        *)
(***************************************************************************)
EXTENDS Integers, FiniteSets

CONSTANTS
    Public,      \* the email addresses that may register
    Company,     \* those of the domain the organiser may restrict it to
    EventDays,   \* the days of the event
    DayOf,       \* the date of each
    Savers,      \* saves of the settings that can be in progress at once
    MaxSeats,    \* MAX_GUESTS_PER_EVENT
    SeatCaps,    \* values of the cap in a run
    PlanLimits,  \* values of the plan's guest limit in a run
    Companions,  \* most plus-ones of a registrant in a run
    Never        \* SQL NULL

ASSUME PageConstants ==
    /\ IsFiniteSet(Public) /\ Company \subseteq Public
    /\ IsFiniteSet(EventDays) /\ EventDays # {}
    /\ DayOf \in [EventDays -> Nat]
    /\ MaxSeats \in Nat /\ Companions \in Nat
    /\ SeatCaps \subseteq Nat \ {0} /\ PlanLimits \subseteq Nat
    /\ Never \notin Nat

VARIABLES
    shared,    \* the event is PUBLIC
    stage,     \* the status the organiser set
    clock,     \* the time
    kept,      \* the days that are not archived
    rules,     \* Event: domains restricted, cap, closing date, plus-ones, open days, rsvpDeadline
    plan,      \* resolveGuestLimit
    onList,    \* Guest and Invite of each address
    saver      \* what each save of the settings has read and is to write

publicVars == <<shared, stage, clock, kept, rules, plan, onList, saver>>

Unlisted == [here |-> FALSE, self |-> FALSE, link |-> FALSE, comes |-> FALSE, plus |-> 0]
NoSave == [field |-> "none", value |-> Never]

-----------------------------------------------------------------------------
(* Dates.                                                                  *)

LastDate == CHOOSE n \in {DayOf[d] : d \in EventDays} : \A d \in EventDays : DayOf[d] <= n

\* A date alone lasts until the end of its day; an instant is kept.
Dates == {[day |-> n, whole |-> w] : n \in 0..LastDate, w \in BOOLEAN}
deadlineEnd(v) == IF v.whole THEN 2 * v.day + 1 ELSE 2 * v.day
Passed(v) == v # Never /\ deadlineEnd(v) < clock

\* resolveEffectiveStatus: a published event is over after its last day.
Status ==
    IF stage = "PUBLISHED" /\ kept # {} /\ \A d \in kept : 2 * DayOf[d] + 1 < clock THEN "COMPLETED" ELSE stage

\* effectiveClosing: the closing date or the deadline, whichever ends first.
ClosingDateFirst == IF rules.closesAt # Never THEN rules.closesAt ELSE rules.deadline
effectiveClosing ==
    IF rules.deadline # Never /\ (rules.closesAt = Never \/ deadlineEnd(rules.deadline) < deadlineEnd(rules.closesAt))
      THEN rules.deadline ELSE rules.closesAt

-----------------------------------------------------------------------------
(* Seats.                                                                  *)

OnList == {e \in Public : onList[e].here}
SeatsOf(S) == UNION {{e} \X (1..onList[e].plus) : e \in S}

\* countSeats.
primaryGuests == Cardinality(OnList)
totalGuests == primaryGuests + Cardinality(SeatsOf(OnList))
registeredSeats ==
    LET selfs == {e \in OnList : onList[e].self}
    IN  Cardinality({e \in selfs : onList[e].link /\ onList[e].comes}) + Cardinality(SeatsOf(selfs))

isFull ==
    \/ rules.cap # Never /\ registeredSeats >= rules.cap
    \/ plan # Never /\ primaryGuests >= plan
    \/ totalGuests >= MaxSeats

PartyTooLarge(party) ==
    \/ rules.cap # Never /\ (registeredSeats + party > rules.cap)
    \/ totalGuests + party > MaxSeats

-----------------------------------------------------------------------------
(* The page, and what a form is answered.                                  *)

\* resolveRegistrationState.
State ==
    IF Status # "PUBLISHED" THEN Status
    ELSE IF Passed(effectiveClosing) THEN "CLOSED"
    ELSE IF rules.open \cap kept = {} THEN "NO_DAYS_OPEN"
    ELSE IF isFull THEN "FULL"
    ELSE "open"

\* The request read before the list of guests is.
RefusedUnseen(e, days, k) ==
    IF ~shared THEN "INVALID_LINK"
    ELSE IF Status # "PUBLISHED" THEN Status
    ELSE IF rules.restricted /\ e \notin Company THEN "EMAIL_DOMAIN"
    ELSE IF ~(days \subseteq rules.open \cap kept) THEN "DAY_NOT_OPEN"
    ELSE IF k > rules.plusOnes THEN "TOO_MANY_PLUS_ONES"
    ELSE "none"

\* What a new registration gets under the lock.
Refusal(k) ==
    IF State # "open" THEN State
    ELSE IF PartyTooLarge(1 + k) THEN "PARTY_TOO_LARGE"
    ELSE "none"

\* The answers there may be: the email goes or not, but one of a guest whose
\* invites are all archived is not tried.
Sendings(e) == IF onList[e].here /\ ~onList[e].link THEN {"sent"} ELSE {"sent", "not sent"}
ResentFirst(e, days, k) ==
    IF RefusedUnseen(e, days, k) # "none" THEN {RefusedUnseen(e, days, k)}
    ELSE IF ~onList[e].here /\ Refusal(k) # "none" THEN {Refusal(k)}
    ELSE Sendings(e)
Answers(e, days, k) ==
    IF RefusedUnseen(e, days, k) # "none" THEN {RefusedUnseen(e, days, k)}
    ELSE IF Refusal(k) # "none" THEN {Refusal(k)}
    ELSE Sendings(e)

\* A form that is not refused puts a new address on the list and changes
\* nothing of one that is there.
Register(e, days, k) ==
    /\ days # {} /\ Answers(e, days, k) \cap {"sent", "not sent"} # {}
    /\ ~onList[e].here
    /\ onList' = [onList EXCEPT ![e] = [here |-> TRUE, self |-> TRUE, link |-> TRUE, comes |-> TRUE, plus |-> k]]
    /\ UNCHANGED <<shared, stage, clock, kept, rules, plan, saver>>

-----------------------------------------------------------------------------
(* The settings.                                                           *)

Fields ==
    {[field |-> "restricted", value |-> b] : b \in BOOLEAN}
      \cup {[field |-> "cap", value |-> n] : n \in SeatCaps \cup {Never}}
      \cup {[field |-> "closesAt", value |-> v] : v \in Dates \cup {Never}}
      \cup {[field |-> "plusOnes", value |-> n] : n \in 0..Companions}
      \cup {[field |-> "open", value |-> D] : D \in SUBSET EventDays}

\* registrationSettingsService.update refuses it, on the event as read.
SettingRefused(s) ==
    \/ Status = "CANCELLED"
    \/ s.field = "cap" /\ s.value # Never /\ plan # Never /\ s.value > plan
    \/ s.field = "closesAt" /\ s.value # Never /\ rules.deadline # Never
         /\ deadlineEnd(s.value) > deadlineEnd(rules.deadline)
    \/ s.field = "open" /\ (~(s.value \subseteq kept) \/ (kept # {} /\ s.value = {}))

ReadSettings(w, s) ==
    /\ saver[w] = NoSave /\ ~SettingRefused(s)
    /\ saver' = [saver EXCEPT ![w] = s]
    /\ UNCHANGED <<shared, stage, clock, kept, rules, plan, onList>>

\* Only the fields that were sent are written, and only the days there still are.
WriteSettings(w) ==
    LET s == saver[w] IN
    /\ s # NoSave
    /\ rules' = IF s.field = "open" THEN [rules EXCEPT !.open = (s.value \cap kept) \cup (@ \ kept)]
                ELSE [rules EXCEPT ![s.field] = s.value]
    /\ saver' = [saver EXCEPT ![w] = NoSave]
    /\ UNCHANGED <<shared, stage, clock, kept, plan, onList>>

\* The event's own update: no later than the last day, whatever the closing date.
SetDeadline(v) ==
    /\ v # Never /\ kept # {} => \E d \in kept : deadlineEnd(v) <= 2 * DayOf[d] + 1
    /\ rules' = [rules EXCEPT !.deadline = v]
    /\ UNCHANGED <<shared, stage, clock, kept, plan, onList, saver>>

-----------------------------------------------------------------------------
(* What else happens to the event and its guests.                          *)

ArchiveEventDay(d) ==
    /\ d \in kept /\ kept' = kept \ {d}
    /\ UNCHANGED <<shared, stage, clock, rules, plan, onList, saver>>

CancelEvent ==
    /\ Status = "PUBLISHED" /\ stage' = "CANCELLED"
    /\ UNCHANGED <<shared, clock, kept, rules, plan, onList, saver>>

\* The event is made PRIVATE, which answers as an archived one and a link that
\* was replaced do, or PUBLIC.
SetShared ==
    /\ shared' = ~shared
    /\ UNCHANGED <<stage, clock, kept, rules, plan, onList, saver>>

\* The plan lapses or is renewed.
PlanChanges(n) ==
    /\ plan' = n
    /\ UNCHANGED <<shared, stage, clock, kept, rules, onList, saver>>

TimePasses ==
    /\ clock < 2 * LastDate + 2 /\ clock' = clock + 1
    /\ UNCHANGED <<shared, stage, kept, rules, plan, onList, saver>>

\* The organiser adds an address while the event is PRIVATE, archives a guest
\* or the invite, and the guest declines.
ListGuest(e) ==
    /\ ~shared /\ ~onList[e].here
    /\ ~(plan # Never /\ primaryGuests >= plan) /\ totalGuests < MaxSeats
    /\ onList' = [onList EXCEPT ![e] = [Unlisted EXCEPT !.here = TRUE, !.link = TRUE]]
    /\ UNCHANGED <<shared, stage, clock, kept, rules, plan, saver>>

UnlistGuest(e) ==
    /\ onList[e].here
    /\ onList' = [onList EXCEPT ![e] = Unlisted]
    /\ UNCHANGED <<shared, stage, clock, kept, rules, plan, saver>>

ArchiveLink(e) ==
    /\ onList[e].link
    /\ onList' = [onList EXCEPT ![e].link = FALSE]
    /\ UNCHANGED <<shared, stage, clock, kept, rules, plan, saver>>

CanReply == Status = "PUBLISHED" /\ ~Passed(rules.deadline)
Declines(e) ==
    /\ onList[e].comes /\ CanReply
    /\ onList' = [onList EXCEPT ![e].comes = FALSE, ![e].plus = 0]
    /\ UNCHANGED <<shared, stage, clock, kept, rules, plan, saver>>

-----------------------------------------------------------------------------

\* A published event, with the settings a new one has.
PublicInit ==
    /\ shared = TRUE /\ stage = "PUBLISHED" /\ clock = 0 /\ kept = EventDays
    /\ rules = [restricted |-> FALSE, cap |-> Never, closesAt |-> Never, plusOnes |-> 0,
                open |-> EventDays, deadline |-> Never]
    /\ plan \in PlanLimits \cup {Never}
    /\ onList = [e \in Public |-> Unlisted]
    /\ saver = [w \in Savers |-> NoSave]

PublicNext ==
    \/ \E e \in Public, D \in SUBSET EventDays, k \in 0..Companions : Register(e, D, k)
    \/ \E w \in Savers : WriteSettings(w) \/ \E s \in Fields : ReadSettings(w, s)
    \/ \E v \in Dates \cup {Never} : SetDeadline(v)
    \/ \E d \in EventDays : ArchiveEventDay(d)
    \/ CancelEvent \/ SetShared \/ TimePasses
    \/ \E n \in PlanLimits \cup {Never} : PlanChanges(n)
    \/ \E e \in Public : ListGuest(e) \/ UnlistGuest(e) \/ ArchiveLink(e) \/ Declines(e)

PublicSpec == PublicInit /\ [][PublicNext]_publicVars

-----------------------------------------------------------------------------
(* Properties.                                                             *)

\* The type of every variable.
PublicTypeOK ==
    /\ shared \in BOOLEAN /\ stage \in {"PUBLISHED", "CANCELLED"}
    /\ clock \in 0..(2 * LastDate + 2) /\ kept \subseteq EventDays
    /\ rules \in [restricted : BOOLEAN, cap : SeatCaps \cup {Never}, closesAt : Dates \cup {Never},
                  plusOnes : 0..Companions, open : SUBSET EventDays, deadline : Dates \cup {Never}]
    /\ plan \in PlanLimits \cup {Never}
    /\ onList \in [Public -> [here : BOOLEAN, self : BOOLEAN, link : BOOLEAN, comes : BOOLEAN, plus : 0..Companions]]
    /\ saver \in [Savers -> Fields \cup {NoSave}]

\* "Nothing a registrant can see depends on whether the address is on the
\* list" (event-public.service.ts:290): whatever the settings, the seats and
\* the guests, an address on the list gets no answer that one which is not,
\* and is as good to the domains, could not get for the same form.
TellsNothing ==
    \A listed \in OnList, new \in Public \ OnList, D \in SUBSET EventDays, k \in 0..Companions :
        ~rules.restricted \/ (listed \in Company <=> new \in Company)
            => Answers(listed, D, k) \subseteq Answers(new, D, k)

\* The page says registration is open exactly when one who comes alone, on the
\* days that are open, from an address that is let in, is not refused, and
\* otherwise gives the reason they would get.  While it is open a registrant
\* can still change their answer, whatever closing date was saved beside
\* whatever deadline (registration-rules.util.ts:67).
PageTrue ==
    /\ shared /\ (\E e \in Public : ~rules.restricted \/ e \in Company) =>
          \A new \in {e \in Public \ OnList : ~rules.restricted \/ e \in Company} :
              Answers(new, rules.open \cap kept, 0) = IF State = "open" THEN {"sent", "not sent"} ELSE {State}
    /\ State = "open" => CanReply
=============================================================================
