---------------------------- MODULE EventStatus ----------------------------
(***************************************************************************)
(* One event from draft to its end, and its door: publish and cancel       *)
(* (event.service.ts), and the check-in of one guest on one of its days    *)
(* (check-in.service.ts).                                                  *)
(*                                                                         *)
(* Only DRAFT, PUBLISHED and CANCELLED are stored: COMPLETED is read off   *)
(* the clock.  No operation here holds a lock, so what a request reads     *)
(* and what it writes are steps of their own.  Of the event's live days    *)
(* only what these handlers look at is kept: whether there are any, and    *)
(* whether the end of the last one lies ahead.  Invites are numbered in    *)
(* the order they were created.                                            *)
(***************************************************************************)
EXTENDS Naturals, FiniteSets

CONSTANTS
    Staff,      \* requests of organisers that can be in progress at once
    MaxInvites, \* invites the guest may come to hold for the day
    NoInvite    \* none of them

ASSUME StatusAssumption ==
    /\ IsFiniteSet(Staff) /\ Staff # {}
    /\ MaxInvites \in Nat
    /\ NoInvite \notin Nat

VARIABLES
    status,     \* Event.status
    days,       \* its live days: "none", or whether the last one's end is "ahead" or "over"
    invite,     \* Invite rows: "none", "live" or "archived"
    checkedIn,  \* CheckIn rows of the day
    door,       \* what each request is doing
    told,       \* history: cancellation emails the guests were sent
    revived,    \* history: times a cancelled event was published
    crossed     \* history: an invite came between the read and the write of a check-in, or back with its own

eventVars == <<status, days, told, revived>>
guestVars == <<invite, checkedIn, crossed>>
statusVars == <<eventVars, guestVars, door>>

Invites == 1..MaxInvites
DoorOps == {"idle", "publish", "cancel", "checkIn", "arrive", "undo"}
Job(op, pick) == [op |-> op, pick |-> pick]
Resting == Job("idle", NoInvite)

\* An event that is PUBLISHED is over once its last day's end has passed.
EffectiveStatus == IF status = "PUBLISHED" /\ days = "over" THEN "COMPLETED" ELSE status

\* Not while it is a draft, nor once it is cancelled; the morning after is fine.
CheckInOpen == EffectiveStatus \in {"PUBLISHED", "COMPLETED"}

LiveInvites == {i \in Invites : invite[i] = "live"}

Newest(S) == CHOOSE i \in S : \A j \in S : j <= i

\* A door that looks at the guest's newest invite only.
OnePerGuestNewest(S) == Newest(S)

\* Of several live invites of a guest, the one the door list shows: one with a
\* check-in if there is any, otherwise the newest.
OnePerGuest(S) == LET arrived == S \cap checkedIn
                  IN  IF arrived # {} THEN Newest(arrived) ELSE Newest(S)

StatusInit ==
    /\ status = "DRAFT" /\ days = "none"
    /\ invite = [i \in Invites |-> "none"]
    /\ checkedIn = {} /\ door = [s \in Staff |-> Resting]
    /\ told = 0 /\ revived = 0 /\ crossed = FALSE

Begin(s, j) == door[s] = Resting /\ door' = [door EXCEPT ![s] = j]
Done(s) == door' = [door EXCEPT ![s] = Resting]

------------------------------------------------------------------------------
\* Publish and cancel.

\* The organiser adds, moves or archives days, in any state of the event.
EditDays ==
    /\ days' \in {"none", "ahead", "over"} \ {days}
    /\ UNCHANGED <<status, told, revived, guestVars, door>>

LastDayEnds ==
    /\ days = "ahead" /\ days' = "over"
    /\ UNCHANGED <<status, told, revived, guestVars, door>>

PublishRead(s) ==
    /\ EffectiveStatus = "DRAFT" /\ days # "none"
    /\ Begin(s, Job("publish", NoInvite))
    /\ UNCHANGED <<eventVars, guestVars>>

\* A publish that stores the status the event is read with.
PublishEffective(s) ==
    /\ door[s].op = "publish"
    /\ status' = IF days = "over" THEN "COMPLETED" ELSE "PUBLISHED"
    /\ Done(s)
    /\ UNCHANGED <<days, told, revived, guestVars>>

\* The write has no condition: whatever the status has become, it is PUBLISHED.
Publish(s) ==
    /\ door[s].op = "publish"
    /\ status' = "PUBLISHED"
    /\ revived' = IF status = "CANCELLED" THEN revived + 1 ELSE revived
    /\ Done(s)
    /\ UNCHANGED <<days, told, guestVars>>

CancelRead(s) ==
    /\ EffectiveStatus \notin {"CANCELLED", "COMPLETED"}
    /\ Begin(s, Job("cancel", NoInvite))
    /\ UNCHANGED <<eventVars, guestVars>>

\* A cancel whose write has no condition.
CancelAnyway(s) ==
    /\ door[s].op = "cancel"
    /\ status' = "CANCELLED" /\ told' = told + 1
    /\ Done(s)
    /\ UNCHANGED <<days, revived, guestVars>>

\* Only the request that finds the event not yet CANCELLED succeeds, and goes
\* on to email the guests.
Cancel(s) ==
    /\ door[s].op = "cancel"
    /\ status' = "CANCELLED"
    /\ told' = IF status = "CANCELLED" THEN told ELSE told + 1
    /\ Done(s)
    /\ UNCHANGED <<days, revived, guestVars>>

------------------------------------------------------------------------------
\* The guest list of the day.

Arriving == \E s \in Staff : door[s].op = "arrive"

\* A new invite for the day; a check-in that has read the list does not know it.
AddInvite(i) ==
    /\ invite[i] = "none" /\ \A j \in Invites : j < i => invite[j] # "none"
    /\ invite' = [invite EXCEPT ![i] = "live"]
    /\ crossed' = (crossed \/ Arriving)
    /\ UNCHANGED <<eventVars, checkedIn, door>>

ArchiveInvite(i) ==
    /\ invite[i] = "live"
    /\ invite' = [invite EXCEPT ![i] = "archived"]
    /\ UNCHANGED <<eventVars, checkedIn, crossed, door>>

\* A restored invite comes back with its check-in, if it has one.
RestoreInvite(i) ==
    /\ invite[i] = "archived"
    /\ invite' = [invite EXCEPT ![i] = "live"]
    /\ crossed' = (crossed \/ Arriving \/ i \in checkedIn)
    /\ UNCHANGED <<eventVars, checkedIn, door>>

------------------------------------------------------------------------------
\* The door.

CheckInRead(s) ==
    /\ CheckInOpen
    /\ Begin(s, Job("checkIn", NoInvite))
    /\ UNCHANGED <<eventVars, guestVars>>

\* The guest's live invites, read after the event: none is a refusal, and one
\* already checked in is the answer.
FindInvite(s) ==
    /\ door[s].op = "checkIn"
    /\ LET pick == OnePerGuest(LiveInvites)
       IN  door' = [door EXCEPT ![s] = IF LiveInvites = {} \/ pick \in checkedIn
                                       THEN Resting ELSE Job("arrive", pick)]
    /\ UNCHANGED <<eventVars, guestVars>>

\* The unique (invite, day) turns a second tap into the first one's answer.
CheckIn(s) ==
    /\ door[s].op = "arrive"
    /\ checkedIn' = checkedIn \cup {door[s].pick}
    /\ Done(s)
    /\ UNCHANGED <<eventVars, invite, crossed>>

UndoRead(s) ==
    /\ CheckInOpen
    /\ Begin(s, Job("undo", NoInvite))
    /\ UNCHANGED <<eventVars, guestVars>>

\* Every check-in of the guest for the day, archived invites included.
Undo(s) ==
    /\ door[s].op = "undo"
    /\ checkedIn' = {}
    /\ Done(s)
    /\ UNCHANGED <<eventVars, invite, crossed>>

StatusNext ==
    \/ EditDays \/ LastDayEnds
    \/ \E i \in Invites : AddInvite(i) \/ ArchiveInvite(i) \/ RestoreInvite(i)
    \/ \E s \in Staff :
          \/ PublishRead(s) \/ Publish(s) \/ CancelRead(s) \/ Cancel(s)
          \/ CheckInRead(s) \/ FindInvite(s) \/ CheckIn(s) \/ UndoRead(s) \/ Undo(s)

StatusSpec == StatusInit /\ [][StatusNext]_statusVars

------------------------------------------------------------------------------
StatusTypeOK ==
    /\ status \in {"DRAFT", "PUBLISHED", "CANCELLED"}
    /\ days \in {"none", "ahead", "over"}
    /\ invite \in [Invites -> {"none", "live", "archived"}]
    /\ checkedIn \subseteq Invites
    /\ door \in [Staff -> [op : DoorOps, pick : Invites \cup {NoInvite}]]
    /\ told \in Nat /\ revived \in Nat /\ crossed \in BOOLEAN

\* However many cancels race, the guests are emailed once for each time the
\* event really became cancelled; and the only way back is a publish that read
\* the draft before the first cancel, so there are fewer of those than requests.
ToldOncePerCancel ==
    /\ told = revived + (IF status = "CANCELLED" THEN 1 ELSE 0)
    /\ revived < Cardinality(Staff)

\* The guest is one person at the door: checked in on one live invite at most,
\* however many the guest holds and whoever taps, unless an invite was added or
\* restored while a check-in was between its read and its write, or restored
\* with a check-in of its own.
OneArrival == crossed \/ Cardinality(checkedIn \cap LiveInvites) <= 1
=============================================================================
