---------------------------- MODULE OrganiserProofs ---------------------------
(***************************************************************************)
(* Theorems about EventStatus, PayoutAccount, RateLimits, EventCreation,   *)
(* Vendors, EventContent and GuestImport, for every number of requests,    *)
(* invites, accounts, events, members, spaces, days and items, and files   *)
(* of any length.                                                          *)
(***************************************************************************)
EXTENDS Organising, Integers, FiniteSetTheorems, WellFoundedInduction, TLAPS
-----------------------------------------------------------------------------
(* EventStatus: the newest of some invites.                                *)

\* A set of naturals that is not empty has a least element.
LEMMA Least ==
    ASSUME NEW S \in SUBSET Nat, S # {}
    PROVE  \E x \in S : \A y \in S : x <= y
<1> DEFINE R == OpToRel(<, Nat)
<1>1. \E x \in S : \A y \in S : <<y, x>> \notin R
  <2>1. IsWellFoundedOn(R, Nat)
    BY NatLessThanWellFounded
  <2> QED
    BY <2>1, WFMin
<1>2. \A x, y \in Nat : <<y, x>> \notin R => x <= y
  BY DEF OpToRel
<1> QED
  BY <1>1, <1>2

\* So some invites have a newest: the one with the fewest after it.
LEMMA NewestIsLast ==
    ASSUME NEW S \in SUBSET Invites, S # {}
    PROVE  Newest(S) \in S /\ \A i \in S : i <= Newest(S)
<1> DEFINE T == {MaxInvites - i : i \in S}
<1>1. \A i \in S : i \in Nat /\ MaxInvites - i \in Nat
  BY StatusAssumption DEF Invites
<1>2. T \in SUBSET Nat /\ T # {}
  BY <1>1, Zenon
<1>3. PICK t \in T : \A u \in T : t <= u
  BY <1>2, Least
<1>4. PICK x \in S : t = MaxInvites - x
  BY <1>3
<1>5. \A y \in S : y <= x
  <2> SUFFICES ASSUME NEW y \in S PROVE y <= x
    OBVIOUS
  <2>1. MaxInvites - x <= MaxInvites - y
    BY <1>3, <1>4
  <2> QED
    BY <2>1, <1>1, StatusAssumption
<1> HIDE DEF T
<1> QED
  BY <1>5, Zenon DEF Newest

-----------------------------------------------------------------------------
(* EventStatus: types.                                                     *)

Doings == [op : DoorOps, pick : Invites \cup {NoInvite}]

LEMMA DoingTypes ==
    /\ Resting \in Doings
    /\ \A op \in DoorOps, pick \in Invites \cup {NoInvite} : Job(op, pick) \in Doings
BY DEF Doings, Resting, Job, DoorOps

\* The invite a check-in picks is one of the live ones; it has not been checked
\* in unless no live one was.
LEMMA PickedIsLive ==
    ASSUME StatusTypeOK, LiveInvites # {}
    PROVE  /\ OnePerGuest(LiveInvites) \in LiveInvites
           /\ OnePerGuest(LiveInvites) \notin checkedIn =>
                 LiveInvites \cap checkedIn = {} /\ OnePerGuest(LiveInvites) = Newest(LiveInvites)
<1>1. LiveInvites \in SUBSET Invites /\ LiveInvites \cap checkedIn \in SUBSET Invites
  BY DEF LiveInvites
<1>2. Newest(LiveInvites) \in LiveInvites
  BY <1>1, NewestIsLast
<1>3. LiveInvites \cap checkedIn # {} => Newest(LiveInvites \cap checkedIn) \in LiveInvites \cap checkedIn
  BY <1>1, NewestIsLast
<1> QED
  BY <1>2, <1>3 DEF OnePerGuest

LEMMA BeginTypes ==
    ASSUME StatusTypeOK, NEW s \in Staff, NEW op \in DoorOps, NEW pick \in Invites \cup {NoInvite},
           door' = [door EXCEPT ![s] = Job(op, pick)]
    PROVE  door' \in [Staff -> Doings]
BY DoingTypes DEF StatusTypeOK, Doings

\* What a check-in has picked is an invite.
Picked == \A s \in Staff : door[s].op = "arrive" => door[s].pick \in Invites

LEMMA InitTypeOK == StatusInit => StatusTypeOK /\ Picked
<1> SUFFICES ASSUME StatusInit PROVE StatusTypeOK /\ Picked
  OBVIOUS
<1>1. door \in [Staff -> Doings]
  BY DoingTypes DEF StatusInit
<1>2. crossed \in BOOLEAN
  BY Zenon DEF StatusInit
<1> QED
  BY <1>1, <1>2 DEF StatusInit, StatusTypeOK, Doings, Picked, Resting, Job

LEMMA NextTypeOK == StatusTypeOK /\ Picked /\ [StatusNext]_statusVars => StatusTypeOK' /\ Picked'
<1> SUFFICES ASSUME StatusTypeOK, Picked, [StatusNext]_statusVars PROVE StatusTypeOK' /\ Picked'
  OBVIOUS
<1> USE DEF StatusTypeOK, Picked
<1>1. CASE UNCHANGED statusVars
  BY <1>1 DEF statusVars, eventVars, guestVars
<1>2. CASE EditDays \/ LastDayEnds
  BY <1>2 DEF EditDays, LastDayEnds, guestVars
<1>3. ASSUME NEW i \in Invites, AddInvite(i) \/ ArchiveInvite(i) \/ RestoreInvite(i)
      PROVE  StatusTypeOK' /\ Picked'
  BY <1>3 DEF AddInvite, ArchiveInvite, RestoreInvite, eventVars, Arriving
<1>4. ASSUME NEW s \in Staff, PublishRead(s) \/ CancelRead(s) \/ CheckInRead(s) \/ UndoRead(s)
      PROVE  StatusTypeOK' /\ Picked'
  <2>1. PICK op \in DoorOps \ {"arrive"} : door' = [door EXCEPT ![s] = Job(op, NoInvite)]
    BY <1>4 DEF PublishRead, CancelRead, CheckInRead, UndoRead, Begin, DoorOps
  <2>2. Picked'
    BY <2>1 DEF Job
  <2> QED
    BY <1>4, <2>1, <2>2, BeginTypes DEF PublishRead, CancelRead, CheckInRead, UndoRead, eventVars, guestVars, Doings
<1>5. ASSUME NEW s \in Staff, Publish(s) \/ Cancel(s) \/ CheckIn(s) \/ Undo(s)
      PROVE  StatusTypeOK' /\ Picked'
  <2>1. door' = [door EXCEPT ![s] = Resting]
    BY <1>5 DEF Publish, Cancel, CheckIn, Undo, Done
  <2>2. door' \in [Staff -> Doings] /\ Picked'
    BY <2>1, DoingTypes DEF Doings, Resting, Job
  <2> QED
    BY <1>5, <2>2 DEF Publish, Cancel, CheckIn, Undo, eventVars, guestVars, Doings
<1>6. ASSUME NEW s \in Staff, FindInvite(s)
      PROVE  StatusTypeOK' /\ Picked'
  <2>1. LiveInvites # {} => OnePerGuest(LiveInvites) \in Invites
    BY PickedIsLive DEF LiveInvites
  <2>2. door' \in [Staff -> Doings]
    BY <1>6, <2>1, DoingTypes DEF FindInvite, Doings, DoorOps
  <2>3. Picked'
    BY <1>6, <2>1 DEF FindInvite, Resting, Job
  <2> QED
    BY <1>6, <2>2, <2>3 DEF FindInvite, eventVars, guestVars, Doings
<1> QED
  BY <1>1, <1>2, <1>3, <1>4, <1>5, <1>6 DEF StatusNext

-----------------------------------------------------------------------------
(* EventStatus: one notice for each cancellation.                          *)

\* The requests that have read the draft and are about to publish it.
Publishers == {s \in Staff : door[s].op = "publish"}

\* While the event is a draft nothing was revived; from then on, each revival
\* uses up one of the publishes that had begun, which are fewer than the
\* requests, as the one that ended the draft is not among them.
FewPublishers ==
    /\ status = "DRAFT" => revived = 0
    /\ status # "DRAFT" => revived + Cardinality(Publishers) < Cardinality(Staff)

OneNotice == told = revived + (IF status = "CANCELLED" THEN 1 ELSE 0)

\* Fewer publishers stay few, and one request that is none leaves room for them.
LEMMA PublishersCount ==
    /\ IsFiniteSet(Publishers) /\ Cardinality(Publishers) \in Nat /\ Cardinality(Staff) \in Nat
    /\ Cardinality(Staff) > 0
    /\ \A S \in SUBSET Publishers : Cardinality(S) \in Nat /\ Cardinality(S) <= Cardinality(Publishers)
    /\ \A s \in Publishers : Cardinality(Publishers \ {s}) = Cardinality(Publishers) - 1
    /\ \A s \in Staff : \A S \in SUBSET (Staff \ {s}) : Cardinality(S) \in Nat /\ Cardinality(S) < Cardinality(Staff)
<1>1. Publishers \in SUBSET Staff
  BY DEF Publishers
<1>2. IsFiniteSet(Publishers) /\ Cardinality(Publishers) \in Nat /\ Cardinality(Staff) \in Nat
  BY <1>1, StatusAssumption, FS_Subset, FS_CardinalityType
<1>3. Cardinality(Staff) > 0
  BY <1>2, StatusAssumption, FS_EmptySet
<1>4. ASSUME NEW S \in SUBSET Publishers
      PROVE  Cardinality(S) \in Nat /\ Cardinality(S) <= Cardinality(Publishers)
  BY <1>2, FS_Subset, FS_CardinalityType
<1>5. ASSUME NEW s \in Publishers
      PROVE  Cardinality(Publishers \ {s}) = Cardinality(Publishers) - 1
  BY <1>2, FS_RemoveElement
<1>6. ASSUME NEW s \in Staff, NEW S \in SUBSET (Staff \ {s})
      PROVE  Cardinality(S) \in Nat /\ Cardinality(S) < Cardinality(Staff)
  <2>1. IsFiniteSet(Staff \ {s}) /\ Cardinality(Staff \ {s}) = Cardinality(Staff) - 1
    BY StatusAssumption, FS_RemoveElement
  <2>2. Cardinality(S) \in Nat /\ Cardinality(S) <= Cardinality(Staff \ {s})
    BY <2>1, FS_Subset, FS_CardinalityType
  <2> QED
    BY <1>2, <2>1, <2>2
<1> QED
  BY <1>2, <1>3, <1>4, <1>5, <1>6

LEMMA DraftEnds ==
    ASSUME StatusTypeOK, FewPublishers, NEW s \in Staff, Publish(s) \/ Cancel(s)
    PROVE  FewPublishers'
<1>1. Publishers' = Publishers \ {s}
  BY DEF Publish, Cancel, Done, Publishers, StatusTypeOK, Resting, Job
<1>2. status' # "DRAFT"
  BY DEF Publish, Cancel
<1>3. CASE status = "DRAFT"
  <2>1. revived' = 0
    BY <1>3 DEF Publish, Cancel, FewPublishers
  <2>2. Publishers' \in SUBSET (Staff \ {s})
    BY <1>1 DEF Publishers
  <2>3. Cardinality(Publishers') \in Nat /\ Cardinality(Publishers') < Cardinality(Staff)
    BY <2>2, PublishersCount
  <2> QED
    BY <1>2, <2>1, <2>3, PublishersCount DEF FewPublishers
<1>4. CASE status # "DRAFT" /\ Publish(s)
  <2>1. revived' \in {revived, revived + 1} /\ revived \in Nat
    BY <1>4 DEF Publish, StatusTypeOK
  <2>2. s \in Publishers
    BY <1>4 DEF Publish, Publishers
  <2>3. Cardinality(Publishers') = Cardinality(Publishers) - 1
    BY <1>1, <2>2, PublishersCount
  <2>4. revived + Cardinality(Publishers) < Cardinality(Staff)
    BY <1>4 DEF FewPublishers
  <2> QED
    BY <1>2, <2>1, <2>3, <2>4, PublishersCount DEF FewPublishers
<1>5. CASE status # "DRAFT" /\ Cancel(s)
  <2>1. revived' = revived /\ revived \in Nat
    BY <1>5 DEF Cancel, StatusTypeOK
  <2>2. Cardinality(Publishers') \in Nat /\ Cardinality(Publishers') <= Cardinality(Publishers)
    <3>1. Publishers \ {s} \in SUBSET Publishers
      OBVIOUS
    <3> QED
      BY <1>1, <3>1, PublishersCount
  <2>3. revived + Cardinality(Publishers) < Cardinality(Staff)
    BY <1>5 DEF FewPublishers
  <2> QED
    BY <1>2, <2>1, <2>2, <2>3, PublishersCount DEF FewPublishers
<1> QED
  BY <1>3, <1>4, <1>5

\* Nothing else makes a publisher of an event that is no draft.
LEMMA OthersPublishNothing ==
    ASSUME StatusTypeOK, FewPublishers, [StatusNext]_statusVars,
           \A s \in Staff : ~Publish(s) /\ ~Cancel(s)
    PROVE  FewPublishers'
<1>1. status' = status /\ revived' = revived
  BY DEF StatusNext, statusVars, eventVars, EditDays, LastDayEnds, AddInvite, ArchiveInvite, RestoreInvite,
         PublishRead, CancelRead, CheckInRead, FindInvite, CheckIn, UndoRead, Undo
<1>2. status # "DRAFT" => Publishers' \in SUBSET Publishers
  <2> SUFFICES ASSUME status # "DRAFT" PROVE Publishers' \in SUBSET Publishers
    OBVIOUS
  <2>1. \A s \in Staff : ~PublishRead(s)
    BY DEF PublishRead, EffectiveStatus
  <2>2. CASE door' = door
    BY <2>2 DEF Publishers
  <2>3. CASE \E s \in Staff, op \in DoorOps \ {"publish"} : \E pick : door' = [door EXCEPT ![s] = Job(op, pick)]
    BY <2>3 DEF Publishers, StatusTypeOK, Job
  <2> QED
    BY <2>1, <2>2, <2>3
       DEF StatusNext, statusVars, eventVars, EditDays, LastDayEnds, AddInvite, ArchiveInvite, RestoreInvite,
           CancelRead, CheckInRead, FindInvite, CheckIn, UndoRead, Undo, Begin, Done, Resting, DoorOps
<1>3. status # "DRAFT" => Cardinality(Publishers') \in Nat /\ Cardinality(Publishers') <= Cardinality(Publishers)
  BY <1>2, PublishersCount
<1>4. revived \in Nat
  BY DEF StatusTypeOK
<1> QED
  BY <1>1, <1>3, <1>4, PublishersCount DEF FewPublishers

LEMMA NextOneNotice ==
    ASSUME StatusTypeOK, FewPublishers, OneNotice, [StatusNext]_statusVars
    PROVE  FewPublishers' /\ OneNotice'
<1>1. ASSUME NEW s \in Staff, Publish(s) \/ Cancel(s)
      PROVE  FewPublishers' /\ OneNotice'
  <2>1. FewPublishers'
    BY <1>1, DraftEnds
  <2>2. OneNotice'
    BY <1>1 DEF Publish, Cancel, OneNotice, StatusTypeOK
  <2> QED
    BY <2>1, <2>2
<1>2. ASSUME \A s \in Staff : ~Publish(s) /\ ~Cancel(s)
      PROVE  FewPublishers' /\ OneNotice'
  <2>1. FewPublishers'
    BY <1>2, OthersPublishNothing
  <2>2. told' = told /\ revived' = revived /\ status' = status
    BY <1>2 DEF StatusNext, statusVars, eventVars, EditDays, LastDayEnds, AddInvite, ArchiveInvite,
                RestoreInvite, PublishRead, CancelRead, CheckInRead, FindInvite, CheckIn, UndoRead, Undo
  <2> QED
    BY <2>1, <2>2 DEF OneNotice
<1> QED
  BY <1>1, <1>2

\* Few publishers and one notice make the property.
LEMMA NoticesCount ==
    ASSUME StatusTypeOK, FewPublishers, OneNotice
    PROVE  ToldOncePerCancel
<1>1. revived \in Nat /\ Cardinality(Staff) \in Nat /\ Cardinality(Staff) > 0 /\ Cardinality(Publishers) \in Nat
  BY PublishersCount DEF StatusTypeOK
<1>2. revived < Cardinality(Staff)
  BY <1>1 DEF FewPublishers
<1> QED
  BY <1>2 DEF ToldOncePerCancel, OneNotice

\* The state of an event and of its door is what the types say: above all,
\* whatever a check-in is about to write is an invite of the guest.
THEOREM StatusTypeCorrect == StatusSpec => [](StatusTypeOK /\ Picked)
<1>1. StatusInit => StatusTypeOK /\ Picked
  BY InitTypeOK
<1>2. StatusTypeOK /\ Picked /\ [StatusNext]_statusVars => StatusTypeOK' /\ Picked'
  BY NextTypeOK
<1> QED
  BY <1>1, <1>2, PTL DEF StatusSpec

\* However many requests publish and cancel one event at once, with no lock, its
\* guests are emailed exactly once for each time it really became cancelled, and
\* it comes back from a cancellation fewer times than there are requests.
THEOREM OneEmailPerCancellation == StatusSpec => []ToldOncePerCancel
<1>1. StatusInit => FewPublishers /\ OneNotice
  BY DEF StatusInit, FewPublishers, OneNotice
<1>2. StatusTypeOK /\ FewPublishers /\ OneNotice /\ [StatusNext]_statusVars => FewPublishers' /\ OneNotice'
  BY NextOneNotice
<1>3. StatusTypeOK /\ FewPublishers /\ OneNotice => ToldOncePerCancel
  BY NoticesCount
<1> QED
  BY <1>1, <1>2, <1>3, StatusTypeCorrect, PTL DEF StatusSpec

-----------------------------------------------------------------------------
(* EventStatus: one arrival of one guest.                                  *)

Arrivals == LiveInvites \cap checkedIn

\* Nothing is checked in that was never an invite, nor about to be.
Known ==
    /\ \A i \in checkedIn : invite[i] # "none"
    /\ \A s \in Staff : door[s].op = "arrive" => invite[door[s].pick] # "none"

\* What a check-in is about to write is still right, if it is still live: it is
\* the newest live invite, and no other live one has been checked in.
AsRead ==
    \A s \in Staff :
        door[s].op = "arrive" /\ door[s].pick \in LiveInvites =>
            /\ \A i \in LiveInvites : i <= door[s].pick
            /\ Arrivals \subseteq {door[s].pick}

Alone == \A i, j \in Arrivals : i = j

Door == Known /\ (~crossed => AsRead /\ Alone)

LEMMA AddKeepsDoor ==
    ASSUME StatusTypeOK, Picked, Door, NEW i \in Invites, AddInvite(i)
    PROVE  Door'
<1>1. Known'
  BY DEF Door, Known, AddInvite, StatusTypeOK, Picked
<1>2. ~crossed' => Arrivals' = Arrivals /\ \A s \in Staff : door'[s].op # "arrive"
  BY DEF Door, Known, AddInvite, StatusTypeOK, Arrivals, LiveInvites, Arriving
<1> QED
  BY <1>1, <1>2 DEF Door, AsRead, Alone, AddInvite

LEMMA RestoreKeepsDoor ==
    ASSUME StatusTypeOK, Picked, Door, NEW i \in Invites, RestoreInvite(i)
    PROVE  Door'
<1>1. Known'
  BY DEF Door, Known, RestoreInvite, StatusTypeOK, Picked
<1>2. ~crossed' => Arrivals' = Arrivals /\ \A s \in Staff : door'[s].op # "arrive"
  BY DEF RestoreInvite, StatusTypeOK, Arrivals, LiveInvites, Arriving
<1> QED
  BY <1>1, <1>2 DEF Door, AsRead, Alone, RestoreInvite

LEMMA ArchiveKeepsDoor ==
    ASSUME StatusTypeOK, Picked, Door, NEW i \in Invites, ArchiveInvite(i)
    PROVE  Door'
<1>1. Known'
  BY DEF Door, Known, ArchiveInvite, StatusTypeOK, Picked
<1>2. LiveInvites' = LiveInvites \ {i} /\ checkedIn' = checkedIn /\ door' = door /\ crossed' = crossed
  BY DEF ArchiveInvite, StatusTypeOK, LiveInvites
<1> QED
  BY <1>1, <1>2 DEF Door, AsRead, Alone, Arrivals

LEMMA CheckInKeepsDoor ==
    ASSUME StatusTypeOK, Picked, Door, NEW s \in Staff, CheckIn(s)
    PROVE  Door'
<1>1. Known'
  BY DEF Door, Known, CheckIn, Done, StatusTypeOK, Picked, Resting, Job
<1> SUFFICES ASSUME ~crossed PROVE AsRead' /\ Alone'
  BY <1>1 DEF Door, CheckIn
<1>2. AsRead /\ Alone /\ LiveInvites' = LiveInvites /\ LiveInvites \subseteq Nat
  BY DEF Door, CheckIn, LiveInvites, Invites
<1>3. CASE door[s].pick \in LiveInvites
  <2>1. Arrivals' = {door[s].pick}
    BY <1>2, <1>3 DEF AsRead, Arrivals, CheckIn
  <2>2. ASSUME NEW t \in Staff, door'[t].op = "arrive", door'[t].pick \in LiveInvites
        PROVE  /\ \A i \in LiveInvites : i <= door'[t].pick
               /\ door'[t].pick = door[s].pick
    <3>1. door'[t] = door[t]
      BY <2>2 DEF CheckIn, Done, StatusTypeOK, Resting, Job
    <3>2. \A i \in LiveInvites : i <= door[t].pick
      BY <1>2, <2>2, <3>1, Zenon DEF AsRead
    <3>3. door[t].pick <= door[s].pick
      BY <1>2, <1>3, <2>2, <3>1, Zenon DEF AsRead, CheckIn
    <3>4. door[t].pick \in Nat /\ door[s].pick \in Nat
      BY <1>2, <1>3, <2>2, <3>1
    <3> QED
      BY <1>3, <3>1, <3>2, <3>3, <3>4
  <2> QED
    BY <1>2, <2>1, <2>2 DEF AsRead, Alone
<1>4. CASE door[s].pick \notin LiveInvites
  <2>1. Arrivals' = Arrivals
    BY <1>2, <1>4 DEF Arrivals, CheckIn
  <2>2. \A t \in Staff : door'[t].op = "arrive" => door'[t] = door[t]
    BY DEF CheckIn, Done, StatusTypeOK, Resting, Job
  <2> QED
    BY <1>2, <2>1, <2>2 DEF AsRead, Alone
<1> QED
  BY <1>3, <1>4

LEMMA FindKeepsDoor ==
    ASSUME StatusTypeOK, Picked, Door, NEW s \in Staff, FindInvite(s)
    PROVE  Door'
<1>1. UNCHANGED <<invite, checkedIn, crossed>> /\ LiveInvites' = LiveInvites /\ Arrivals' = Arrivals
  BY DEF FindInvite, eventVars, guestVars, LiveInvites, Arrivals
<1>2. \A t \in Staff \ {s} : door'[t] = door[t]
  BY DEF FindInvite, StatusTypeOK
<1>3. CASE door'[s] = Resting
  BY <1>1, <1>2, <1>3 DEF Door, Known, AsRead, Alone, Resting, Job
<1>4. CASE door'[s] # Resting
  <2> DEFINE pick == OnePerGuest(LiveInvites)
  <2>1. LiveInvites # {} /\ pick \notin checkedIn /\ door'[s] = Job("arrive", pick)
    BY <1>4 DEF FindInvite, StatusTypeOK
  <2>2. pick \in LiveInvites /\ Arrivals = {} /\ pick = Newest(LiveInvites)
    BY <2>1, PickedIsLive DEF Arrivals
  <2>3. \A i \in LiveInvites : i <= pick
    <3>1. LiveInvites \in SUBSET Invites
      BY DEF LiveInvites
    <3> QED
      BY <2>1, <2>2, <3>1, NewestIsLast
  <2>4. invite[pick] # "none" /\ door'[s].pick = pick
    BY <2>1, <2>2 DEF LiveInvites, Job
  <2> HIDE DEF pick
  <2> QED
    BY <1>1, <1>2, <2>2, <2>3, <2>4 DEF Door, Known, AsRead, Alone
<1> QED
  BY <1>3, <1>4

LEMMA NextDoor ==
    ASSUME StatusTypeOK, Picked, Door, [StatusNext]_statusVars
    PROVE  Door'
<1>1. ASSUME UNCHANGED guestVars, \A s \in Staff : door'[s].op = "arrive" => door'[s] = door[s]
      PROVE  Door'
  BY <1>1 DEF guestVars, Door, Known, AsRead, Alone, Arrivals, LiveInvites
<1>2. CASE UNCHANGED statusVars
  BY <1>1, <1>2 DEF statusVars
<1>3. CASE EditDays \/ LastDayEnds
  BY <1>1, <1>3 DEF EditDays, LastDayEnds
<1>4. ASSUME NEW i \in Invites, AddInvite(i) \/ ArchiveInvite(i) \/ RestoreInvite(i)
      PROVE  Door'
  BY <1>4, AddKeepsDoor, ArchiveKeepsDoor, RestoreKeepsDoor
<1>5. ASSUME NEW s \in Staff, PublishRead(s) \/ CancelRead(s) \/ CheckInRead(s) \/ UndoRead(s)
      PROVE  Door'
  <2>1. \A t \in Staff : door'[t].op = "arrive" => door'[t] = door[t]
    BY <1>5 DEF PublishRead, CancelRead, CheckInRead, UndoRead, Begin, Job, StatusTypeOK
  <2> QED
    BY <1>1, <1>5, <2>1 DEF PublishRead, CancelRead, CheckInRead, UndoRead
<1>6. ASSUME NEW s \in Staff, Publish(s) \/ Cancel(s)
      PROVE  Door'
  <2>1. \A t \in Staff : door'[t].op = "arrive" => door'[t] = door[t]
    BY <1>6 DEF Publish, Cancel, Done, Resting, Job, StatusTypeOK
  <2> QED
    BY <1>1, <1>6, <2>1 DEF Publish, Cancel
<1>7. ASSUME NEW s \in Staff, Undo(s)
      PROVE  Door'
  <2>1. \A t \in Staff : door'[t].op = "arrive" => door'[t] = door[t]
    BY <1>7 DEF Undo, Done, Resting, Job, StatusTypeOK
  <2> QED
    BY <1>7, <2>1 DEF Undo, Door, Known, AsRead, Alone, Arrivals, LiveInvites
<1> QED
  BY <1>2, <1>3, <1>4, <1>5, <1>6, <1>7, CheckInKeepsDoor, FindKeepsDoor DEF StatusNext

\* However many people tap a guest in at the door, and however many invites the
\* guest holds, the guest is checked in on one live invite at most, unless an
\* invite came, or came back, in the way of a check-in: the door needs no lock,
\* for every tap picks the same newest invite.
THEOREM OneArrivalAtTheDoor == StatusSpec => []OneArrival
<1>1. StatusInit => Door
  BY DEF StatusInit, Door, Known, AsRead, Alone, Arrivals, Resting, Job
<1>2. StatusTypeOK /\ Picked /\ Door /\ [StatusNext]_statusVars => Door'
  BY NextDoor
<1>3. Door => OneArrival
  <2> SUFFICES ASSUME Door, ~crossed PROVE Cardinality(checkedIn \cap LiveInvites) <= 1
    BY DEF OneArrival
  <2>1. checkedIn \cap LiveInvites = Arrivals /\ Alone
    BY DEF Door, Arrivals
  <2>2. Arrivals = {} \/ \E x : Arrivals = {x}
    BY <2>1 DEF Alone
  <2>3. CASE Arrivals = {}
    BY <2>1, <2>3, FS_EmptySet
  <2>4. CASE \E x : Arrivals = {x}
    BY <2>1, <2>4, FS_Singleton
  <2> QED
    BY <2>2, <2>3, <2>4
<1> QED
  BY <1>1, <1>2, <1>3, StatusTypeCorrect, PTL DEF StatusSpec

-----------------------------------------------------------------------------
(* PayoutAccount: types.                                                   *)

Steps == {"idle", "create", "update", "get", "refused", "save", "cache"}
AccountRows == [number : Numbers \cup {Unsaid}, bank : Banks \cup {Unsaid}, active : BOOLEAN]
PayoutRows == [code : Codes \cup {NoCode}, status : {"NONE", "PENDING", "ACTIVE", "FAILED"},
               bank : Banks \cup {Unsaid}, last4 : Numbers \cup {Unsaid}]
FormRows == [step : Steps, number : Numbers \cup {Unsaid}, bank : Banks \cup {Unsaid}, code : Codes \cup {NoCode},
             last4 : Numbers \cup {Unsaid}, active : BOOLEAN, whole : BOOLEAN, alone : BOOLEAN]

LEMMA LeftIs ==
    ASSUME NEW r \in FormRows, NEW alone \in BOOLEAN
    PROVE  LET q == [r EXCEPT !.alone = alone]
           IN /\ q \in FormRows /\ q.alone = alone
              /\ q.step = r.step /\ q.number = r.number /\ q.code = r.code /\ q.last4 = r.last4
              /\ q.bank = r.bank /\ q.active = r.active /\ q.whole = r.whole
BY DEF FormRows

\* A request knows the account it is about, and an idle one nothing.
CodesRead ==
    \A f \in Forms :
        /\ form[f].step \in {"update", "get", "save", "cache"} => form[f].code \in Codes
        /\ form[f].step = "idle" => form[f] = Idle
        /\ form[f].step \in {"create", "update"} /\ form[f].whole => form[f].number # Unsaid
        /\ form[f].step = "create" => form[f].whole

PayoutTypes ==
    /\ opened \in [Codes -> AccountRows] /\ payout \in PayoutRows
    /\ unsure \in BOOLEAN /\ form \in [Forms -> FormRows]
    /\ CodesRead

LEMMA FormsMade ==
    /\ Idle \in FormRows /\ Idle.step = "idle" /\ Idle.alone
    /\ NoCode = 0 /\ NoCode \notin Codes /\ 1 \in Codes /\ Unopened \in AccountRows /\ NoRow \in PayoutRows
    /\ \A f \in Forms : PayoutTypes => (Occupied(f) <=> form[f].step # "idle")
    /\ \A step \in Steps, n \in Numbers \cup {Unsaid}, b \in Banks \cup {Unsaid},
          c \in Codes \cup {NoCode}, l \in Numbers \cup {Unsaid} :
          LET q == Form(step, n, b, c, l)
          IN  /\ q \in FormRows /\ q.step = step /\ q.number = n /\ q.bank = b /\ q.code = c /\ q.last4 = l
              /\ q.whole = (Unsaid \notin {n, b})
<1>1. \A step \in Steps, n \in Numbers \cup {Unsaid}, b \in Banks \cup {Unsaid},
          c \in Codes \cup {NoCode}, l \in Numbers \cup {Unsaid} :
          LET q == Form(step, n, b, c, l)
          IN  /\ q \in FormRows /\ q.step = step /\ q.number = n /\ q.bank = b /\ q.code = c /\ q.last4 = l
              /\ q.whole = (Unsaid \notin {n, b})
  BY DEF Form, FormRows
<1>2. Idle.step = "idle" /\ Idle.alone
  BY DEF Idle, Form
<1>3. Idle \in FormRows
  <2>1. "idle" \in Steps
    BY DEF Steps
  <2> QED
    BY <1>1, <2>1 DEF Idle
<1>4. NoCode = 0 /\ NoCode \notin Codes /\ 1 \in Codes
  BY PayoutAssumption DEF NoCode, Codes
<1>5. Unopened \in AccountRows /\ NoRow \in PayoutRows
  BY DEF Unopened, Account, AccountRows, NoRow, TenantRow, PayoutRows
<1>6. \A f \in Forms : PayoutTypes => (Occupied(f) <=> form[f].step # "idle")
  BY <1>2 DEF PayoutTypes, CodesRead, Occupied
<1> QED
  BY <1>1, <1>2, <1>3, <1>4, <1>5, <1>6

\* What a request is once answered.
IsAnswered(f, step, code, bank, last4, active) ==
    /\ form' \in [Forms -> FormRows] /\ \A g \in Forms \ {f} : form'[g] = form[g]
    /\ form'[f].step = step /\ form'[f].code = code /\ form'[f].last4 = last4
    /\ form'[f].bank = bank /\ form'[f].active = active /\ form'[f].whole = form[f].whole
    /\ form'[f].alone = form[f].alone

LEMMA AnsweredIs ==
    ASSUME PayoutTypes, NEW f \in Forms, NEW step \in Steps, NEW code \in Codes \cup {NoCode},
           NEW bank \in Banks \cup {Unsaid}, NEW last4 \in Numbers \cup {Unsaid}, NEW active \in BOOLEAN,
           Answered(f, step, code, bank, last4, active)
    PROVE  IsAnswered(f, step, code, bank, last4, active)
<1> DEFINE q == [form[f] EXCEPT !.step = step, !.number = Unsaid, !.code = code, !.bank = bank,
                                !.last4 = last4, !.active = active]
<1>1. form[f] \in FormRows /\ form \in [Forms -> FormRows]
  BY DEF PayoutTypes
<1>0. q = [form[f] EXCEPT !.step = step, !.number = Unsaid, !.code = code, !.bank = bank,
                         !.last4 = last4, !.active = active]
  OBVIOUS
<1> HIDE DEF q
<1>2. /\ q \in FormRows
      /\ q.step = step /\ q.code = code /\ q.last4 = last4
      /\ q.bank = bank /\ q.active = active /\ q.whole = form[f].whole /\ q.alone = form[f].alone
  BY <1>0, <1>1 DEF FormRows
<1>3. form' = [form EXCEPT ![f] = q]
  BY <1>0, Zenon DEF Answered
<1> QED
  BY <1>1, <1>2, <1>3 DEF IsAnswered

\* A request that begins, and those it finds there.
LEMMA BeginsIs ==
    ASSUME PayoutTypes, NEW f \in Forms, NEW new \in FormRows, new.step # "idle", Begins(f, new)
    PROVE  /\ ~Occupied(f) /\ UNCHANGED <<opened, payout, unsure>>
           /\ form' \in [Forms -> FormRows]
           /\ form'[f].step = new.step /\ form'[f].number = new.number /\ form'[f].code = new.code
           /\ form'[f].last4 = new.last4 /\ form'[f].whole = new.whole
           /\ form'[f].alone => \A g \in Forms : ~Occupied(g)
           /\ \A g \in Forms \ {f} :
                 \/ ~Occupied(g) /\ form'[g] = Idle
                 \/ /\ Occupied(g) /\ ~form'[g].alone
                    /\ form'[g].step = form[g].step /\ form'[g].number = form[g].number
                    /\ form'[g].code = form[g].code /\ form'[g].whole = form[g].whole
<1> DEFINE alone == \A g \in Forms : ~Occupied(g)
           a == [new EXCEPT !.alone = alone]
           left(g) == [form[g] EXCEPT !.alone = FALSE]
<1>1. /\ a \in FormRows /\ a.alone = alone
      /\ a.step = new.step /\ a.number = new.number /\ a.code = new.code /\ a.last4 = new.last4
      /\ a.whole = new.whole
  <2>1. alone \in BOOLEAN
    OBVIOUS
  <2> HIDE DEF alone
  <2> QED
    BY <2>1, LeftIs
<1>2. ASSUME NEW g \in Forms
      PROVE  /\ left(g) \in FormRows /\ ~left(g).alone
             /\ left(g).step = form[g].step /\ left(g).number = form[g].number
             /\ left(g).code = form[g].code /\ left(g).whole = form[g].whole
  BY LeftIs DEF PayoutTypes
<1>3. form' = [g \in Forms |-> IF g = f THEN a ELSE IF Occupied(g) THEN left(g) ELSE Idle]
  BY DEF Begins
<1>4. ~Occupied(f) /\ UNCHANGED <<opened, payout, unsure>>
  BY DEF Begins
<1> HIDE DEF a, left
<1>5. form' \in [Forms -> FormRows]
  BY <1>1, <1>2, <1>3, FormsMade
<1>6. form'[f] = a
  BY <1>3
<1>7. \A g \in Forms \ {f} : form'[g] = IF Occupied(g) THEN left(g) ELSE Idle
  BY <1>3
<1>8. \A g \in Forms \ {f} :
                 \/ ~Occupied(g) /\ form'[g] = Idle
                 \/ /\ Occupied(g) /\ ~form'[g].alone
                    /\ form'[g].step = form[g].step /\ form'[g].number = form[g].number
                    /\ form'[g].code = form[g].code /\ form'[g].whole = form[g].whole
  BY <1>2, <1>7
<1> QED
  BY <1>1, <1>4, <1>5, <1>6, <1>8

\* The three requests begin with what the row says.
Starts(f) == Submit(f) \/ Update(f) \/ GetStatus(f)

LEMMA StartsIs ==
    ASSUME PayoutTypes, NEW f \in Forms, Starts(f)
    PROVE  \E new \in FormRows :
              /\ Begins(f, new) /\ new.step \in {"create", "update", "get"}
              /\ new.step # "create" => new.code = payout.code /\ new.code \in Codes
              /\ new.step = "update" => new.last4 = payout.last4
              /\ new.step # "get" /\ new.whole => new.number # Unsaid
              /\ new.step = "create" => new.whole
<1>t. /\ payout.code \in Codes \cup {NoCode} /\ payout.last4 \in Numbers \cup {Unsaid}
      /\ {"create", "update", "get"} \subseteq Steps
  BY DEF PayoutTypes, PayoutRows, Steps
<1>1. CASE Submit(f)
  <2>1. PICK n \in Numbers, b \in Banks : Begins(f, Form("create", n, b, NoCode, Unsaid))
    BY <1>1 DEF Submit
  <2> DEFINE new == Form("create", n, b, NoCode, Unsaid)
  <2>2. Unsaid \notin {n, b} /\ n # Unsaid
    BY PayoutAssumption
  <2>3. new \in FormRows /\ new.step = "create" /\ new.number = n /\ new.whole = (Unsaid \notin {n, b})
    BY <1>t, FormsMade
  <2> HIDE DEF new
  <2> QED
    BY <2>1, <2>2, <2>3 DEF new
<1>2. CASE Update(f)
  <2>1. PICK n \in Numbers \cup {Unsaid}, b \in Banks \cup {Unsaid} :
           payout.code # NoCode /\ Begins(f, Form("update", n, b, payout.code, payout.last4))
    BY <1>2 DEF Update
  <2> DEFINE new == Form("update", n, b, payout.code, payout.last4)
  <2>2. /\ new \in FormRows /\ new.step = "update" /\ new.number = n /\ new.code = payout.code
        /\ new.last4 = payout.last4 /\ new.whole = (Unsaid \notin {n, b})
    BY <1>t, FormsMade
  <2>3. payout.code \in Codes
    BY <1>t, <2>1
  <2> HIDE DEF new
  <2> QED
    BY <2>1, <2>2, <2>3 DEF new
<1>3. CASE GetStatus(f)
  BY <1>t, <1>3, FormsMade DEF GetStatus
<1> QED
  BY <1>1, <1>2, <1>3 DEF Starts

\* What Paystack does for a request, heard of or not.
LEMMA PaystackIs ==
    ASSUME PayoutTypes, NEW f \in Forms, PaystackDoes(f)
    PROVE  \E c \in Codes, acct \in AccountRows, heard \in BOOLEAN :
              /\ form[f].step \in {"create", "update"} /\ (form[f].step = "update" => c = form[f].code)
              /\ opened' = [opened EXCEPT ![c] = acct] /\ payout' = payout
              /\ acct.number = IF form[f].number = Unsaid /\ form[f].step = "update"
                              THEN opened[c].number ELSE form[f].number
              /\ unsure' = (unsure \/ ~heard)
              /\ heard => IsAnswered(f, "save", c, acct.bank, Last4(f, acct.number), acct.active)
              /\ ~heard => IsAnswered(f, "refused", NoCode, Unsaid, Unsaid, FALSE)
<1>1. PICK c \in Codes, active \in BOOLEAN, heard \in BOOLEAN :
         /\ CreateSubaccount(f, c, active) \/ UpdateSubaccount(f, c, active)
         /\ IF heard THEN Answered(f, "save", c, opened'[c].bank, Last4(f, opened'[c].number), active)
            ELSE NotAnswered(f)
         /\ unsure' = (unsure \/ ~heard)
         /\ UNCHANGED payout
  BY Zenon DEF PaystackDoes
<1>t. form[f] \in FormRows /\ opened[c] \in AccountRows /\ opened \in [Codes -> AccountRows]
  BY DEF PayoutTypes
<1>2. PICK acct \in AccountRows :
         /\ form[f].step \in {"create", "update"} /\ (form[f].step = "update" => c = form[f].code)
         /\ opened' = [opened EXCEPT ![c] = acct] /\ acct.active = active
         /\ acct.number = IF form[f].number = Unsaid /\ form[f].step = "update"
                         THEN opened[c].number ELSE form[f].number
  <2>1. CASE CreateSubaccount(f, c, active)
    <3> DEFINE acct == Account(form[f].number, form[f].bank, active)
    <3>1. acct \in AccountRows /\ acct.active = active /\ acct.number = form[f].number
      BY <1>t DEF Account, AccountRows, FormRows
    <3> QED
      BY <2>1, <3>1, Zenon DEF CreateSubaccount
  <2>2. CASE UpdateSubaccount(f, c, active)
    <3> DEFINE acct == Account(Given(form[f].number, opened[c].number), Given(form[f].bank, opened[c].bank), active)
    <3>1. acct \in AccountRows /\ acct.active = active
          /\ acct.number = IF form[f].number = Unsaid THEN opened[c].number ELSE form[f].number
      BY <1>t DEF Account, Given, AccountRows, FormRows
    <3>2. opened' = [opened EXCEPT ![c] = acct] /\ form[f].step = "update" /\ c = form[f].code
      BY <1>t, <2>2 DEF UpdateSubaccount
    <3> HIDE DEF acct
    <3> QED
      BY <3>1, <3>2
  <2> QED
    BY <1>1, <2>1, <2>2
<1>3. opened'[c] = acct
  BY <1>t, <1>2
<1> DEFINE l == Last4(f, acct.number)
<1>4. l \in Numbers \cup {Unsaid} /\ acct.bank \in Banks \cup {Unsaid} /\ acct.active \in BOOLEAN
  BY <1>t DEF Last4, AccountRows, FormRows
<1>5. /\ heard => Answered(f, "save", c, acct.bank, l, acct.active)
      /\ ~heard => Answered(f, "refused", NoCode, Unsaid, Unsaid, FALSE)
  BY <1>1, <1>2, <1>3 DEF NotAnswered
<1> HIDE DEF l
<1>6. /\ heard => IsAnswered(f, "save", c, acct.bank, l, acct.active)
      /\ ~heard => IsAnswered(f, "refused", NoCode, Unsaid, Unsaid, FALSE)
  BY <1>4, <1>5, AnsweredIs DEF Steps
<1> QED
  BY <1>1, <1>2, <1>6 DEF l

\* What a status page is told.
LEMMA GetIs ==
    ASSUME PayoutTypes, NEW f \in Forms, GetSubaccount(f)
    PROVE  /\ form[f].step = "get" /\ form[f].code \in Codes /\ UNCHANGED <<opened, payout, unsure>>
           /\ IsAnswered(f, "cache", form[f].code, opened[form[f].code].bank, opened[form[f].code].number, FALSE)
<1>1. form[f].step = "get" /\ form[f].code \in Codes
  BY DEF GetSubaccount, PayoutTypes, CodesRead
<1> DEFINE b == opened[form[f].code].bank
           n == opened[form[f].code].number
<1>2. b \in Banks \cup {Unsaid} /\ n \in Numbers \cup {Unsaid}
  BY <1>1 DEF PayoutTypes, AccountRows
<1>3. Answered(f, "cache", form[f].code, b, n, FALSE)
  BY DEF GetSubaccount
<1>4. "cache" \in Steps /\ form[f].code \in Codes \cup {NoCode} /\ FALSE \in BOOLEAN
  BY <1>1 DEF Steps
<1> HIDE DEF b, n
<1>5. IsAnswered(f, "cache", form[f].code, b, n, FALSE)
  BY <1>2, <1>3, <1>4, AnsweredIs
<1> QED
  BY <1>1, <1>5 DEF b, n, GetSubaccount

LEMMA RefusedIs ==
    ASSUME PayoutTypes, NEW f \in Forms, PaystackRefuses(f)
    PROVE  /\ Occupied(f) /\ form[f].step # "save" /\ UNCHANGED <<opened, payout, unsure>>
           /\ IsAnswered(f, "refused", NoCode, Unsaid, Unsaid, FALSE)
BY AnsweredIs, FormsMade DEF PaystackRefuses, NotAnswered, Steps

\* An account that is verified.
LEMMA VerifyIs ==
    ASSUME PayoutTypes, NEW c \in Codes, Verify(c)
    PROVE  /\ UNCHANGED <<payout, form, unsure>> /\ opened' \in [Codes -> AccountRows]
           /\ \A d \in Codes : /\ opened'[d].number = opened[d].number /\ opened'[d].bank = opened[d].bank
                               /\ opened[d].active => opened'[d].active
BY DEF Verify, PayoutTypes, AccountRows

\* The steps that end a request.
Finishes(f) == MarkFailed(f) \/ SaveSubaccount(f) \/ CacheVisibleDetails(f) \/ GiveUp(f)

LEMMA FinishIs ==
    ASSUME PayoutTypes, NEW f \in Forms, Finishes(f)
    PROVE  /\ Occupied(f) /\ opened' = opened /\ unsure' \in BOOLEAN
           /\ form'[f] = Idle /\ form' \in [Forms -> FormRows] /\ \A g \in Forms \ {f} : form'[g] = form[g]
           /\ payout' \in PayoutRows
<1>t. form[f] \in FormRows /\ form \in [Forms -> FormRows] /\ payout \in PayoutRows /\ unsure \in BOOLEAN
  BY DEF PayoutTypes
<1>1. Occupied(f)
  BY FormsMade DEF Finishes, MarkFailed, SaveSubaccount, CacheVisibleDetails, GiveUp
<1>2. form' = [form EXCEPT ![f] = Idle] /\ opened' = opened
  BY DEF Finishes, MarkFailed, SaveSubaccount, CacheVisibleDetails, GiveUp, Ends
<1>3. unsure' \in BOOLEAN
  BY <1>t, Zenon DEF Finishes, MarkFailed, SaveSubaccount, CacheVisibleDetails, GiveUp
<1>4. payout' \in PayoutRows
  <2>1. CASE MarkFailed(f)
    BY <1>t, <2>1 DEF MarkFailed, PayoutRows
  <2>2. CASE SaveSubaccount(f)
    BY <1>t, <2>2 DEF SaveSubaccount, Saved, TenantRow, PayoutRows, FormRows
  <2>3. CASE CacheVisibleDetails(f)
    BY <1>t, <2>3 DEF CacheVisibleDetails, PayoutRows, FormRows
  <2>4. CASE GiveUp(f)
    BY <1>t, <2>4 DEF GiveUp
  <2> QED
    BY <2>1, <2>2, <2>3, <2>4 DEF Finishes
<1> QED
  BY <1>t, <1>1, <1>2, <1>3, <1>4, FormsMade

LEMMA PayoutInitTypes == PayoutInit => PayoutTypes
<1> SUFFICES ASSUME PayoutInit PROVE PayoutTypes
  OBVIOUS
<1>1. /\ \A n \in Numbers, b \in Banks : Account(n, b, TRUE) \in AccountRows
      /\ TenantRow(1, "ACTIVE", Unsaid, Unsaid) \in PayoutRows
  BY FormsMade DEF Account, AccountRows, TenantRow, PayoutRows
<1>2. opened \in [Codes -> AccountRows] /\ payout \in PayoutRows
  <2>1. CASE opened = [c \in Codes |-> Unopened] /\ payout = NoRow
    BY <2>1, FormsMade, Zenon
  <2>2. ASSUME NEW n \in Numbers, NEW b \in Banks,
               opened = [c \in Codes |-> IF c = 1 THEN Account(n, b, TRUE) ELSE Unopened],
               payout = TenantRow(1, "ACTIVE", Unsaid, Unsaid)
        PROVE  opened \in [Codes -> AccountRows] /\ payout \in PayoutRows
    <3>1. \A c \in Codes : (IF c = 1 THEN Account(n, b, TRUE) ELSE Unopened) \in AccountRows
      BY <1>1, FormsMade, Zenon
    <3> QED
      BY <1>1, <2>2, <3>1, Zenon
  <2> QED
    BY <2>1, <2>2, Zenon DEF PayoutInit
<1>3. form \in [Forms -> FormRows] /\ CodesRead /\ unsure \in BOOLEAN
  <2>1. form = [f \in Forms |-> Idle] /\ unsure = FALSE
    BY DEF PayoutInit
  <2> QED
    BY <2>1, FormsMade DEF CodesRead
<1> QED
  BY <1>2, <1>3 DEF PayoutTypes

LEMMA PayoutNextTypes == PayoutTypes /\ [PayoutNext]_payoutVars => PayoutTypes'
<1> SUFFICES ASSUME PayoutTypes, [PayoutNext]_payoutVars PROVE PayoutTypes'
  OBVIOUS
<1>t. /\ opened \in [Codes -> AccountRows] /\ payout \in PayoutRows
      /\ unsure \in BOOLEAN /\ form \in [Forms -> FormRows] /\ CodesRead
      /\ {"save", "refused", "cache"} \subseteq Steps
  BY DEF PayoutTypes, Steps
<1>1. CASE UNCHANGED payoutVars
  BY <1>1 DEF payoutVars, PayoutTypes, CodesRead
<1>2. ASSUME NEW c \in Codes, Verify(c) PROVE PayoutTypes'
  BY <1>2, <1>t, VerifyIs DEF PayoutTypes, CodesRead
<1>3. ASSUME NEW f \in Forms, Starts(f) PROVE PayoutTypes'
  <2>1. PICK new \in FormRows :
              /\ Begins(f, new) /\ new.step \in {"create", "update", "get"}
              /\ new.step # "create" => new.code = payout.code /\ new.code \in Codes
              /\ new.step = "update" => new.last4 = payout.last4
              /\ new.step # "get" /\ new.whole => new.number # Unsaid
              /\ new.step = "create" => new.whole
    BY <1>3, StartsIs
  <2>2. UNCHANGED <<opened, payout, unsure>> /\ form' \in [Forms -> FormRows]
    BY <2>1, BeginsIs
  <2>3. CodesRead'
    <3> SUFFICES ASSUME NEW g \in Forms
                 PROVE /\ form'[g].step \in {"update", "get", "save", "cache"} => form'[g].code \in Codes
                       /\ form'[g].step = "idle" => form'[g] = Idle
                       /\ form'[g].step \in {"create", "update"} /\ form'[g].whole => form'[g].number # Unsaid
                       /\ form'[g].step = "create" => form'[g].whole
      BY DEF CodesRead
    <3>1. CASE g = f
      BY <2>1, <3>1, BeginsIs
    <3>2. CASE g # f
      BY <1>t, <2>1, <3>2, BeginsIs, FormsMade DEF CodesRead
    <3> QED
      BY <3>1, <3>2
  <2> QED
    BY <1>t, <2>2, <2>3 DEF PayoutTypes
<1>4. ASSUME NEW f \in Forms, PaystackDoes(f) PROVE PayoutTypes'
  <2>1. PICK c \in Codes, acct \in AccountRows, heard \in BOOLEAN :
              /\ form[f].step \in {"create", "update"} /\ (form[f].step = "update" => c = form[f].code)
              /\ opened' = [opened EXCEPT ![c] = acct] /\ payout' = payout
              /\ acct.number = IF form[f].number = Unsaid /\ form[f].step = "update"
                              THEN opened[c].number ELSE form[f].number
              /\ unsure' = (unsure \/ ~heard)
              /\ heard => IsAnswered(f, "save", c, acct.bank, Last4(f, acct.number), acct.active)
              /\ ~heard => IsAnswered(f, "refused", NoCode, Unsaid, Unsaid, FALSE)
    BY <1>4, PaystackIs, Zenon
  <2>2. /\ form' \in [Forms -> FormRows] /\ \A g \in Forms \ {f} : form'[g] = form[g]
        /\ form'[f].step = "refused" \/ (form'[f].step = "save" /\ form'[f].code \in Codes)
    BY <2>1 DEF IsAnswered
  <2>3. CodesRead'
    BY <1>t, <2>2 DEF CodesRead
  <2>4. unsure' \in BOOLEAN /\ opened' \in [Codes -> AccountRows]
    BY <1>t, <2>1
  <2> QED
    BY <1>t, <2>1, <2>2, <2>3, <2>4 DEF PayoutTypes
<1>5. ASSUME NEW f \in Forms, GetSubaccount(f) \/ PaystackRefuses(f) PROVE PayoutTypes'
  <2>1. UNCHANGED <<opened, payout, unsure>>
    BY <1>5 DEF GetSubaccount, PaystackRefuses
  <2>2. /\ form' \in [Forms -> FormRows] /\ \A g \in Forms \ {f} : form'[g] = form[g]
        /\ form'[f].step = "refused" \/ (form'[f].step = "cache" /\ form'[f].code \in Codes)
    BY <1>5, GetIs, RefusedIs DEF IsAnswered
  <2>3. CodesRead'
    BY <1>t, <2>2 DEF CodesRead
  <2> QED
    BY <1>t, <2>1, <2>2, <2>3 DEF PayoutTypes
<1>6. ASSUME NEW f \in Forms, Finishes(f) PROVE PayoutTypes'
  <2>1. CodesRead'
    BY <1>t, <1>6, FinishIs, FormsMade DEF CodesRead
  <2> QED
    BY <1>t, <1>6, <2>1, FinishIs DEF PayoutTypes
<1> QED
  BY <1>1, <1>2, <1>3, <1>4, <1>5, <1>6 DEF PayoutNext, Starts, Finishes

\* The workspace's row and Paystack's accounts are what the types say.
THEOREM PayoutTypeCorrect == PayoutSpec => []PayoutTypeOK
<1>1. PayoutTypes => PayoutTypeOK
  BY DEF PayoutTypes, PayoutTypeOK, AccountRows, PayoutRows, FormRows, Steps
<1> QED
  BY <1>1, PayoutInitTypes, PayoutNextTypes, PTL DEF PayoutSpec

-----------------------------------------------------------------------------
(* PayoutAccount: guests pay into the account shown.                       *)

\* While nothing else was there with it, a request is the only one.
AloneIs == \A f, g \in Forms : f # g /\ Occupied(f) /\ form[f].alone => ~Occupied(g)

\* Digits and a bank that may be shown for an account.
Agrees(code, last4, bank) ==
    last4 \in {Unsaid, opened[code].number} /\ bank \in {Unsaid, opened[code].bank}

NoAnswerDue == \A f \in Forms : form[f].step # "save"

RowAgrees ==
    ~unsure /\ NoAnswerDue /\ payout.code # NoCode =>
        /\ Agrees(payout.code, payout.last4, payout.bank)
        /\ payout.status = "ACTIVE" => opened[payout.code].active

\* What a request that is alone has read is still in the row, and what it was
\* answered is true: all of it if it gave the whole account, or if the row it
\* read was sure.
AnswersAgree ==
    \A f \in Forms :
        form[f].alone =>
            /\ form[f].step \in {"update", "get", "cache"} => form[f].code = payout.code
            /\ form[f].step = "update" => form[f].last4 = payout.last4
            /\ form[f].step = "cache" => Agrees(form[f].code, form[f].last4, form[f].bank)
            /\ form[f].step = "save" /\ (form[f].whole \/ ~unsure)
                  => Agrees(form[f].code, form[f].last4, form[f].bank)
            /\ form[f].step = "save" /\ form[f].active => opened[form[f].code].active

\* A request that is answered stays as alone as it was, and others are not alone.
LEMMA AnswersAlone ==
    ASSUME PayoutTypes, AloneIs, NEW f \in Forms, Occupied(f),
           form' \in [Forms -> FormRows], \A g \in Forms \ {f} : form'[g] = form[g],
           form'[f] = Idle \/ form'[f].alone = form[f].alone
    PROVE  /\ AloneIs'
           /\ \A g \in Forms \ {f} : form[g].alone => form'[g] = Idle
           /\ form[f].alone => \A g \in Forms \ {f} : form[g] = Idle
BY DEF AloneIs, Occupied

LEMMA AloneKept == PayoutTypes /\ AloneIs /\ [PayoutNext]_payoutVars => AloneIs'
<1> SUFFICES ASSUME PayoutTypes, AloneIs, [PayoutNext]_payoutVars PROVE AloneIs'
  OBVIOUS
<1>1. CASE UNCHANGED payoutVars
  BY <1>1 DEF payoutVars, AloneIs, Occupied
<1>2. ASSUME NEW c \in Codes, Verify(c) PROVE AloneIs'
  BY <1>2 DEF Verify, AloneIs, Occupied
<1>3. ASSUME NEW f \in Forms, Starts(f) PROVE AloneIs'
  <2>1. PICK new \in FormRows : Begins(f, new) /\ new.step # "idle"
    BY <1>3, StartsIs
  <2>2. /\ form'[f].alone => \A g \in Forms : ~Occupied(g)
        /\ \A g \in Forms \ {f} : \/ ~Occupied(g) /\ form'[g] = Idle
                                  \/ Occupied(g) /\ ~form'[g].alone
    BY <2>1, BeginsIs
  <2> QED
    BY <2>2 DEF AloneIs, Occupied
<1>4. ASSUME NEW f \in Forms, PaystackDoes(f) PROVE AloneIs'
  BY <1>4, PaystackIs, AnswersAlone, FormsMade DEF IsAnswered
<1>5. ASSUME NEW f \in Forms, GetSubaccount(f) \/ PaystackRefuses(f) PROVE AloneIs'
  BY <1>5, GetIs, RefusedIs, AnswersAlone, FormsMade DEF IsAnswered
<1>6. ASSUME NEW f \in Forms, Finishes(f) PROVE AloneIs'
  BY <1>6, FinishIs, AnswersAlone
<1> QED
  BY <1>1, <1>2, <1>3, <1>4, <1>5, <1>6 DEF PayoutNext, Starts, Finishes

PayoutInv == PayoutTypes /\ AloneIs /\ RowAgrees /\ AnswersAgree

LEMMA PayoutInvKept == PayoutInv /\ [PayoutNext]_payoutVars => RowAgrees' /\ AnswersAgree'
<1> SUFFICES ASSUME PayoutInv, [PayoutNext]_payoutVars PROVE RowAgrees' /\ AnswersAgree'
  OBVIOUS
<1>t. /\ PayoutTypes /\ AloneIs
      /\ opened \in [Codes -> AccountRows] /\ payout \in PayoutRows
      /\ unsure \in BOOLEAN /\ form \in [Forms -> FormRows] /\ CodesRead
  BY DEF PayoutInv, PayoutTypes
<1>i. RowAgrees /\ AnswersAgree
  BY DEF PayoutInv
<1>1. CASE UNCHANGED payoutVars
  BY <1>1, <1>i DEF payoutVars, RowAgrees, NoAnswerDue, AnswersAgree, Agrees
<1>2. ASSUME NEW c \in Codes, Verify(c) PROVE RowAgrees' /\ AnswersAgree'
  <2>1. /\ UNCHANGED <<payout, form, unsure>>
        /\ \A d \in Codes : /\ opened'[d].number = opened[d].number /\ opened'[d].bank = opened[d].bank
                            /\ opened[d].active => opened'[d].active
    BY <1>2, <1>t, VerifyIs
  <2>2. payout.code # NoCode => payout.code \in Codes
    BY <1>t DEF PayoutRows
  <2>3. RowAgrees'
    BY <1>i, <2>1, <2>2 DEF RowAgrees, NoAnswerDue, Agrees
  <2>4. \A f \in Forms : form[f].step \in {"cache", "save"} => form[f].code \in Codes
    BY <1>t DEF CodesRead
  <2>5. AnswersAgree'
    BY <1>i, <2>1, <2>4 DEF AnswersAgree, Agrees
  <2> QED
    BY <2>3, <2>5
<1>3. ASSUME NEW f \in Forms, Starts(f) PROVE RowAgrees' /\ AnswersAgree'
  <2>1. PICK new \in FormRows :
              /\ Begins(f, new) /\ new.step \in {"create", "update", "get"}
              /\ new.step # "create" => new.code = payout.code /\ new.code \in Codes
              /\ new.step = "update" => new.last4 = payout.last4
              /\ new.step # "get" /\ new.whole => new.number # Unsaid
              /\ new.step = "create" => new.whole
    BY <1>3, <1>t, StartsIs
  <2>2. /\ UNCHANGED <<opened, payout, unsure>> /\ ~Occupied(f)
        /\ form'[f].step = new.step /\ form'[f].code = new.code /\ form'[f].last4 = new.last4
        /\ \A g \in Forms \ {f} : \/ ~Occupied(g) /\ form'[g] = Idle
                                  \/ Occupied(g) /\ ~form'[g].alone /\ form'[g].step = form[g].step
    BY <2>1, <1>t, BeginsIs
  <2>3. NoAnswerDue' => NoAnswerDue
    BY <2>1, <2>2, <1>t, FormsMade DEF NoAnswerDue
  <2>4. RowAgrees'
    BY <1>i, <2>2, <2>3 DEF RowAgrees, Agrees
  <2>5. AnswersAgree'
    BY <2>1, <2>2, FormsMade DEF AnswersAgree
  <2> QED
    BY <2>4, <2>5
<1>4. ASSUME NEW f \in Forms, PaystackDoes(f) PROVE RowAgrees' /\ AnswersAgree'
  <2>1. PICK c \in Codes, acct \in AccountRows, heard \in BOOLEAN :
              /\ form[f].step \in {"create", "update"} /\ (form[f].step = "update" => c = form[f].code)
              /\ opened' = [opened EXCEPT ![c] = acct] /\ payout' = payout
              /\ acct.number = IF form[f].number = Unsaid /\ form[f].step = "update"
                              THEN opened[c].number ELSE form[f].number
              /\ unsure' = (unsure \/ ~heard)
              /\ heard => IsAnswered(f, "save", c, acct.bank, Last4(f, acct.number), acct.active)
              /\ ~heard => IsAnswered(f, "refused", NoCode, Unsaid, Unsaid, FALSE)
    BY <1>4, <1>t, PaystackIs, Zenon
  <2>2. Occupied(f) /\ form[f].step # "save" /\ opened'[c] = acct
    BY <2>1, <1>t, FormsMade
  <2>3. RowAgrees'
    BY <2>1 DEF RowAgrees, NoAnswerDue, IsAnswered
  <2>4. \A g \in Forms \ {f} : form'[g].alone => form'[g] = Idle
    BY <2>1, <2>2, <1>t DEF IsAnswered, AloneIs, Occupied
  <2>5. ASSUME heard, form[f].alone, form[f].whole \/ ~unsure
        PROVE  Last4(f, acct.number) \in {Unsaid, acct.number}
    <3>1. CASE form[f].number # Unsaid
      BY <3>1, <2>1 DEF Last4
    <3>2. CASE form[f].number = Unsaid
      <4>1. ~form[f].whole /\ form[f].step = "update" /\ ~unsure
        BY <3>2, <2>1, <2>5, <1>t DEF CodesRead
      <4>2. form[f].code = payout.code /\ form[f].last4 = payout.last4 /\ c \in Codes /\ payout.code = c
        BY <4>1, <2>1, <2>5, <1>i DEF AnswersAgree
      <4>3. NoAnswerDue
        BY <2>2, <2>5, <1>t, FormsMade DEF NoAnswerDue, AloneIs
      <4>4. form[f].last4 \in {Unsaid, opened[c].number}
        BY <4>1, <4>2, <4>3, <1>i, FormsMade DEF RowAgrees, Agrees
      <4> QED
        BY <4>1, <4>4, <3>2, <2>1 DEF Last4
    <3> QED
      BY <3>1, <3>2
  <2>6. AnswersAgree'
    <3> SUFFICES ASSUME NEW g \in Forms, form'[g].alone
        PROVE  /\ form'[g].step \in {"update", "get", "cache"} => form'[g].code = payout'.code
               /\ form'[g].step = "update" => form'[g].last4 = payout'.last4
               /\ form'[g].step = "cache" => Agrees(form[g].code, form[g].last4, form[g].bank)'
               /\ form'[g].step = "save" /\ (form'[g].whole \/ ~unsure')
                     => Agrees(form[g].code, form[g].last4, form[g].bank)'
               /\ form'[g].step = "save" /\ form'[g].active => opened'[form'[g].code].active
      BY DEF AnswersAgree
    <3>1. CASE g # f
      BY <2>4, <3>1, FormsMade
    <3>2. CASE g = f /\ ~heard
      BY <2>1, <3>2 DEF IsAnswered
    <3>3. CASE g = f /\ heard
      BY <2>1, <2>2, <2>5, <3>3 DEF IsAnswered, Agrees
    <3> QED
      BY <3>1, <3>2, <3>3
  <2> QED
    BY <2>3, <2>6
<1>5. ASSUME NEW f \in Forms, GetSubaccount(f) PROVE RowAgrees' /\ AnswersAgree'
  <2>1. /\ form[f].step = "get" /\ form[f].code \in Codes /\ UNCHANGED <<opened, payout, unsure>>
        /\ IsAnswered(f, "cache", form[f].code, opened[form[f].code].bank, opened[form[f].code].number, FALSE)
    BY <1>5, <1>t, GetIs
  <2>2. Occupied(f) /\ (NoAnswerDue' => NoAnswerDue)
    BY <2>1, <1>t, FormsMade DEF IsAnswered, NoAnswerDue
  <2>3. RowAgrees'
    BY <1>i, <2>1, <2>2 DEF RowAgrees, Agrees
  <2>4. \A g \in Forms \ {f} : form'[g].alone => form'[g] = Idle
    BY <2>1, <2>2, <1>t DEF IsAnswered, AloneIs, Occupied
  <2>5. form[f].alone => form[f].code = payout.code
    BY <2>1, <1>i DEF AnswersAgree
  <2>6. AnswersAgree'
    BY <2>1, <2>4, <2>5, FormsMade DEF AnswersAgree, IsAnswered, Agrees
  <2> QED
    BY <2>3, <2>6
<1>6. ASSUME NEW f \in Forms, PaystackRefuses(f) PROVE RowAgrees' /\ AnswersAgree'
  <2>1. /\ Occupied(f) /\ form[f].step # "save" /\ UNCHANGED <<opened, payout, unsure>>
        /\ IsAnswered(f, "refused", NoCode, Unsaid, Unsaid, FALSE)
    BY <1>6, <1>t, RefusedIs
  <2>2. NoAnswerDue' => NoAnswerDue
    BY <2>1 DEF IsAnswered, NoAnswerDue
  <2>3. RowAgrees'
    BY <1>i, <2>1, <2>2 DEF RowAgrees, Agrees
  <2>4. \A g \in Forms \ {f} : form'[g].alone => form'[g] = Idle
    BY <2>1, <1>t DEF IsAnswered, AloneIs, Occupied
  <2>5. AnswersAgree'
    BY <2>1, <2>4, FormsMade DEF AnswersAgree, IsAnswered
  <2> QED
    BY <2>3, <2>5
<1>7. ASSUME NEW f \in Forms, Finishes(f) PROVE RowAgrees' /\ AnswersAgree'
  <2>1. /\ Occupied(f) /\ opened' = opened /\ form'[f] = Idle
        /\ \A g \in Forms \ {f} : form'[g] = form[g]
    BY <1>7, <1>t, FinishIs
  <2>2. \A g \in Forms : form'[g].alone => form'[g] = Idle
    BY <2>1, <1>t DEF AloneIs, Occupied
  <2>3. AnswersAgree'
    BY <2>2, FormsMade DEF AnswersAgree
  <2>4. form[f].alone => \A g \in Forms \ {f} : form[g].step # "save"
    BY <2>1, <1>t, FormsMade DEF AloneIs
  <2>5. CASE MarkFailed(f) \/ GiveUp(f)
    <3>1. /\ payout'.code = payout.code /\ payout'.last4 = payout.last4 /\ payout'.bank = payout.bank
          /\ payout'.status \in {payout.status, "FAILED"}
          /\ ~unsure' => ~unsure /\ form[f].step # "save"
      BY <2>5, <1>t DEF MarkFailed, GiveUp, PayoutRows
    <3>2. NoAnswerDue' /\ ~unsure' => NoAnswerDue
      BY <2>1, <3>1 DEF NoAnswerDue
    <3> QED
      BY <1>i, <2>1, <2>3, <3>1, <3>2 DEF RowAgrees, Agrees
  <2>6. CASE SaveSubaccount(f)
    <3>1. /\ payout' = Saved(f) /\ form[f].step = "save"
          /\ ~unsure' => form[f].alone /\ (form[f].whole \/ ~unsure)
      BY <2>6 DEF SaveSubaccount
    <3>2. /\ payout'.code = form[f].code /\ payout'.last4 = form[f].last4 /\ payout'.bank = form[f].bank
          /\ payout'.status = "ACTIVE" => form[f].active
      BY <3>1 DEF Saved, TenantRow
    <3>3. ~unsure' => /\ Agrees(form[f].code, form[f].last4, form[f].bank)
                      /\ form[f].active => opened[form[f].code].active
      BY <3>1, <1>i DEF AnswersAgree
    <3> QED
      BY <2>1, <2>3, <3>2, <3>3 DEF RowAgrees, Agrees
  <2>7. CASE CacheVisibleDetails(f)
    <3>1. /\ form[f].step = "cache" /\ (~unsure' => ~unsure /\ form[f].alone)
          /\ payout'.code = payout.code /\ payout'.status = payout.status
          /\ payout'.last4 = form[f].last4 /\ payout'.bank = form[f].bank
      BY <2>7, <1>t DEF CacheVisibleDetails, PayoutRows
    <3>2. ~unsure' => /\ form[f].code = payout.code
                      /\ Agrees(form[f].code, form[f].last4, form[f].bank)
      BY <3>1, <1>i DEF AnswersAgree
    <3>3. ~unsure' => NoAnswerDue
      BY <2>4, <3>1 DEF NoAnswerDue
    <3> QED
      BY <1>i, <2>1, <2>3, <3>1, <3>2, <3>3 DEF RowAgrees, Agrees
  <2> QED
    BY <1>7, <2>5, <2>6, <2>7 DEF Finishes
<1> QED
  BY <1>1, <1>2, <1>3, <1>4, <1>5, <1>6, <1>7 DEF PayoutNext, Starts, Finishes

\* Tickets are paid into the account the organiser is shown, unless requests
\* crossed or an answer was lost (payment-account.service.ts).
THEOREM PaidIntoTheAccountShown == PayoutSpec => []PaidIntoShown
<1>1. PayoutInit => PayoutInv
  <2> SUFFICES ASSUME PayoutInit PROVE AloneIs /\ RowAgrees /\ AnswersAgree
    BY PayoutInitTypes DEF PayoutInv
  <2>1. \A f \in Forms : form[f] = Idle
    BY DEF PayoutInit
  <2>2. AloneIs /\ AnswersAgree
    BY <2>1, FormsMade DEF AloneIs, AnswersAgree, Occupied
  <2>3. CASE payout = NoRow
    BY <2>3, <2>2 DEF RowAgrees, NoRow, TenantRow
  <2>4. ASSUME NEW n \in Numbers, NEW b \in Banks,
               opened = [c \in Codes |-> IF c = 1 THEN Account(n, b, TRUE) ELSE Unopened],
               payout = TenantRow(1, "ACTIVE", Unsaid, Unsaid)
        PROVE  RowAgrees
    <3>1. opened[1].active /\ payout.code = 1 /\ payout.last4 = Unsaid /\ payout.bank = Unsaid
      BY <2>4, FormsMade DEF Account, TenantRow
    <3> QED
      BY <3>1 DEF RowAgrees, Agrees
  <2> QED
    BY <2>2, <2>3, <2>4 DEF PayoutInit
<1>2. PayoutInv /\ [PayoutNext]_payoutVars => PayoutInv'
  BY PayoutNextTypes, AloneKept, PayoutInvKept DEF PayoutInv
<1>3. PayoutInv => PaidIntoShown
  BY DEF PayoutInv, PaidIntoShown, ReadyForPurchase, RowAgrees, NoAnswerDue, Agrees
<1> QED
  BY <1>1, <1>2, <1>3, PTL DEF PayoutSpec

-----------------------------------------------------------------------------
(* RateLimits: the chains.                                                 *)

\* A limiter counts all requests, or those that fail, or those that succeed, and
\* allows a number of them.
Counting(limiter) == limiter.counts \in {"all", "failed", "succeeded"} /\ limiter.most \in Nat

\* A chain is up to three limiters.
IsChain(q) ==
    /\ Len(q) \in 1..3 /\ DOMAIN q = 1..Len(q)
    /\ \A i \in DOMAIN q : Counting(q[i])

LEMMA LimiterCounts ==
    \A n \in Nat :
           /\ Counting(PerNetwork(n)) /\ Counting(PerHolder(n)) /\ Counting(PerToken(n)) /\ Counting(PerLink(n))
           /\ Counting(FailuresPerNetwork(n)) /\ Counting(FailuresPerToken(n))
           /\ Counting(SuccessesPerLink(n))
BY LimitsAssumption
   DEF Limiter, PerNetwork, PerHolder, PerToken, PerLink, FailuresPerNetwork, FailuresPerToken,
       SuccessesPerLink, Counting

LEMMA EachIsChain == \A C \in Chains : \A r \in DOMAIN C : IsChain(C[r])
<1>1. \A r \in DOMAIN CodeChain : IsChain(CodeChain[r])
  BY LimiterCounts DEF CodeChain, IsChain
<1>2. \A r \in DOMAIN SessionChain : IsChain(SessionChain[r])
  BY LimiterCounts DEF SessionChain, IsChain
<1>3. \A r \in DOMAIN DeskChain : IsChain(DeskChain[r])
  BY LimiterCounts DEF DeskChain, IsChain
<1>4. \A r \in DOMAIN AlbumChain : IsChain(AlbumChain[r])
  BY LimiterCounts DEF AlbumChain, IsChain
<1>5. \A r \in DOMAIN ReplyChain : IsChain(ReplyChain[r])
  BY LimiterCounts DEF ReplyChain, IsChain
<1>6. \A r \in DOMAIN PageChain : IsChain(PageChain[r])
  BY LimiterCounts DEF PageChain, IsChain
<1>7. \A r \in DOMAIN PublicChain : IsChain(PublicChain[r])
  BY LimiterCounts DEF PublicChain, IsChain
<1>8. \A r \in DOMAIN TeamChain : IsChain(TeamChain[r])
  BY LimiterCounts DEF TeamChain, IsChain
<1>9. \A r \in DOMAIN DownloadChain : IsChain(DownloadChain[r])
  BY LimiterCounts DEF DownloadChain, IsChain
<1> QED
  BY <1>1, <1>2, <1>3, <1>4, <1>5, <1>6, <1>7, <1>8, <1>9 DEF Chains

\* So is the chain of the route.
LEMMA RouteHasChain == route \in Routes => IsChain(Chain)
<1> SUFFICES ASSUME route \in Routes PROVE IsChain(Chain)
  OBVIOUS
<1> DEFINE C == CHOOSE D \in Chains : route \in DOMAIN D
<1>1. \E D \in Chains : route \in DOMAIN D
  BY Zenon DEF Routes
<1>2. C \in Chains /\ route \in DOMAIN C
  BY <1>1, Zenon
<1>3. Chain = C[route]
  BY Zenon DEF Chain
<1> HIDE DEF C
<1> QED
  BY <1>2, <1>3, EachIsChain, Zenon

\* The first of the limiters that are full, or the last of the chain.
LEMMA LastCounted ==
    ASSUME IsChain(Chain), NEW full \in SUBSET Places
    PROVE  LET last == IF full = {} THEN Len(Chain) ELSE CHOOSE i \in full : \A j \in full : i <= j
           IN  last \in 1..3 /\ \A i \in full : last <= i
<1>1. full \in SUBSET (1..3) /\ Len(Chain) \in 1..3
  BY DEF IsChain, Places
<1>2. ASSUME full # {} PROVE \E i \in full : \A j \in full : i <= j
  <2>1. \A j \in full : j = 1 \/ j = 2 \/ j = 3
    BY <1>1
  <2>2. CASE 1 \in full
    BY <2>1, <2>2
  <2>3. CASE 1 \notin full /\ 2 \in full
    BY <2>1, <2>3
  <2>4. CASE 1 \notin full /\ 2 \notin full
    BY <1>2, <2>1, <2>4
  <2> QED
    BY <2>2, <2>3, <2>4
<1>3. full # {} => LET m == CHOOSE i \in full : \A j \in full : i <= j IN m \in full /\ \A j \in full : m <= j
  BY <1>2, Zenon
<1> QED
  BY <1>1, <1>3

-----------------------------------------------------------------------------
(* Types.                                                                  *)

Counts == [1..3 -> [Keys -> Nat]]
Asked == [network : Networks \cup {Nobody}, holder : Holders \cup {Nobody}, refused : BOOLEAN, passed : 0..3,
          old : SUBSET (1..3)]

LEMMA NoCallIs == NoCall \in Asked /\ NoCall.passed = 0 /\ NoCall.old = {}
<1>1. FALSE \in BOOLEAN /\ 0 \in 0..3 /\ {} \in SUBSET (1..3)
  OBVIOUS
<1>2. NoCall \in Asked
  BY <1>1, Zenon DEF NoCall, Call, Asked
<1> QED
  BY <1>2 DEF NoCall, Call

LEMMA InitLimitsTypes == LimitsInit => LimitsTypeOK
<1> SUFFICES ASSUME LimitsInit PROVE LimitsTypeOK
  OBVIOUS
<1>2. call \in [Calls -> Asked]
  BY NoCallIs, Zenon DEF LimitsInit
<1>3. hits \in Counts /\ spent \in Counts /\ carried \in Counts /\ route \in Routes
  BY DEF LimitsInit, Counts
<1> QED
  BY <1>2, <1>3, Zenon DEF LimitsTypeOK, Asked, Counts

\* A request that arrives has been counted by one limiter at least, and let by
\* where there was room.
LEMMA ArriveTypes ==
    ASSUME LimitsTypeOK, NEW c \in Calls, NEW network \in Networks, NEW holder \in Holders \cup {Nobody},
           Arrive(c, network, holder)
    PROVE  /\ LimitsTypeOK' /\ call[c] = NoCall /\ UNCHANGED <<route, spent, carried>>
           /\ \E last \in 1..3, refused \in BOOLEAN :
                 /\ call' = [call EXCEPT ![c] = Call(network, holder, refused, last)]
                 /\ hits' = [i \in 1..3 |-> [k \in Keys |->
                       IF i <= last /\ k = Key(i, network, holder) THEN hits[i][k] + 1 ELSE hits[i][k]]]
                 /\ \A i \in Places : i <= last /\ ~(refused /\ i = last) =>
                       ~(hits[i][Key(i, network, holder)] >= Chain[i].most)
<1> DEFINE full == {i \in Places : hits[i][Key(i, network, holder)] >= Chain[i].most}
           last == IF full = {} THEN Len(Chain) ELSE CHOOSE i \in full : \A j \in full : i <= j
           refused == full # {}
<1>0. full \in SUBSET Places /\ IsChain(Chain)
  BY RouteHasChain DEF LimitsTypeOK
<1>1. last \in 1..3 /\ \A i \in full : last <= i
  <2> HIDE DEF full
  <2> QED
    BY <1>0, LastCounted, Zenon
<1>2. refused \in BOOLEAN
  BY Zenon
<1>3. /\ call[c] = NoCall /\ route' = route /\ spent' = spent /\ carried' = carried
      /\ call' = [call EXCEPT ![c] = Call(network, holder, refused, last)]
      /\ hits' = [i \in 1..3 |-> [k \in Keys |->
            IF i <= last /\ k = Key(i, network, holder) THEN hits[i][k] + 1 ELSE hits[i][k]]]
  BY Zenon DEF Arrive
<1>7. ASSUME NEW i \in Places, i <= last, ~(refused /\ i = last), i \in full PROVE FALSE
  <2>1. refused /\ last <= i
    BY <1>1, <1>7
  <2>2. i \in 1..3
    BY <1>0 DEF IsChain, Places
  <2> HIDE DEF last, refused, full
  <2> QED
    BY <1>1, <1>7, <2>1, <2>2
<1>8. \A i \in Places : i <= last /\ ~(refused /\ i = last) => ~(hits[i][Key(i, network, holder)] >= Chain[i].most)
  <2>1. \A i \in Places : ~(i \in full) => ~(hits[i][Key(i, network, holder)] >= Chain[i].most)
    BY Zenon
  <2> HIDE DEF last, refused, full
  <2> QED
    BY <1>7, <2>1
<1> HIDE DEF full, last, refused
<1>4. hits' \in [1..3 -> [Keys -> Nat]]
  BY <1>3 DEF LimitsTypeOK
<1>5. call' \in [Calls -> Asked]
  <2>1. Call(network, holder, refused, last) \in Asked
    <3>1. last \in 0..3 /\ {} \in SUBSET (1..3)
      BY <1>1
    <3> QED
      BY <1>2, <3>1, Zenon DEF Call, Asked
  <2> QED
    BY <1>3, <2>1, Zenon DEF LimitsTypeOK, Asked
<1>6. LimitsTypeOK'
  BY <1>3, <1>4, <1>5, Zenon DEF LimitsTypeOK, Asked
<1> QED
  BY <1>1, <1>2, <1>3, <1>6, <1>8, Zenon

\* A request that ends leaves its counts with the limiters that do not forget it.
LEMMA FinishTypes ==
    ASSUME LimitsTypeOK, NEW c \in Calls, NEW ok \in BOOLEAN, Finish(c, ok)
    PROVE  /\ LimitsTypeOK' /\ call[c] # NoCall /\ route' = route
           /\ call' = [call EXCEPT ![c] = NoCall]
           /\ \A i \in Places, k \in Keys :
                 /\ ~(i <= call[c].passed /\ k = KeyOf(c, i)) =>
                       hits'[i][k] = hits[i][k] /\ spent'[i][k] = spent[i][k] /\ carried'[i][k] = carried[i][k]
                 /\ i <= call[c].passed /\ k = KeyOf(c, i) =>
                       \/ /\ hits'[i][k] = hits[i][k] /\ carried'[i][k] = carried[i][k]
                          /\ spent'[i][k] = IF i \notin call[c].old /\ ~(call[c].refused /\ i = call[c].passed)
                                            THEN spent[i][k] + 1 ELSE spent[i][k]
                       \/ /\ hits'[i][k] = hits[i][k] - 1 /\ spent'[i][k] = spent[i][k]
                          /\ carried'[i][k] = IF i \in call[c].old THEN carried[i][k] + 1 ELSE carried[i][k]
                       \/ /\ hits[i][k] = 0 /\ hits'[i][k] = 0 /\ spent'[i][k] = spent[i][k]
                          /\ carried'[i][k] = carried[i][k]
<1>2. call' = [call EXCEPT ![c] = NoCall] /\ call[c] # NoCall /\ route' = route
  BY DEF Finish
<1>3. call' \in [Calls -> Asked]
  BY NoCallIs, <1>2, Zenon DEF LimitsTypeOK, Asked
<1>4. hits' \in [1..3 -> [Keys -> Nat]] /\ spent' \in [1..3 -> [Keys -> Nat]] /\ carried' \in [1..3 -> [Keys -> Nat]]
  BY DEF Finish, LimitsTypeOK
<1>5. LimitsTypeOK'
  BY <1>2, <1>3, <1>4, Zenon DEF LimitsTypeOK, Asked
<1>6. ASSUME NEW i \in Places, NEW k \in Keys
      PROVE  /\ ~(i <= call[c].passed /\ k = KeyOf(c, i)) =>
                    hits'[i][k] = hits[i][k] /\ spent'[i][k] = spent[i][k] /\ carried'[i][k] = carried[i][k]
             /\ i <= call[c].passed /\ k = KeyOf(c, i) =>
                    \/ /\ hits'[i][k] = hits[i][k] /\ carried'[i][k] = carried[i][k]
                       /\ spent'[i][k] = IF i \notin call[c].old /\ ~(call[c].refused /\ i = call[c].passed)
                                         THEN spent[i][k] + 1 ELSE spent[i][k]
                    \/ /\ hits'[i][k] = hits[i][k] - 1 /\ spent'[i][k] = spent[i][k]
                       /\ carried'[i][k] = IF i \in call[c].old THEN carried[i][k] + 1 ELSE carried[i][k]
                    \/ /\ hits[i][k] = 0 /\ hits'[i][k] = 0 /\ spent'[i][k] = spent[i][k]
                       /\ carried'[i][k] = carried[i][k]
  <2>1. i \in 1..3 /\ Counting(Chain[i])
    BY RouteHasChain DEF LimitsTypeOK, IsChain, Places
  <2>2. \/ Forgets(i, ok)
        \/ Chain[i].counts \in {"all", IF ok THEN "succeeded" ELSE "failed"}
    BY <2>1 DEF Counting, Forgets
  <2>3. hits[i][k] \in Nat
    BY <2>1 DEF LimitsTypeOK
  <2>4. ~(Forgets(i, ok) /\ Chain[i].counts \in {"all", IF ok THEN "succeeded" ELSE "failed"})
    BY DEF Forgets
  <2> QED
    BY <2>1, <2>2, <2>3, <2>4 DEF Finish
<1> QED
  BY <1>2, <1>5, <1>6, Zenon

\* Whoever is on the way when a window ends goes on, now in an earlier one.
LEMMA WindowTypes ==
    ASSUME LimitsTypeOK, NEW i \in Places, NEW k \in Keys, WindowOver(i, k)
    PROVE  /\ LimitsTypeOK' /\ route' = route
           /\ hits' = [hits EXCEPT ![i][k] = 0] /\ spent' = [spent EXCEPT ![i][k] = 0]
           /\ carried' = [carried EXCEPT ![i][k] = 0]
           /\ \A c \in Calls :
                 /\ call'[c] = NoCall <=> call[c] = NoCall
                 /\ call'[c].network = call[c].network /\ call'[c].holder = call[c].holder
                 /\ call'[c].refused = call[c].refused /\ call'[c].passed = call[c].passed
                 /\ call'[c].old = IF call[c] # NoCall /\ i <= call[c].passed /\ KeyOf(c, i) = k
                                   THEN call[c].old \cup {i} ELSE call[c].old
<1>1. /\ route' = route /\ hits' = [hits EXCEPT ![i][k] = 0] /\ spent' = [spent EXCEPT ![i][k] = 0]
      /\ carried' = [carried EXCEPT ![i][k] = 0]
      /\ call' = [c \in Calls |-> IF call[c] # NoCall /\ i <= call[c].passed /\ KeyOf(c, i) = k
                               THEN [call[c] EXCEPT !.old = @ \cup {i}] ELSE call[c]]
  BY DEF WindowOver
<1>2. i \in 1..3
  BY RouteHasChain DEF LimitsTypeOK, IsChain, Places
<1>3. ASSUME NEW c \in Calls
      PROVE  /\ call'[c] \in Asked /\ (call'[c] = NoCall <=> call[c] = NoCall)
             /\ call'[c].network = call[c].network /\ call'[c].holder = call[c].holder
             /\ call'[c].refused = call[c].refused /\ call'[c].passed = call[c].passed
             /\ call'[c].old = IF call[c] # NoCall /\ i <= call[c].passed /\ KeyOf(c, i) = k
                               THEN call[c].old \cup {i} ELSE call[c].old
  <2>1. call[c] \in Asked
    BY DEF LimitsTypeOK, Asked
  <2> DEFINE n == [call[c] EXCEPT !.old = @ \cup {i}]
  <2>2. /\ n \in Asked /\ n.network = call[c].network /\ n.holder = call[c].holder
        /\ n.refused = call[c].refused /\ n.passed = call[c].passed /\ n.old = call[c].old \cup {i}
    BY <1>2, <2>1 DEF Asked
  <2>3. call'[c] = IF call[c] # NoCall /\ i <= call[c].passed /\ KeyOf(c, i) = k THEN n ELSE call[c]
    BY <1>1
  <2> HIDE DEF n
  <2>4. n # NoCall
    BY <2>2, NoCallIs
  <2>5. CASE call[c] # NoCall /\ i <= call[c].passed /\ KeyOf(c, i) = k
    BY <2>2, <2>3, <2>4, <2>5
  <2>6. CASE ~(call[c] # NoCall /\ i <= call[c].passed /\ KeyOf(c, i) = k)
    <3>1. call'[c] = call[c]
      BY <2>3, <2>6, Zenon
    <3> QED
      BY <2>1, <2>6, <3>1
  <2> QED
    BY <2>5, <2>6
<1>4. call' \in [Calls -> Asked]
  <2>1. call' = [c \in Calls |-> call'[c]]
    BY <1>1
  <2> QED
    BY <1>3, <2>1
<1>5. hits' \in [1..3 -> [Keys -> Nat]] /\ spent' \in [1..3 -> [Keys -> Nat]] /\ carried' \in [1..3 -> [Keys -> Nat]]
  BY <1>1 DEF LimitsTypeOK
<1>6. LimitsTypeOK'
  BY <1>1, <1>4, <1>5, Zenon DEF LimitsTypeOK, Asked
<1> QED
  BY <1>1, <1>3, <1>6

LEMMA RestartTypes ==
    ASSUME LimitsTypeOK, Restart
    PROVE  /\ LimitsTypeOK' /\ route' = route /\ call' = [c \in Calls |-> NoCall]
           /\ \A i \in 1..3, k \in Keys : hits'[i][k] = 0 /\ spent'[i][k] = 0 /\ carried'[i][k] = 0
<1>1. /\ route' = route /\ call' = [c \in Calls |-> NoCall]
      /\ \A i \in 1..3, k \in Keys : hits'[i][k] = 0 /\ spent'[i][k] = 0 /\ carried'[i][k] = 0
      /\ hits' \in Counts /\ spent' \in Counts /\ carried' \in Counts
  BY DEF Restart, Counts
<1>2. call' \in [Calls -> Asked]
  BY <1>1, NoCallIs
<1> QED
  BY <1>1, <1>2, Zenon DEF LimitsTypeOK, Asked, Counts

LEMMA NextLimitsTypes == LimitsTypeOK /\ [LimitsNext]_limitVars => LimitsTypeOK'
<1> SUFFICES ASSUME LimitsTypeOK, [LimitsNext]_limitVars PROVE LimitsTypeOK'
  OBVIOUS
<1>1. CASE UNCHANGED limitVars
  BY <1>1 DEF limitVars, LimitsTypeOK
<1> QED
  BY <1>1, ArriveTypes, FinishTypes, WindowTypes, RestartTypes DEF LimitsNext

\* Counts, and what each request carries, are what the types say: a request has
\* passed three limiters at most.
THEOREM LimitsTypeCorrect == LimitsSpec => []LimitsTypeOK
BY InitLimitsTypes, NextLimitsTypes, PTL DEF LimitsSpec

-----------------------------------------------------------------------------
(* A limiter lets by what it allows.                                       *)

\* Whoever is on the way, or ended so as to count, was counted in this window,
\* but for what was taken off it for those of an earlier one.
Within(i, k) ==
    /\ spent[i][k] + Cardinality(OnTheirWay(i, k)) <= hits[i][k] + carried[i][k]
    /\ spent[i][k] + Cardinality(LetBy(i, k)) <= Chain[i].most + carried[i][k]

LEMMA WayIsFinite ==
    \A i, k : /\ IsFiniteSet(OnTheirWay(i, k)) /\ Cardinality(OnTheirWay(i, k)) \in Nat
              /\ IsFiniteSet(LetBy(i, k)) /\ Cardinality(LetBy(i, k)) \in Nat
              /\ Cardinality(LetBy(i, k)) <= Cardinality(OnTheirWay(i, k))
<1> SUFFICES ASSUME NEW i, NEW k
             PROVE  /\ IsFiniteSet(OnTheirWay(i, k)) /\ Cardinality(OnTheirWay(i, k)) \in Nat
                    /\ IsFiniteSet(LetBy(i, k)) /\ Cardinality(LetBy(i, k)) \in Nat
                    /\ Cardinality(LetBy(i, k)) <= Cardinality(OnTheirWay(i, k))
  OBVIOUS
<1>1. OnTheirWay(i, k) \in SUBSET Calls /\ LetBy(i, k) \in SUBSET OnTheirWay(i, k)
  BY DEF OnTheirWay, LetBy
<1> QED
  BY <1>1, LimitsAssumption, FS_Subset, FS_CardinalityType

\* Letting by is the request's own: it was not this limiter that refused it.
LetsItBy(request, i) == ~(request.refused /\ request.passed = i)

LEMMA LetByIs == \A i, k : LetBy(i, k) = {d \in OnTheirWay(i, k) : LetsItBy(call[d], i)}
BY Zenon DEF LetBy, LetsItBy

LEMMA LetByNextIs == \A i, k : LetBy(i, k)' = {d \in OnTheirWay(i, k)' : LetsItBy(call'[d], i)}
BY Zenon DEF LetBy, LetsItBy

LEMMA NumbersOf ==
    ASSUME LimitsTypeOK, NEW i \in Places, NEW k \in Keys
    PROVE  /\ i \in 1..3 /\ hits[i][k] \in Nat /\ spent[i][k] \in Nat /\ carried[i][k] \in Nat
           /\ Chain[i].most \in Nat
BY RouteHasChain DEF LimitsTypeOK, IsChain, Places, Counting

LEMMA ArriveIsWithin ==
    ASSUME LimitsTypeOK, NEW c \in Calls, NEW network \in Networks, NEW holder \in Holders \cup {Nobody},
           Arrive(c, network, holder), NEW i \in Places, NEW k \in Keys, Within(i, k)
    PROVE  Within(i, k)'
<1>1. PICK last \in 1..3, refused \in BOOLEAN :
         /\ call' = [call EXCEPT ![c] = Call(network, holder, refused, last)]
         /\ hits' = [j \in 1..3 |-> [l \in Keys |->
               IF j <= last /\ l = Key(j, network, holder) THEN hits[j][l] + 1 ELSE hits[j][l]]]
         /\ \A j \in Places : j <= last /\ ~(refused /\ j = last) => ~(hits[j][Key(j, network, holder)] >= Chain[j].most)
  BY ArriveTypes
<1>2. call[c] = NoCall /\ spent' = spent /\ carried' = carried /\ route' = route
  BY ArriveTypes
<1>3. /\ i \in 1..3 /\ hits[i][k] \in Nat /\ spent[i][k] \in Nat /\ carried[i][k] \in Nat
      /\ Chain[i].most \in Nat
  BY NumbersOf
<1>4. /\ call'[c] = Call(network, holder, refused, last) /\ call'[c] # NoCall /\ call'[c].passed = last
      /\ call'[c].refused = refused /\ i \notin call'[c].old
  <2>1. call'[c] = Call(network, holder, refused, last)
    BY <1>1 DEF LimitsTypeOK
  <2>2. /\ Call(network, holder, refused, last).passed = last /\ Call(network, holder, refused, last).old = {}
        /\ Call(network, holder, refused, last).refused = refused
    BY DEF Call
  <2>3. NoCall.passed = 0 /\ last # 0
    BY NoCallIs
  <2> QED
    BY <2>1, <2>2, <2>3
<1>c. Chain' = Chain
  BY <1>2, Zenon DEF Chain
<1>5. KeyOf(c, i)' = Key(i, network, holder)
  <2>1. call'[c].network = network /\ call'[c].holder = holder
    BY <1>4 DEF Call
  <2> QED
    BY <1>c, <2>1, Zenon DEF KeyOf, Key
<1>6. \A d \in Calls \ {c} : call'[d] = call[d] /\ KeyOf(d, i)' = KeyOf(d, i)
  <2>1. \A d \in Calls \ {c} : call'[d] = call[d]
    BY <1>1 DEF LimitsTypeOK
  <2> QED
    BY <1>c, <2>1, Zenon DEF KeyOf, Key
<1>7. c \notin OnTheirWay(i, k) /\ c \notin LetBy(i, k)
  BY <1>2 DEF OnTheirWay, LetBy
<1>o. \A d \in OnTheirWay(i, k) : call'[d] = call[d]
  BY <1>6, <1>7 DEF OnTheirWay
<1>8. CASE i <= last /\ k = Key(i, network, holder)
  <2>1. OnTheirWay(i, k)' = OnTheirWay(i, k) \cup {c}
    BY <1>4, <1>5, <1>6, <1>8 DEF OnTheirWay
  <2>2. /\ Cardinality(OnTheirWay(i, k) \cup {c}) = Cardinality(OnTheirWay(i, k)) + 1
        /\ Cardinality(LetBy(i, k) \cup {c}) = Cardinality(LetBy(i, k)) + 1
    BY <1>7, WayIsFinite, FS_AddElement
  <2>3. hits'[i][k] = hits[i][k] + 1
    BY <1>1, <1>3, <1>8
  <2>4. spent'[i][k] + Cardinality(OnTheirWay(i, k)') <= hits'[i][k] + carried'[i][k]
    BY <1>2, <1>3, <2>1, <2>2, <2>3, WayIsFinite DEF Within
  <2>5. CASE refused /\ i = last
    <3>1. ~LetsItBy(call'[c], i)
      BY <1>4, <2>5 DEF LetsItBy
    <3>2. LetBy(i, k)' = LetBy(i, k)
      BY <1>o, <2>1, <3>1, LetByIs, LetByNextIs, Zenon
    <3> QED
      BY <1>2, <1>c, <2>4, <3>2 DEF Within
  <2>6. CASE ~(refused /\ i = last)
    <3>1. LetsItBy(call'[c], i)
      BY <1>4, <2>6 DEF LetsItBy
    <3>2. LetBy(i, k)' = LetBy(i, k) \cup {c}
      BY <1>o, <2>1, <3>1, LetByIs, LetByNextIs, Zenon
    <3>3. hits[i][k] < Chain[i].most
      BY <1>1, <1>3, <1>8, <2>6
    <3>4. spent'[i][k] + Cardinality(LetBy(i, k)') <= Chain[i].most + carried'[i][k]
      BY <1>2, <1>3, <2>2, <3>2, <3>3, WayIsFinite DEF Within
    <3> QED
      BY <1>c, <2>4, <3>4 DEF Within
  <2> QED
    BY <2>5, <2>6
<1>9. CASE ~(i <= last /\ k = Key(i, network, holder))
  <2>1. OnTheirWay(i, k)' = OnTheirWay(i, k)
    BY <1>4, <1>5, <1>6, <1>7, <1>9 DEF OnTheirWay
  <2>2. LetBy(i, k)' = LetBy(i, k)
    BY <1>o, <2>1, LetByIs, LetByNextIs, Zenon
  <2>3. hits'[i][k] = hits[i][k]
    BY <1>1, <1>3, <1>9
  <2> QED
    BY <1>2, <1>c, <2>1, <2>2, <2>3 DEF Within
<1> QED
  BY <1>8, <1>9

LEMMA FinishIsWithin ==
    ASSUME LimitsTypeOK, NEW c \in Calls, NEW ok \in BOOLEAN, Finish(c, ok),
           NEW i \in Places, NEW k \in Keys, Within(i, k)
    PROVE  Within(i, k)'
<1>1. call[c] # NoCall /\ call' = [call EXCEPT ![c] = NoCall] /\ route' = route
  BY FinishTypes
<1>2. /\ i \in 1..3 /\ hits[i][k] \in Nat /\ spent[i][k] \in Nat /\ carried[i][k] \in Nat
      /\ Chain[i].most \in Nat
  BY NumbersOf
<1>c. Chain' = Chain
  BY <1>1, Zenon DEF Chain
<1>3. call'[c] = NoCall /\ \A d \in Calls \ {c} : call'[d] = call[d] /\ KeyOf(d, i)' = KeyOf(d, i)
  <2>1. call'[c] = NoCall /\ \A d \in Calls \ {c} : call'[d] = call[d]
    BY <1>1 DEF LimitsTypeOK
  <2> QED
    BY <1>c, <2>1, Zenon DEF KeyOf, Key
<1>4. OnTheirWay(i, k)' = OnTheirWay(i, k) \ {c}
  BY <1>3 DEF OnTheirWay
<1>l. LetBy(i, k)' = LetBy(i, k) \ {c}
  <2>1. \A d \in OnTheirWay(i, k) \ {c} : call'[d] = call[d]
    BY <1>3 DEF OnTheirWay
  <2>2. LetBy(i, k)' = {d \in OnTheirWay(i, k) \ {c} : LetsItBy(call'[d], i)}
    BY <1>4, LetByNextIs, Zenon
  <2>3. @ = {d \in OnTheirWay(i, k) \ {c} : LetsItBy(call[d], i)}
    BY <2>1, Zenon
  <2>4. @ = {d \in OnTheirWay(i, k) : LetsItBy(call[d], i)} \ {c}
    BY Zenon
  <2> QED
    BY <2>2, <2>3, <2>4, LetByIs, Zenon
<1> DEFINE on == Cardinality(OnTheirWay(i, k))
           let == Cardinality(LetBy(i, k))
<1>n. /\ on \in Nat /\ let \in Nat
      /\ Cardinality(OnTheirWay(i, k)') \in Nat /\ Cardinality(LetBy(i, k)') \in Nat
      /\ Cardinality(OnTheirWay(i, k)') = (IF c \in OnTheirWay(i, k) THEN on - 1 ELSE on)
      /\ Cardinality(LetBy(i, k)') = (IF c \in LetBy(i, k) THEN let - 1 ELSE let)
  <2>1. IsFiniteSet(OnTheirWay(i, k)) /\ IsFiniteSet(LetBy(i, k))
    BY WayIsFinite
  <2>2. /\ Cardinality(OnTheirWay(i, k) \ {c}) = (IF c \in OnTheirWay(i, k) THEN on - 1 ELSE on)
        /\ Cardinality(LetBy(i, k) \ {c}) = (IF c \in LetBy(i, k) THEN let - 1 ELSE let)
    BY <2>1, FS_RemoveElement
  <2>3. IsFiniteSet(OnTheirWay(i, k) \ {c}) /\ IsFiniteSet(LetBy(i, k) \ {c})
    BY <2>1, FS_RemoveElement
  <2> QED
    BY <1>4, <1>l, <2>1, <2>2, <2>3, FS_CardinalityType
<1>w. spent[i][k] + on <= hits[i][k] + carried[i][k] /\ spent[i][k] + let <= Chain[i].most + carried[i][k]
  BY DEF Within
<1>5. CASE i <= call[c].passed /\ k = KeyOf(c, i)
  <2>1. c \in OnTheirWay(i, k) <=> i \notin call[c].old
    BY <1>1, <1>5 DEF OnTheirWay
  <2>2. c \in LetBy(i, k) <=> i \notin call[c].old /\ ~(call[c].refused /\ i = call[c].passed)
    BY <2>1 DEF LetBy
  <2>3. \/ /\ hits'[i][k] = hits[i][k] /\ carried'[i][k] = carried[i][k]
           /\ spent'[i][k] = IF i \notin call[c].old /\ ~(call[c].refused /\ i = call[c].passed)
                             THEN spent[i][k] + 1 ELSE spent[i][k]
        \/ /\ hits'[i][k] = hits[i][k] - 1 /\ spent'[i][k] = spent[i][k]
           /\ carried'[i][k] = IF i \in call[c].old THEN carried[i][k] + 1 ELSE carried[i][k]
        \/ /\ hits[i][k] = 0 /\ hits'[i][k] = 0 /\ spent'[i][k] = spent[i][k]
           /\ carried'[i][k] = carried[i][k]
    BY <1>5, FinishTypes
  <2> HIDE DEF on, let
  <2>4. /\ spent'[i][k] + Cardinality(OnTheirWay(i, k)') <= hits'[i][k] + carried'[i][k]
        /\ spent'[i][k] + Cardinality(LetBy(i, k)') <= Chain[i].most + carried'[i][k]
    BY <1>2, <1>n, <1>w, <2>1, <2>2, <2>3
  <2> QED
    BY <1>c, <2>4 DEF Within
<1>6. CASE ~(i <= call[c].passed /\ k = KeyOf(c, i))
  <2>1. c \notin OnTheirWay(i, k) /\ c \notin LetBy(i, k)
    BY <1>6 DEF OnTheirWay, LetBy
  <2>2. hits'[i][k] = hits[i][k] /\ spent'[i][k] = spent[i][k] /\ carried'[i][k] = carried[i][k]
    BY <1>6, FinishTypes
  <2> QED
    BY <1>c, <1>4, <1>l, <2>1, <2>2 DEF Within
<1> QED
  BY <1>5, <1>6

LEMMA WindowIsWithin ==
    ASSUME LimitsTypeOK, NEW j \in Places, NEW l \in Keys, WindowOver(j, l),
           NEW i \in Places, NEW k \in Keys, Within(i, k)
    PROVE  Within(i, k)'
<1>1. /\ route' = route
      /\ hits' = [hits EXCEPT ![j][l] = 0] /\ spent' = [spent EXCEPT ![j][l] = 0]
      /\ carried' = [carried EXCEPT ![j][l] = 0]
      /\ \A c \in Calls :
            /\ call'[c] = NoCall <=> call[c] = NoCall
            /\ call'[c].network = call[c].network /\ call'[c].holder = call[c].holder
            /\ call'[c].refused = call[c].refused /\ call'[c].passed = call[c].passed
            /\ call'[c].old = IF call[c] # NoCall /\ j <= call[c].passed /\ KeyOf(c, j) = l
                              THEN call[c].old \cup {j} ELSE call[c].old
  BY WindowTypes
<1>c. Chain' = Chain
  BY <1>1, Zenon DEF Chain
<1>k. \A c \in Calls : KeyOf(c, i)' = KeyOf(c, i)
  BY <1>c, <1>1, Zenon DEF KeyOf, Key
<1>2. CASE i = j /\ k = l
  <2>1. OnTheirWay(i, k)' = {}
    BY <1>1, <1>2, <1>k DEF OnTheirWay
  <2>2. LetBy(i, k)' = {}
    BY <2>1 DEF LetBy
  <2>3. hits'[i][k] = 0 /\ spent'[i][k] = 0 /\ carried'[i][k] = 0 /\ Chain[i].most \in Nat
    BY <1>1, <1>2, NumbersOf DEF LimitsTypeOK
  <2> QED
    BY <1>c, <2>1, <2>2, <2>3, FS_EmptySet DEF Within
<1>3. CASE ~(i = j /\ k = l)
  <2>1. \A c \in Calls : call[c] # NoCall /\ i <= call[c].passed /\ KeyOf(c, i) = k =>
            (i \in call'[c].old <=> i \in call[c].old)
    BY <1>1, <1>3
  <2>2. OnTheirWay(i, k)' = OnTheirWay(i, k)
    BY <1>1, <1>k, <2>1 DEF OnTheirWay
  <2>3. LetBy(i, k)' = LetBy(i, k)
    <3>1. OnTheirWay(i, k) \subseteq Calls
      BY DEF OnTheirWay
    <3> QED
      BY <1>1, <2>2, <3>1 DEF LetBy
  <2>4. hits'[i][k] = hits[i][k] /\ spent'[i][k] = spent[i][k] /\ carried'[i][k] = carried[i][k]
    BY <1>1, <1>3, NumbersOf DEF LimitsTypeOK
  <2> QED
    BY <1>c, <2>2, <2>3, <2>4 DEF Within
<1> QED
  BY <1>2, <1>3

LEMMA NextIsWithin ==
    ASSUME LimitsTypeOK, [LimitsNext]_limitVars, NEW i \in Places, NEW k \in Keys, Within(i, k)
    PROVE  Within(i, k)'
<1>1. CASE UNCHANGED limitVars
  <2>0. UNCHANGED <<route, hits, call, spent, carried>>
    BY <1>1 DEF limitVars
  <2>1. Chain' = Chain
    BY <2>0, Zenon DEF Chain
  <2>2. \A c : KeyOf(c, i)' = KeyOf(c, i)
    BY <2>0, <2>1, Zenon DEF KeyOf, Key
  <2>3. OnTheirWay(i, k)' = OnTheirWay(i, k)
    BY <2>0, <2>2, Zenon DEF OnTheirWay
  <2>4. LetBy(i, k)' = LetBy(i, k)
    BY <2>0, <2>3, Zenon DEF LetBy
  <2> QED
    BY <2>0, <2>1, <2>3, <2>4 DEF Within
<1>2. CASE Restart
  <2>1. hits'[i][k] = 0 /\ spent'[i][k] = 0 /\ carried'[i][k] = 0 /\ route' = route /\ Chain[i].most \in Nat
    BY <1>2, NumbersOf, RestartTypes
  <2>2. OnTheirWay(i, k)' = {}
    BY <1>2, RestartTypes DEF OnTheirWay
  <2>3. LetBy(i, k)' = {}
    BY <2>2 DEF LetBy
  <2>4. Chain' = Chain
    BY <2>1, Zenon DEF Chain
  <2> QED
    BY <2>1, <2>2, <2>3, <2>4, FS_EmptySet DEF Within
<1> QED
  BY <1>1, <1>2, ArriveIsWithin, FinishIsWithin, WindowIsWithin DEF LimitsNext

\* On every route, however requests overlap, fail, succeed, outlive their window or
\* see the server restart, a limiter lets by in a window of a key no more requests
\* that end as it counts than it allows, and one for each request of an earlier
\* window forgiven at this one's cost.
THEOREM LimitersLimit == LimitsSpec => []AtMostAllowed
<1> DEFINE Inv == \A i \in Places, k \in Keys : Within(i, k)
<1>1. Inv => AtMostAllowed
  BY DEF Within, AtMostAllowed
<1>2. LimitsInit => Inv
  <2> SUFFICES ASSUME LimitsInit, NEW i \in Places, NEW k \in Keys PROVE Within(i, k)
    OBVIOUS
  <2>1. hits[i][k] = 0 /\ spent[i][k] = 0 /\ carried[i][k] = 0 /\ Chain[i].most \in Nat
    BY InitLimitsTypes, NumbersOf DEF LimitsInit
  <2>2. OnTheirWay(i, k) = {}
    BY DEF LimitsInit, OnTheirWay
  <2>3. LetBy(i, k) = {}
    BY <2>2 DEF LetBy
  <2> QED
    BY <2>1, <2>2, <2>3, FS_EmptySet DEF Within
<1>3. LimitsTypeOK /\ Inv /\ [LimitsNext]_limitVars => Inv'
  <2> SUFFICES ASSUME LimitsTypeOK, Inv, [LimitsNext]_limitVars PROVE Inv'
    OBVIOUS
  <2>1. route' = route
    BY ArriveTypes, FinishTypes, WindowTypes, RestartTypes DEF LimitsNext, limitVars
  <2>2. Places' = Places /\ Keys' = Keys
    BY <2>1, Zenon DEF Places, Chain, Keys
  <2> QED
    BY <2>2, NextIsWithin
<1> HIDE DEF Inv
<1> QED
  BY <1>1, <1>2, <1>3, LimitsTypeCorrect, PTL DEF LimitsSpec

-----------------------------------------------------------------------------
(* EventCreation: the inductive invariant.                                 *)

\* What a request has at each of its steps: the member it is for, the draft it
\* read, the event it restores.
JobOK(j) ==
    /\ j.op \in {"draft", "create", "insert", "delete"} => j.by \in Members
    /\ j.op \in {"draft", "delete"} => j.save # Null
    /\ j.op \in {"idle", "restore"} => j.save = Null
    /\ j.op = "restore" => j.on \in Events
JobsOK == \A s \in Sessions : JobOK(session[s])

\* While nothing has gone over, what a request counted leaves room for one more.
RoomLeft ==
    ~over => \A s \in Sessions :
        /\ session[s].op \in {"create", "insert"} => session[s].count < limit
        /\ session[s].op = "restore" => session[s].on \in passed \/ session[s].count < limit

\* The saves are numbered, and a number is one member's, in one draft.
SavesOK ==
    /\ \A m \in Members : draft[m] # Null => draft[m].save <= saves
    /\ \A s \in Sessions : session[s].save # Null => session[s].save.save <= saves
    /\ \A e \in Events : from[e] # Null => from[e] <= saves
    /\ \A m, k \in Members : draft[m] # Null /\ draft[k] # Null /\ draft[m].save = draft[k].save => m = k
    /\ \A s \in Sessions, m \in Members :
          session[s].save # Null /\ draft[m] # Null /\ draft[m].save = session[s].save.save =>
              session[s].by = m /\ draft[m].id = session[s].save.id

\* A save two requests hold is torn; one not yet made into an event by its
\* request has been made into none; one an event was made from is in no draft
\* still, save the one its request is about to delete.
MakingOK ==
    /\ \A s, t \in Sessions :
          s # t /\ session[s].save # Null /\ session[t].save # Null
            /\ session[s].save.save = session[t].save.save => session[s].save.save \in torn
    /\ \A s \in Sessions, e \in Events :
          session[s].op # "delete" /\ session[s].save # Null /\ from[e] = session[s].save.save => from[e] \in torn
    /\ \A e \in Events, m \in Members :
          from[e] # Null /\ draft[m] # Null /\ draft[m].save = from[e] =>
              \/ from[e] \in torn
              \/ \E s \in Sessions : session[s].op = "delete" /\ session[s].save.save = from[e]

\* A member found locked is one whose list an administrator has set; a settled
\* event exists and has a creator.
LocksOK ==
    /\ \A s \in Sessions : session[s].op = "insert" /\ session[s].locked => session[s].by \in asked
    /\ \A e \in settled : row[e] # "none" /\ creator[e] \in Members


Jobs ==
    [op : {"idle", "draft", "create", "insert", "delete", "restore"},
     by : Members \cup {Null}, on : Events \cup {Null}, save : Drafts \cup {Null},
     count : 0..Cardinality(Events), locked : BOOLEAN]

\* The events are finitely many, and so are any of them.
LEMMA EventsCount ==
    /\ IsFiniteSet(Events) /\ Cardinality(Events) \in Nat
    /\ \A S \in SUBSET Events : IsFiniteSet(S) /\ Cardinality(S) \in 0..Cardinality(Events)
<1>1. IsFiniteSet(Events) /\ Cardinality(Events) \in Nat
  BY CreationAssumption, FS_CardinalityType
<1>2. ASSUME NEW S \in SUBSET Events
      PROVE  IsFiniteSet(S) /\ Cardinality(S) \in 0..Cardinality(Events)
  <2>1. IsFiniteSet(S) /\ Cardinality(S) <= Cardinality(Events)
    BY <1>1, FS_Subset
  <2>2. Cardinality(S) \in Nat
    BY <2>1, FS_CardinalityType
  <2> QED
    BY <2>1, <2>2, <1>1
<1> QED
  BY <1>1, <1>2

\* What the plan's check counts is a number of events.
LEMMA CountsInRange == CountActive \in 0..Cardinality(Events) /\ CountActive \in Nat
<1>1. ActiveEvents \in SUBSET Events
  BY DEF ActiveEvents
<1>2. CountActive \in 0..Cardinality(Events)
  BY <1>1, EventsCount, Zenon DEF CountActive
<1> QED
  BY <1>2, EventsCount

\* What a request becomes at each of its steps is a request.
LEMMA JobTypes ==
    /\ NoSession \in Jobs
    /\ \A m \in Members, d \in Drafts : Session("draft", m, Null, d, 0, FALSE) \in Jobs
    /\ \A m \in Members, c \in 0..Cardinality(Events) : Session("create", m, Null, Null, c, FALSE) \in Jobs
    /\ \A e \in Events, c \in 0..Cardinality(Events) : Session("restore", Null, e, Null, c, FALSE) \in Jobs
    /\ \A j \in Jobs, c \in 0..Cardinality(Events) : [j EXCEPT !.op = "create", !.count = c] \in Jobs
    /\ \A j \in Jobs, l \in BOOLEAN : [j EXCEPT !.op = "insert", !.locked = l] \in Jobs
    /\ \A j \in Jobs : [j EXCEPT !.op = "delete"] \in Jobs
<1>0. 0 \in 0..Cardinality(Events)
  BY EventsCount
<1>1. NoSession \in Jobs
  BY <1>0 DEF Jobs, NoSession, Session
<1>2. \A m \in Members, d \in Drafts : Session("draft", m, Null, d, 0, FALSE) \in Jobs
  BY <1>0 DEF Jobs, Session
<1>3. \A m \in Members, c \in 0..Cardinality(Events) : Session("create", m, Null, Null, c, FALSE) \in Jobs
  BY DEF Jobs, Session
<1>4. \A e \in Events, c \in 0..Cardinality(Events) : Session("restore", Null, e, Null, c, FALSE) \in Jobs
  BY DEF Jobs, Session
<1>5. \A j \in Jobs, c \in 0..Cardinality(Events) : [j EXCEPT !.op = "create", !.count = c] \in Jobs
  BY DEF Jobs
<1>6. \A j \in Jobs, l \in BOOLEAN : [j EXCEPT !.op = "insert", !.locked = l] \in Jobs
  BY DEF Jobs
<1>7. \A j \in Jobs : [j EXCEPT !.op = "delete"] \in Jobs
  BY DEF Jobs
<1> QED
  BY <1>1, <1>2, <1>3, <1>4, <1>5, <1>6, <1>7, Zenon

Sess == session \in [Sessions -> Jobs] /\ JobsOK


\* The requests at work keep their types.
LEMMA CreationNextSessions == CreationTypeOK /\ JobsOK /\ [CreationNext]_creationVars => Sess'
<1> SUFFICES ASSUME CreationTypeOK, JobsOK, [CreationNext]_creationVars PROVE Sess'
  OBVIOUS
<1>0. session \in [Sessions -> Jobs] /\ draft \in [Members -> Drafts \cup {Null}] /\ (\A t \in Sessions : JobOK(session[t]))
  BY Zenon DEF CreationTypeOK, Jobs, JobsOK
<1>a. ASSUME UNCHANGED session PROVE Sess'
  BY <1>0, <1>a, Zenon DEF Sess, JobsOK
<1>b. ASSUME NEW s \in Sessions, NEW j \in Jobs, Become(s, j), JobOK(j) PROVE Sess'
  <2>1. session' = [session EXCEPT ![s] = j]
    BY <1>b DEF Become
  <2>2. session' \in [Sessions -> Jobs]
    BY <2>1, <1>0
  <2>3. ASSUME NEW t \in Sessions PROVE JobOK(session[t])'
    <3>1. session'[t] = session[t] \/ session'[t] = j
      BY <2>1, <1>0
    <3> QED
      BY <3>1, <1>b, <1>0, Zenon DEF JobOK
  <2> QED
    BY <2>2, <2>3, Zenon DEF Sess, JobsOK
<1>1. ASSUME NEW m \in Members, SaveDraft(m) PROVE Sess'
  BY <1>1, <1>a, Zenon DEF SaveDraft, lockVars, rowVars, planVars, draftVars
<1>2. ASSUME NEW m \in Members, DiscardDraft(m) PROVE Sess'
  BY <1>2, <1>a, Zenon DEF DiscardDraft, lockVars, rowVars, planVars, draftVars
<1>3. ASSUME NEW m \in Members, NEW S \in SUBSET Events, ReplaceForUser(m, S) PROVE Sess'
  BY <1>3, <1>a, Zenon DEF ReplaceForUser, lockVars, rowVars, planVars, draftVars
<1>4. ASSUME NEW e \in Events, Archive(e) PROVE Sess'
  BY <1>4, <1>a, Zenon DEF Archive, lockVars, rowVars, planVars, draftVars
<1>5. ASSUME NEW e \in Events, BuyPass(e) PROVE Sess'
  BY <1>5, <1>a, Zenon DEF BuyPass, lockVars, rowVars, planVars, draftVars
<1>6. ASSUME ChangePlan PROVE Sess'
  BY <1>6, <1>a, Zenon DEF ChangePlan, lockVars, rowVars, planVars, draftVars
<1>7. ASSUME NEW s \in Sessions, NEW m \in Members, DraftRead(s, m) PROVE Sess'
  <2>1. Session("draft", m, Null, draft[m], 0, FALSE) \in Jobs /\ Become(s, Session("draft", m, Null, draft[m], 0, FALSE))
    BY <1>7, <1>0, JobTypes DEF DraftRead
  <2>2. JobOK(Session("draft", m, Null, draft[m], 0, FALSE))
    BY <1>7 DEF JobOK, Session, DraftRead
  <2> QED
    BY <2>1, <2>2, <1>b, Zenon
<1>8. ASSUME NEW s \in Sessions, NEW m \in Members, CreateRead(s, m) PROVE Sess'
  <2>1. Session("create", m, Null, Null, CountActive, FALSE) \in Jobs /\ Become(s, Session("create", m, Null, Null, CountActive, FALSE))
    BY <1>8, <1>0, JobTypes, CountsInRange DEF CreateRead
  <2>2. JobOK(Session("create", m, Null, Null, CountActive, FALSE))
    BY DEF JobOK, Session
  <2> QED
    BY <2>1, <2>2, <1>b, Zenon
<1>9. ASSUME NEW s \in Sessions, DraftCount(s) PROVE Sess'
  <2>1. [session[s] EXCEPT !.op = "create", !.count = CountActive] \in Jobs /\ Become(s, [session[s] EXCEPT !.op = "create", !.count = CountActive])
    BY <1>9, <1>0, JobTypes, CountsInRange DEF DraftCount
  <2>2. JobOK([session[s] EXCEPT !.op = "create", !.count = CountActive])
    BY <1>9, <1>0 DEF JobOK, DraftCount, Busy, Jobs
  <2> QED
    BY <2>1, <2>2, <1>b, Zenon
<1>10. ASSUME NEW s \in Sessions, LockRead(s) PROVE Sess'
  <2>0. Locked(session[s].by) \in BOOLEAN
    BY Zenon DEF Locked
  <2>1. [session[s] EXCEPT !.op = "insert", !.locked = Locked(session[s].by)] \in Jobs /\ Become(s, [session[s] EXCEPT !.op = "insert", !.locked = Locked(session[s].by)])
    BY <1>10, <1>0, <2>0, JobTypes DEF LockRead
  <2>2. JobOK([session[s] EXCEPT !.op = "insert", !.locked = Locked(session[s].by)])
    BY <1>10, <1>0 DEF JobOK, LockRead, Busy, Jobs
  <2> QED
    BY <2>1, <2>2, <1>b, Zenon
<1>11. ASSUME NEW s \in Sessions, DraftDelete(s) PROVE Sess'
  <2>1. NoSession \in Jobs /\ JobOK(NoSession)
    BY JobTypes DEF JobOK, NoSession, Session
  <2> QED
    BY <2>1, <1>11, <1>b, Zenon DEF DraftDelete
<1>12. ASSUME NEW s \in Sessions, Restore(s) PROVE Sess'
  <2>1. NoSession \in Jobs /\ JobOK(NoSession)
    BY JobTypes DEF JobOK, NoSession, Session
  <2> QED
    BY <2>1, <1>12, <1>b, Zenon DEF Restore
<1>13. ASSUME NEW s \in Sessions, Stop(s) PROVE Sess'
  <2>1. NoSession \in Jobs /\ JobOK(NoSession)
    BY JobTypes DEF JobOK, NoSession, Session
  <2> QED
    BY <2>1, <1>13, <1>b, Zenon DEF Stop
<1>14. ASSUME NEW s \in Sessions, NEW e \in Events, Create(s, e) PROVE Sess'
  <2>1. NoSession \in Jobs /\ JobOK(NoSession)
    BY JobTypes DEF JobOK, NoSession, Session
  <2> QED
    BY <2>1, <1>14, <1>b, Zenon DEF Create
<1>15. ASSUME NEW s \in Sessions, NEW e \in Events, Materialize(s, e) PROVE Sess'
  <2>1. [session[s] EXCEPT !.op = "delete"] \in Jobs /\ Become(s, [session[s] EXCEPT !.op = "delete"])
    BY <1>15, <1>0, JobTypes DEF Materialize
  <2>2. JobOK([session[s] EXCEPT !.op = "delete"])
    BY <1>15, <1>0 DEF JobOK, Materialize, Busy, Jobs
  <2> QED
    BY <2>1, <2>2, <1>b, Zenon
<1>16. ASSUME NEW s \in Sessions, NEW e \in Events, RestoreRead(s, e) PROVE Sess'
  <2>1. Session("restore", Null, e, Null, CountActive, FALSE) \in Jobs /\ Become(s, Session("restore", Null, e, Null, CountActive, FALSE))
    BY <1>16, <1>0, JobTypes, CountsInRange DEF RestoreRead
  <2>2. JobOK(Session("restore", Null, e, Null, CountActive, FALSE))
    BY DEF JobOK, Session
  <2> QED
    BY <2>1, <2>2, <1>b, Zenon
<1>17. CASE UNCHANGED creationVars
  BY <1>17, <1>a, Zenon DEF creationVars
<1> QED
  BY <1>1, <1>2, <1>3, <1>4, <1>5, <1>6, <1>7, <1>8, <1>9, <1>10, <1>11, <1>12, <1>13, <1>14, <1>15, <1>16, <1>17, Zenon DEF CreationNext


Rest ==
    /\ row \in [Events -> {"none", "live", "archived"}] /\ passed \subseteq Events
    /\ creator \in [Events -> Members \cup {Null}]
    /\ from \in [Events -> (1..MaxSaves) \cup {Null}]
    /\ assigned \in [Members -> SUBSET Events]
    /\ asked \subseteq Members /\ settled \subseteq Events
    /\ limit \in PlanLimits /\ over \in BOOLEAN
    /\ draft \in [Members -> Drafts \cup {Null}]
    /\ saves \in 0..MaxSaves /\ torn \subseteq 1..MaxSaves

\* So does everything else: the type invariant is inductive.
LEMMA CreationNextTypes == CreationTypeOK /\ JobsOK /\ [CreationNext]_creationVars => CreationTypeOK' /\ JobsOK'
<1> SUFFICES ASSUME CreationTypeOK, JobsOK, [CreationNext]_creationVars PROVE CreationTypeOK' /\ JobsOK'
  OBVIOUS
<1>0. Rest /\ session \in [Sessions -> Jobs] /\ (\A t \in Sessions : JobOK(session[t]))
  BY Zenon DEF CreationTypeOK, Jobs, JobsOK, Rest
<1>s. Sess'
  BY CreationNextSessions, Zenon
<1>r. ASSUME Rest' PROVE CreationTypeOK' /\ JobsOK'
  BY <1>r, <1>s, Zenon DEF Sess, Rest, CreationTypeOK, Jobs
<1>1. ASSUME NEW m \in Members, SaveDraft(m) PROVE CreationTypeOK' /\ JobsOK'
  <2>1. [id |-> IF draft[m] = Null THEN saves + 1 ELSE draft[m].id, save |-> saves + 1] \in Drafts
    BY <1>1, <1>0, CreationAssumption DEF SaveDraft, Rest, Drafts
  <2>2. Rest'
    BY <1>1, <2>1, <1>0, CreationAssumption DEF SaveDraft, Rest, planVars, rowVars, lockVars
  <2> QED
    BY <2>2, <1>r
<1>2. ASSUME NEW m \in Members, DiscardDraft(m) PROVE CreationTypeOK' /\ JobsOK'
  <2>2. Rest'
    BY <1>2, <1>0 DEF DiscardDraft, Rest, draftVars, planVars, rowVars, lockVars
  <2> QED
    BY <2>2, <1>r
<1>3. ASSUME NEW m \in Members, NEW S \in SUBSET Events, ReplaceForUser(m, S) PROVE CreationTypeOK' /\ JobsOK'
  <2>2. Rest'
    BY <1>3, <1>0 DEF ReplaceForUser, Rest, draftVars, planVars, rowVars, lockVars
  <2> QED
    BY <2>2, <1>r
<1>4. ASSUME NEW e \in Events, Archive(e) PROVE CreationTypeOK' /\ JobsOK'
  <2>2. Rest'
    BY <1>4, <1>0 DEF Archive, Rest, draftVars, planVars, rowVars, lockVars
  <2> QED
    BY <2>2, <1>r
<1>5. ASSUME NEW e \in Events, BuyPass(e) PROVE CreationTypeOK' /\ JobsOK'
  <2>2. Rest'
    BY <1>5, <1>0 DEF BuyPass, Rest, draftVars, planVars, rowVars, lockVars
  <2> QED
    BY <2>2, <1>r
<1>6. ASSUME ChangePlan PROVE CreationTypeOK' /\ JobsOK'
  <2>2. Rest'
    BY <1>6, <1>0 DEF ChangePlan, Rest, draftVars, planVars, rowVars, lockVars
  <2> QED
    BY <2>2, <1>r
<1>7. ASSUME NEW s \in Sessions, NEW m \in Members, DraftRead(s, m) PROVE CreationTypeOK' /\ JobsOK'
  <2>1. draft[m] \in Drafts /\ draft[m].save \in 1..MaxSaves
    BY <1>7, <1>0 DEF DraftRead, Rest, Drafts
  <2>2. Rest'
    BY <1>7, <2>1, <1>0 DEF DraftRead, Rest, planVars, rowVars, lockVars
  <2> QED
    BY <2>2, <1>r
<1>8. ASSUME NEW s \in Sessions, NEW m \in Members, CreateRead(s, m) PROVE CreationTypeOK' /\ JobsOK'
  <2>2. Rest'
    BY <1>8, <1>0 DEF CreateRead, Rest, draftVars, planVars, rowVars, lockVars
  <2> QED
    BY <2>2, <1>r
<1>9. ASSUME NEW s \in Sessions, DraftCount(s) PROVE CreationTypeOK' /\ JobsOK'
  <2>2. Rest'
    BY <1>9, <1>0 DEF DraftCount, Rest, draftVars, planVars, rowVars, lockVars
  <2> QED
    BY <2>2, <1>r
<1>10. ASSUME NEW s \in Sessions, LockRead(s) PROVE CreationTypeOK' /\ JobsOK'
  <2>2. Rest'
    BY <1>10, <1>0 DEF LockRead, Rest, draftVars, planVars, rowVars, lockVars
  <2> QED
    BY <2>2, <1>r
<1>11. ASSUME NEW s \in Sessions, DraftDelete(s) PROVE CreationTypeOK' /\ JobsOK'
  <2>1. session[s].by \in Members
    BY <1>11, <1>0 DEF DraftDelete, Busy, JobOK
  <2>2. Rest'
    BY <1>11, <2>1, <1>0 DEF DraftDelete, Rest, planVars, rowVars, lockVars
  <2> QED
    BY <2>2, <1>r
<1>12. ASSUME NEW s \in Sessions, Restore(s) PROVE CreationTypeOK' /\ JobsOK'
  <2>1. session[s].on \in Events
    BY <1>12, <1>0 DEF Restore, Busy, JobOK
  <2>2. Rest'
    BY <1>12, <2>1, <1>0 DEF Restore, Rest, draftVars, lockVars
  <2> QED
    BY <2>2, <1>r
<1>13. ASSUME NEW s \in Sessions, Stop(s) PROVE CreationTypeOK' /\ JobsOK'
  <2>1. Busy(s, "delete") => session[s].save.save \in 1..MaxSaves
    BY <1>13, <1>0 DEF Busy, JobOK, Jobs, Drafts
  <2>2. Rest'
    BY <1>13, <2>1, <1>0 DEF Stop, Rest, planVars, rowVars, lockVars
  <2> QED
    BY <2>2, <1>r
<1>14. ASSUME NEW s \in Sessions, NEW e \in Events, Create(s, e) PROVE CreationTypeOK' /\ JobsOK'
  <2>1. session[s].by \in Members
    BY <1>14, <1>0 DEF Create, Busy, JobOK
  <2>2. Rest'
    BY <1>14, <2>1, <1>0 DEF Create, NewEvent, SettledWith, Rest, draftVars
  <2> QED
    BY <2>2, <1>r
<1>15. ASSUME NEW s \in Sessions, NEW e \in Events, Materialize(s, e) PROVE CreationTypeOK' /\ JobsOK'
  <2>1. session[s].by \in Members /\ session[s].save.save \in 1..MaxSaves
    BY <1>15, <1>0 DEF Materialize, Busy, JobOK, Jobs, Drafts
  <2>2. Rest'
    BY <1>15, <2>1, <1>0 DEF Materialize, NewEvent, SettledWith, Rest, draftVars
  <2> QED
    BY <2>2, <1>r
<1>16. ASSUME NEW s \in Sessions, NEW e \in Events, RestoreRead(s, e) PROVE CreationTypeOK' /\ JobsOK'
  <2>2. Rest'
    BY <1>16, <1>0 DEF RestoreRead, Rest, draftVars, planVars, rowVars, lockVars
  <2> QED
    BY <2>2, <1>r
<1>17. CASE UNCHANGED creationVars
  <2>2. Rest'
    BY <1>17, <1>0 DEF creationVars, Rest
  <2> QED
    BY <2>2, <1>r
<1> QED
  BY <1>1, <1>2, <1>3, <1>4, <1>5, <1>6, <1>7, <1>8, <1>9, <1>10, <1>11, <1>12, <1>13, <1>14, <1>15, <1>16, <1>17, Zenon DEF CreationNext


\* A step that takes up room the others counted on is a step that goes over.
LEMMA CreationNextRoom == CreationTypeOK /\ JobsOK /\ RoomLeft /\ [CreationNext]_creationVars => RoomLeft'
<1> SUFFICES ASSUME CreationTypeOK, JobsOK, RoomLeft, [CreationNext]_creationVars, ~over',
                    NEW t \in Sessions
             PROVE  /\ session'[t].op \in {"create", "insert"} => session'[t].count < limit'
                    /\ session'[t].op = "restore" => session'[t].on \in passed' \/ session'[t].count < limit'
  BY DEF RoomLeft
<1> DEFINE G == /\ session'[t].op \in {"create", "insert"} => session'[t].count < limit'
                /\ session'[t].op = "restore" => session'[t].on \in passed' \/ session'[t].count < limit'
<1>0. Rest /\ session \in [Sessions -> Jobs]
  BY Zenon DEF CreationTypeOK, Jobs, Rest
<1>1a. ~over => /\ session[t].op \in {"create", "insert"} => session[t].count < limit
                /\ session[t].op = "restore" => session[t].on \in passed \/ session[t].count < limit
  BY Zenon DEF RoomLeft
<1>2a. limit \in Nat /\ session[t].count \in Nat
  BY <1>0, CreationAssumption, EventsCount DEF Rest, Jobs
<1>3a. ASSUME session'[t] = session[t], limit' = limit, ~over, passed \subseteq passed' PROVE G
  BY <1>3a, <1>1a, Zenon
<1>4a. ASSUME session'[t].op \in {"idle", "draft", "delete"} PROVE G
  BY <1>4a
<1>1. ASSUME NEW m \in Members, SaveDraft(m) PROVE G
  BY <1>1, <1>3a DEF SaveDraft, draftVars, planVars, rowVars, lockVars
<1>2. ASSUME NEW m \in Members, DiscardDraft(m) PROVE G
  BY <1>2, <1>3a DEF DiscardDraft, draftVars, planVars, rowVars, lockVars
<1>3. ASSUME NEW m \in Members, NEW S \in SUBSET Events, ReplaceForUser(m, S) PROVE G
  BY <1>3, <1>3a DEF ReplaceForUser, draftVars, planVars, rowVars, lockVars
<1>4. ASSUME NEW e \in Events, Archive(e) PROVE G
  BY <1>4, <1>3a DEF Archive, draftVars, planVars, rowVars, lockVars
<1>5. ASSUME NEW e \in Events, BuyPass(e) PROVE G
  BY <1>5, <1>3a DEF BuyPass, draftVars, planVars, rowVars, lockVars
<1>6. ASSUME ChangePlan PROVE G
  <2>1. limit' \in Nat /\ ~(limit' < limit) /\ ~over /\ session'[t] = session[t] /\ passed' = passed
    BY <1>6, <1>2a, CreationAssumption DEF ChangePlan, rowVars
  <2>2. \A c \in Nat : c < limit => c < limit'
    BY <2>1, <1>2a
  <2> QED
    BY <2>1, <2>2, <1>1a, <1>2a, Zenon
<1>7. ASSUME NEW s \in Sessions, NEW m \in Members, DraftRead(s, m) PROVE G
  <2>1. session' = [session EXCEPT ![s] = Session("draft", m, Null, draft[m], 0, FALSE)] /\ limit' = limit /\ ~over /\ passed' = passed
    BY <1>7 DEF DraftRead, Become, rowVars, planVars
  <2>2. CASE t = s
    BY <2>1, <2>2, <1>0, <1>4a DEF Session
  <2>3. CASE t # s
    <3>1. session'[t] = session[t]
      BY <2>1, <2>3, <1>0
    <3> QED
      BY <3>1, <2>1, <1>3a
  <2> QED
    BY <2>2, <2>3
<1>8. ASSUME NEW s \in Sessions, NEW m \in Members, CreateRead(s, m) PROVE G
  <2>1. session' = [session EXCEPT ![s] = Session("create", m, Null, Null, CountActive, FALSE)] /\ Creatable /\ limit' = limit /\ ~over /\ passed' = passed
    BY <1>8 DEF CreateRead, Become, rowVars, planVars
  <2>2. CASE t = s
    BY <2>1, <2>2, <1>0 DEF Session, Creatable
  <2>3. CASE t # s
    <3>1. session'[t] = session[t]
      BY <2>1, <2>3, <1>0
    <3> QED
      BY <3>1, <2>1, <1>3a
  <2> QED
    BY <2>2, <2>3
<1>9. ASSUME NEW s \in Sessions, DraftCount(s) PROVE G
  <2>1. session' = [session EXCEPT ![s] = [session[s] EXCEPT !.op = "create", !.count = CountActive]] /\ Creatable /\ limit' = limit /\ ~over /\ passed' = passed
    BY <1>9 DEF DraftCount, Become, rowVars, planVars
  <2>2. CASE t = s
    BY <2>1, <2>2, <1>0 DEF Jobs, Creatable
  <2>3. CASE t # s
    <3>1. session'[t] = session[t]
      BY <2>1, <2>3, <1>0
    <3> QED
      BY <3>1, <2>1, <1>3a
  <2> QED
    BY <2>2, <2>3
<1>10. ASSUME NEW s \in Sessions, LockRead(s) PROVE G
  <2>1. session' = [session EXCEPT ![s] = [session[s] EXCEPT !.op = "insert", !.locked = Locked(session[s].by)]] /\ session[s].op = "create" /\ limit' = limit /\ ~over
    BY <1>10 DEF LockRead, Become, Busy, planVars
  <2>2. CASE t = s
    <3>1. session'[t].op = "insert" /\ session'[t].count = session[t].count
      BY <2>1, <2>2, <1>0 DEF Jobs
    <3> QED
      BY <3>1, <2>1, <2>2, <1>1a
  <2>3. CASE t # s
    <3>1. session'[t] = session[t] /\ passed' = passed
      BY <1>10, <2>1, <2>3, <1>0 DEF LockRead, rowVars
    <3> QED
      BY <3>1, <2>1, <1>3a
  <2> QED
    BY <2>2, <2>3
<1>11. ASSUME NEW s \in Sessions, DraftDelete(s) PROVE G
  <2>1. session' = [session EXCEPT ![s] = NoSession] /\ limit' = limit /\ ~over /\ passed' = passed
    BY <1>11 DEF DraftDelete, Become, rowVars, planVars, NewEvent
  <2>2. CASE t = s
    <3>1. session'[t].op = "idle"
      BY <2>1, <2>2, <1>0 DEF NoSession, Session
    <3> QED
      BY <3>1, <1>4a
  <2>3. CASE t # s
    <3>1. session'[t] = session[t]
      BY <2>1, <2>3, <1>0
    <3> QED
      BY <3>1, <2>1, <1>3a
  <2> QED
    BY <2>2, <2>3
<1>12. ASSUME NEW s \in Sessions, Restore(s) PROVE G
  <2>1. session' = [session EXCEPT ![s] = NoSession] /\ limit' = limit /\ ~over /\ passed' = passed
    BY <1>12 DEF Restore, Become, rowVars, planVars, NewEvent
  <2>2. CASE t = s
    <3>1. session'[t].op = "idle"
      BY <2>1, <2>2, <1>0 DEF NoSession, Session
    <3> QED
      BY <3>1, <1>4a
  <2>3. CASE t # s
    <3>1. session'[t] = session[t]
      BY <2>1, <2>3, <1>0
    <3> QED
      BY <3>1, <2>1, <1>3a
  <2> QED
    BY <2>2, <2>3
<1>13. ASSUME NEW s \in Sessions, Stop(s) PROVE G
  <2>1. session' = [session EXCEPT ![s] = NoSession] /\ limit' = limit /\ ~over /\ passed' = passed
    BY <1>13 DEF Stop, Become, rowVars, planVars, NewEvent
  <2>2. CASE t = s
    <3>1. session'[t].op = "idle"
      BY <2>1, <2>2, <1>0 DEF NoSession, Session
    <3> QED
      BY <3>1, <1>4a
  <2>3. CASE t # s
    <3>1. session'[t] = session[t]
      BY <2>1, <2>3, <1>0
    <3> QED
      BY <3>1, <2>1, <1>3a
  <2> QED
    BY <2>2, <2>3
<1>14. ASSUME NEW s \in Sessions, NEW e \in Events, Create(s, e) PROVE G
  <2>1. session' = [session EXCEPT ![s] = NoSession] /\ limit' = limit /\ ~over /\ passed' = passed
    BY <1>14 DEF Create, Become, rowVars, planVars, NewEvent
  <2>2. CASE t = s
    <3>1. session'[t].op = "idle"
      BY <2>1, <2>2, <1>0 DEF NoSession, Session
    <3> QED
      BY <3>1, <1>4a
  <2>3. CASE t # s
    <3>1. session'[t] = session[t]
      BY <2>1, <2>3, <1>0
    <3> QED
      BY <3>1, <2>1, <1>3a
  <2> QED
    BY <2>2, <2>3
<1>15. ASSUME NEW s \in Sessions, NEW e \in Events, Materialize(s, e) PROVE G
  <2>1. session' = [session EXCEPT ![s] = [session[s] EXCEPT !.op = "delete"]] /\ limit' = limit /\ ~over /\ passed' = passed
    BY <1>15 DEF Materialize, Become, NewEvent
  <2>2. CASE t = s
    <3>1. session'[t].op = "delete"
      BY <2>1, <2>2, <1>0 DEF Jobs
    <3> QED
      BY <3>1, <1>4a
  <2>3. CASE t # s
    <3>1. session'[t] = session[t]
      BY <2>1, <2>3, <1>0
    <3> QED
      BY <3>1, <2>1, <1>3a
  <2> QED
    BY <2>2, <2>3
<1>16. ASSUME NEW s \in Sessions, NEW e \in Events, RestoreRead(s, e) PROVE G
  <2>1. session' = [session EXCEPT ![s] = Session("restore", Null, e, Null, CountActive, FALSE)] /\ Restorable(e) /\ limit' = limit /\ ~over /\ passed' = passed
    BY <1>16 DEF RestoreRead, Become, rowVars, planVars
  <2>2. CASE t = s
    BY <2>1, <2>2, <1>0 DEF Session, Restorable
  <2>3. CASE t # s
    <3>1. session'[t] = session[t]
      BY <2>1, <2>3, <1>0
    <3> QED
      BY <3>1, <2>1, <1>3a
  <2> QED
    BY <2>2, <2>3
<1>17. CASE UNCHANGED creationVars
  BY <1>17, <1>3a DEF creationVars
<1> QED
  BY <1>1, <1>2, <1>3, <1>4, <1>5, <1>6, <1>7, <1>8, <1>9, <1>10, <1>11, <1>12, <1>13, <1>14, <1>15, <1>16, <1>17, Zenon DEF CreationNext


\* One event more is one active event more at most.
LEMMA ActiveGrows ==
    ASSUME CreationTypeOK, CreationTypeOK', NEW T \in SUBSET Events, Cardinality(T) <= 1,
           ActiveEvents' \subseteq ActiveEvents \cup T
    PROVE  CountActive' <= CountActive + Cardinality(T)
<1>1. ActiveEvents \in SUBSET Events /\ ActiveEvents' \in SUBSET Events
  BY DEF ActiveEvents
<1>2. IsFiniteSet(ActiveEvents) /\ IsFiniteSet(T) /\ Cardinality(T) \in Nat /\ CountActive \in Nat
  BY <1>1, EventsCount, CountsInRange, FS_CardinalityType DEF CountActive
<1>3. IsFiniteSet(ActiveEvents \cup T) /\ Cardinality(ActiveEvents \cup T) <= CountActive + Cardinality(T)
  <2>1. IsFiniteSet(ActiveEvents \cup T) /\ Cardinality(ActiveEvents \cup T) = Cardinality(ActiveEvents) + Cardinality(T) - Cardinality(ActiveEvents \cap T)
    BY <1>2, FS_Union
  <2>2. Cardinality(ActiveEvents \cap T) \in Nat
    BY <1>2, FS_Intersection, FS_CardinalityType
  <2> QED
    BY <2>1, <2>2, <1>2 DEF CountActive
<1>4. IsFiniteSet(ActiveEvents') /\ Cardinality(ActiveEvents') <= Cardinality(ActiveEvents \cup T)
  BY <1>3, FS_Subset
<1>5. CountActive' \in Nat /\ Cardinality(ActiveEvents \cup T) \in Nat /\ CountActive' = Cardinality(ActiveEvents')
  BY <1>3, <1>4, FS_CardinalityType DEF CountActive
<1> QED
  BY <1>2, <1>3, <1>4, <1>5

\* So the plan's limit holds after every step.
LEMMA CreationNextActive ==
    CreationTypeOK /\ CreationTypeOK' /\ JobsOK /\ RoomLeft /\ ActiveWithinLimit /\ [CreationNext]_creationVars => ActiveWithinLimit'
<1> SUFFICES ASSUME CreationTypeOK, CreationTypeOK', JobsOK, RoomLeft, ActiveWithinLimit, [CreationNext]_creationVars, ~over'
             PROVE  CountActive' <= limit'
  BY DEF ActiveWithinLimit
<1>0. Rest /\ session \in [Sessions -> Jobs] /\ CountActive \in Nat /\ limit \in Nat
  BY CreationAssumption, CountsInRange DEF CreationTypeOK, Jobs, Rest
<1>1a. CountActive' \in Nat
  <2>1. ActiveEvents' \in SUBSET Events
    BY DEF ActiveEvents
  <2>2. IsFiniteSet(ActiveEvents')
    BY <2>1, EventsCount
  <2> QED
    BY <2>2, FS_CardinalityType DEF CountActive
<1>2a. ASSUME ActiveEvents' \subseteq ActiveEvents, limit' = limit, ~over PROVE CountActive' <= limit'
  <2>1. Cardinality({}) = 0 /\ {} \in SUBSET Events /\ ActiveEvents' \subseteq ActiveEvents \cup {}
    BY <1>2a, FS_EmptySet
  <2>2. CountActive' <= CountActive + Cardinality({})
    BY <2>1, ActiveGrows
  <2>3. CountActive <= limit
    BY <1>2a DEF ActiveWithinLimit
  <2> QED
    BY <2>1, <2>2, <2>3, <1>0, <1>1a, <1>2a
<1>3a. ASSUME NEW e \in Events, ActiveEvents' \subseteq ActiveEvents \cup {e}, CountActive < limit, limit' = limit
       PROVE  CountActive' <= limit'
  <2>1. Cardinality({e}) = 1 /\ {e} \in SUBSET Events
    BY FS_Singleton
  <2>2. CountActive' <= CountActive + Cardinality({e})
    BY <2>1, <1>3a, ActiveGrows
  <2> QED
    BY <2>1, <2>2, <1>0, <1>1a, <1>3a
<1>4a. ASSUME row' = row, passed' = passed, limit' = limit, ~over PROVE CountActive' <= limit'
  <2>1. ActiveEvents' \subseteq ActiveEvents
    BY <1>4a DEF ActiveEvents
  <2> QED
    BY <2>1, <1>4a, <1>2a
<1>5a. ASSUME NEW s \in Sessions, NEW e \in Events, NewEvent(s, e), Busy(s, "insert") PROVE CountActive' <= limit'
  <2>1. ActiveEvents' \subseteq ActiveEvents \cup {e} /\ limit' = limit
    BY <1>5a, <1>0 DEF ActiveEvents, NewEvent, Rest
  <2>2. ~over /\ ~(CountActive > session[s].count) /\ session[s].op = "insert"
    BY <1>5a DEF NewEvent, Busy
  <2>3. session[s].count < limit /\ session[s].count \in Nat
    BY <2>2, <1>0, EventsCount DEF RoomLeft, Jobs
  <2>4. CountActive < limit
    BY <2>2, <2>3, <1>0
  <2> QED
    BY <2>1, <2>4, <1>3a
<1>1. ASSUME NEW m \in Members, SaveDraft(m) PROVE CountActive' <= limit'
  BY <1>1, <1>4a DEF SaveDraft, draftVars, planVars, rowVars
<1>2. ASSUME NEW m \in Members, DiscardDraft(m) PROVE CountActive' <= limit'
  BY <1>2, <1>4a DEF DiscardDraft, draftVars, planVars, rowVars
<1>3. ASSUME NEW m \in Members, NEW S \in SUBSET Events, ReplaceForUser(m, S) PROVE CountActive' <= limit'
  BY <1>3, <1>4a DEF ReplaceForUser, draftVars, planVars, rowVars
<1>4. ASSUME NEW e \in Events, Archive(e) PROVE CountActive' <= limit'
  <2>1. ActiveEvents' \subseteq ActiveEvents
    BY <1>4, <1>0 DEF Archive, ActiveEvents, Rest
  <2> QED
    BY <1>4, <2>1, <1>2a DEF Archive, planVars
<1>5. ASSUME NEW e \in Events, BuyPass(e) PROVE CountActive' <= limit'
  <2>1. ActiveEvents' \subseteq ActiveEvents
    BY <1>5, <1>0 DEF BuyPass, ActiveEvents, Rest
  <2> QED
    BY <1>5, <2>1, <1>2a DEF BuyPass, planVars
<1>6. ASSUME ChangePlan PROVE CountActive' <= limit'
  <2>1. limit' \in Nat /\ ~(limit' < limit) /\ ~over /\ row' = row /\ passed' = passed
    BY <1>6, <1>0, CreationAssumption DEF ChangePlan, rowVars
  <2>2. CountActive' = CountActive
    BY <2>1 DEF CountActive, ActiveEvents
  <2>3. CountActive <= limit
    BY <2>1 DEF ActiveWithinLimit
  <2> QED
    BY <2>1, <2>2, <2>3, <1>0
<1>7. ASSUME NEW s \in Sessions, NEW m \in Members, DraftRead(s, m) PROVE CountActive' <= limit'
  BY <1>7, <1>4a DEF DraftRead, draftVars, planVars, rowVars
<1>8. ASSUME NEW s \in Sessions, NEW m \in Members, CreateRead(s, m) PROVE CountActive' <= limit'
  BY <1>8, <1>4a DEF CreateRead, draftVars, planVars, rowVars
<1>9. ASSUME NEW s \in Sessions, DraftCount(s) PROVE CountActive' <= limit'
  BY <1>9, <1>4a DEF DraftCount, draftVars, planVars, rowVars
<1>10. ASSUME NEW s \in Sessions, LockRead(s) PROVE CountActive' <= limit'
  BY <1>10, <1>4a DEF LockRead, draftVars, planVars, rowVars
<1>11. ASSUME NEW s \in Sessions, DraftDelete(s) PROVE CountActive' <= limit'
  BY <1>11, <1>4a DEF DraftDelete, draftVars, planVars, rowVars
<1>12. ASSUME NEW s \in Sessions, Restore(s) PROVE CountActive' <= limit'
  <2>1. session[s].op = "restore" /\ session[s].on \in Events
    BY <1>12 DEF Restore, Busy, JobsOK, JobOK
  <2> DEFINE e == session[s].on
  <2>2. passed' = passed /\ limit' = limit /\ row' = [row EXCEPT ![e] = "live"] /\ ~over
        /\ ~(row[e] # "live" /\ e \notin passed /\ CountActive > session[s].count)
    BY <1>12 DEF Restore
  <2>3. session[s].on \in passed \/ session[s].count < limit
    BY <2>1, <2>2 DEF RoomLeft
  <2>4. session[s].count \in Nat
    BY <1>0, EventsCount DEF Jobs
  <2>5. CASE row[e] = "live" \/ e \in passed
    <3>1. ActiveEvents' \subseteq ActiveEvents
      BY <2>1, <2>2, <2>5, <1>0 DEF ActiveEvents, Rest
    <3> QED
      BY <3>1, <2>2, <1>2a
  <2>6. CASE ~(row[e] = "live" \/ e \in passed)
    <3>1. ActiveEvents' \subseteq ActiveEvents \cup {e}
      BY <2>1, <2>2, <1>0 DEF ActiveEvents, Rest
    <3>2. CountActive < limit
      BY <2>2, <2>3, <2>4, <2>6, <1>0
    <3> QED
      BY <3>1, <3>2, <2>1, <2>2, <1>3a
  <2> QED
    BY <2>5, <2>6
<1>13. ASSUME NEW s \in Sessions, Stop(s) PROVE CountActive' <= limit'
  BY <1>13, <1>4a DEF Stop, draftVars, planVars, rowVars
<1>14. ASSUME NEW s \in Sessions, NEW e \in Events, Create(s, e) PROVE CountActive' <= limit'
  BY <1>14, <1>5a DEF Create
<1>15. ASSUME NEW s \in Sessions, NEW e \in Events, Materialize(s, e) PROVE CountActive' <= limit'
  BY <1>15, <1>5a DEF Materialize
<1>16. ASSUME NEW s \in Sessions, NEW e \in Events, RestoreRead(s, e) PROVE CountActive' <= limit'
  BY <1>16, <1>4a DEF RestoreRead, draftVars, planVars, rowVars
<1>17. CASE UNCHANGED creationVars
  BY <1>17, <1>4a DEF creationVars
<1> QED
  BY <1>1, <1>2, <1>3, <1>4, <1>5, <1>6, <1>7, <1>8, <1>9, <1>10, <1>11, <1>12, <1>13, <1>14, <1>15, <1>16, <1>17, Zenon DEF CreationNext


\* Every save has its number, which is given once.
LEMMA CreationNextSaves == CreationTypeOK /\ JobsOK /\ SavesOK /\ [CreationNext]_creationVars => SavesOK'
<1> SUFFICES ASSUME CreationTypeOK, JobsOK, SavesOK, [CreationNext]_creationVars PROVE SavesOK'
  OBVIOUS
<1>0. Rest /\ session \in [Sessions -> Jobs] /\ saves \in Nat
  BY CreationAssumption DEF CreationTypeOK, Jobs, Rest
<1>a. ASSUME saves' = saves, from' = from, \A k \in Members : draft'[k] # Null => draft'[k] = draft[k],
             \A t \in Sessions : session'[t].save = Null \/ (session'[t].save = session[t].save /\ session'[t].by = session[t].by)
      PROVE  SavesOK'
  BY <1>a DEF SavesOK
<1>1. ASSUME NEW m \in Members, SaveDraft(m) PROVE SavesOK'
  <2> DEFINE d == [id |-> IF draft[m] = Null THEN saves + 1 ELSE draft[m].id, save |-> saves + 1]
  <2>1. draft' = [draft EXCEPT ![m] = d] /\ saves' = saves + 1 /\ session' = session /\ from' = from /\ d.save = saves + 1
    BY <1>1 DEF SaveDraft, rowVars
  <2> HIDE DEF d
  <2>2. \A k \in Members : (k # m => draft'[k] = draft[k]) /\ (k = m => draft'[k] = d)
    BY <2>1, <1>0 DEF Rest
  <2>3. /\ \A k \in Members : draft[k] # Null => draft[k].save \in Nat /\ draft[k].save <= saves
        /\ \A t \in Sessions : session[t].save # Null => session[t].save.save \in Nat /\ session[t].save.save <= saves
        /\ \A e \in Events : from[e] # Null => from[e] \in Nat /\ from[e] <= saves
    BY <1>0 DEF SavesOK, Rest, Jobs, Drafts
  <2>4. \A k \in Members : draft'[k] # Null => draft'[k].save <= saves'
    BY <2>1, <2>2, <2>3, <1>0
  <2>5. \A t \in Sessions : session'[t].save # Null => session'[t].save.save <= saves'
    BY <2>1, <2>3, <1>0
  <2>6. \A e \in Events : from'[e] # Null => from'[e] <= saves'
    BY <2>1, <2>3, <1>0
  <2>7. \A k, l \in Members : draft'[k] # Null /\ draft'[l] # Null /\ draft'[k].save = draft'[l].save => k = l
    BY <2>1, <2>2, <2>3, <1>0 DEF SavesOK
  <2>8. \A t \in Sessions, k \in Members :
           session'[t].save # Null /\ draft'[k] # Null /\ draft'[k].save = session'[t].save.save =>
               session'[t].by = k /\ draft'[k].id = session'[t].save.id
    BY <2>1, <2>2, <2>3, <1>0 DEF SavesOK
  <2> QED
    BY <2>4, <2>5, <2>6, <2>7, <2>8 DEF SavesOK
<1>2. ASSUME NEW m \in Members, DiscardDraft(m) PROVE SavesOK'
  <2>1. \A k \in Members : draft'[k] # Null => draft'[k] = draft[k]
    BY <1>2, <1>0 DEF DiscardDraft, Rest
  <2>2. saves' = saves /\ from' = from /\ session' = session
    BY <1>2 DEF DiscardDraft, rowVars
  <2> QED
    BY <2>1, <2>2, <1>a, Zenon
<1>3. ASSUME NEW m \in Members, NEW S \in SUBSET Events, ReplaceForUser(m, S) PROVE SavesOK'
  BY <1>3, <1>a, Zenon DEF ReplaceForUser, draftVars, planVars, rowVars, lockVars
<1>4. ASSUME NEW e \in Events, Archive(e) PROVE SavesOK'
  BY <1>4, <1>a, Zenon DEF Archive, draftVars, planVars, rowVars, lockVars
<1>5. ASSUME NEW e \in Events, BuyPass(e) PROVE SavesOK'
  BY <1>5, <1>a, Zenon DEF BuyPass, draftVars, planVars, rowVars, lockVars
<1>6. ASSUME ChangePlan PROVE SavesOK'
  BY <1>6, <1>a, Zenon DEF ChangePlan, draftVars, planVars, rowVars, lockVars
<1>7. ASSUME NEW s \in Sessions, NEW m \in Members, DraftRead(s, m) PROVE SavesOK'
  <2>1. session' = [session EXCEPT ![s] = Session("draft", m, Null, draft[m], 0, FALSE)] /\ draft[m] # Null
        /\ saves' = saves /\ from' = from /\ draft' = draft
    BY <1>7 DEF DraftRead, Become, rowVars
  <2>2. \A t \in Sessions : (t # s => session'[t] = session[t]) /\ (t = s => session'[t].save = draft[m] /\ session'[t].by = m)
    BY <2>1, <1>0 DEF Session
  <2>3. \A t \in Sessions : session'[t].save # Null => session'[t].save.save <= saves'
    <3>1. draft[m].save <= saves
      BY <2>1 DEF SavesOK
    <3>2. \A t \in Sessions : session[t].save # Null => session[t].save.save <= saves
      BY DEF SavesOK
    <3> QED
      BY <2>1, <2>2, <3>1, <3>2
  <2>4. \A t \in Sessions, k \in Members :
           session'[t].save # Null /\ draft'[k] # Null /\ draft'[k].save = session'[t].save.save =>
               session'[t].by = k /\ draft'[k].id = session'[t].save.id
    <3> SUFFICES ASSUME NEW t \in Sessions, NEW k \in Members, session'[t].save # Null, draft'[k] # Null,
                        draft'[k].save = session'[t].save.save
                 PROVE  session'[t].by = k /\ draft'[k].id = session'[t].save.id
      OBVIOUS
    <3>1. CASE t = s
      <4>1. draft[m] # Null /\ draft[k] # Null /\ draft[k].save = draft[m].save
        BY <2>1, <2>2, <3>1
      <4>2. k = m
        BY <4>1 DEF SavesOK
      <4> QED
        BY <4>2, <2>1, <2>2, <3>1
    <3>2. CASE t # s
      BY <3>2, <2>1, <2>2 DEF SavesOK
    <3> QED
      BY <3>1, <3>2
  <2> QED
    BY <2>1, <2>3, <2>4 DEF SavesOK
<1>8. ASSUME NEW s \in Sessions, NEW m \in Members, CreateRead(s, m) PROVE SavesOK'
  <2>1. session' = [session EXCEPT ![s] = Session("create", m, Null, Null, CountActive, FALSE)]
    BY <1>8 DEF CreateRead, Become
  <2>2. \A t \in Sessions : session'[t].save = Null \/ (session'[t].save = session[t].save /\ session'[t].by = session[t].by)
    BY <2>1, <1>0, <1>8 DEF Jobs, Session, NoSession, Busy, CreateRead
  <2>3. saves' = saves /\ from' = from /\ \A k \in Members : draft'[k] # Null => draft'[k] = draft[k]
    BY <1>8, <1>0 DEF CreateRead, draftVars, planVars, rowVars, lockVars, Busy, Rest, NewEvent
  <2> QED
    BY <2>2, <2>3, <1>a
<1>9. ASSUME NEW s \in Sessions, DraftCount(s) PROVE SavesOK'
  <2>1. session' = [session EXCEPT ![s] = [session[s] EXCEPT !.op = "create", !.count = CountActive]]
    BY <1>9 DEF DraftCount, Become
  <2>2. \A t \in Sessions : session'[t].save = Null \/ (session'[t].save = session[t].save /\ session'[t].by = session[t].by)
    BY <2>1, <1>0, <1>9 DEF Jobs, Session, NoSession, Busy, DraftCount
  <2>3. saves' = saves /\ from' = from /\ \A k \in Members : draft'[k] # Null => draft'[k] = draft[k]
    BY <1>9, <1>0 DEF DraftCount, draftVars, planVars, rowVars, lockVars, Busy, Rest, NewEvent
  <2> QED
    BY <2>2, <2>3, <1>a
<1>10. ASSUME NEW s \in Sessions, LockRead(s) PROVE SavesOK'
  <2>1. session' = [session EXCEPT ![s] = [session[s] EXCEPT !.op = "insert", !.locked = Locked(session[s].by)]]
    BY <1>10 DEF LockRead, Become
  <2>2. \A t \in Sessions : session'[t].save = Null \/ (session'[t].save = session[t].save /\ session'[t].by = session[t].by)
    BY <2>1, <1>0, <1>10 DEF Jobs, Session, NoSession, Busy, LockRead
  <2>3. saves' = saves /\ from' = from /\ \A k \in Members : draft'[k] # Null => draft'[k] = draft[k]
    BY <1>10, <1>0 DEF LockRead, draftVars, planVars, rowVars, lockVars, Busy, Rest, NewEvent
  <2> QED
    BY <2>2, <2>3, <1>a
<1>11. ASSUME NEW s \in Sessions, DraftDelete(s) PROVE SavesOK'
  <2>1. session' = [session EXCEPT ![s] = NoSession]
    BY <1>11 DEF DraftDelete, Become
  <2>2. \A t \in Sessions : session'[t].save = Null \/ (session'[t].save = session[t].save /\ session'[t].by = session[t].by)
    BY <2>1, <1>0, <1>11 DEF Jobs, Session, NoSession, Busy, DraftDelete
  <2>3. saves' = saves /\ from' = from /\ \A k \in Members : draft'[k] # Null => draft'[k] = draft[k]
    BY <1>11, <1>0 DEF DraftDelete, draftVars, planVars, rowVars, lockVars, Busy, Rest, NewEvent
  <2> QED
    BY <2>2, <2>3, <1>a
<1>12. ASSUME NEW s \in Sessions, Restore(s) PROVE SavesOK'
  <2>1. session' = [session EXCEPT ![s] = NoSession]
    BY <1>12 DEF Restore, Become
  <2>2. \A t \in Sessions : session'[t].save = Null \/ (session'[t].save = session[t].save /\ session'[t].by = session[t].by)
    BY <2>1, <1>0, <1>12 DEF Jobs, Session, NoSession, Busy, Restore
  <2>3. saves' = saves /\ from' = from /\ \A k \in Members : draft'[k] # Null => draft'[k] = draft[k]
    BY <1>12, <1>0 DEF Restore, draftVars, planVars, rowVars, lockVars, Busy, Rest, NewEvent
  <2> QED
    BY <2>2, <2>3, <1>a
<1>13. ASSUME NEW s \in Sessions, Stop(s) PROVE SavesOK'
  <2>1. session' = [session EXCEPT ![s] = NoSession]
    BY <1>13 DEF Stop, Become
  <2>2. \A t \in Sessions : session'[t].save = Null \/ (session'[t].save = session[t].save /\ session'[t].by = session[t].by)
    BY <2>1, <1>0, <1>13 DEF Jobs, Session, NoSession, Busy, Stop
  <2>3. saves' = saves /\ from' = from /\ \A k \in Members : draft'[k] # Null => draft'[k] = draft[k]
    BY <1>13, <1>0 DEF Stop, draftVars, planVars, rowVars, lockVars, Busy, Rest, NewEvent
  <2> QED
    BY <2>2, <2>3, <1>a
<1>14. ASSUME NEW s \in Sessions, NEW e \in Events, Create(s, e) PROVE SavesOK'
  <2>1. session' = [session EXCEPT ![s] = NoSession]
    BY <1>14 DEF Create, Become
  <2>2. \A t \in Sessions : session'[t].save = Null \/ (session'[t].save = session[t].save /\ session'[t].by = session[t].by)
    BY <2>1, <1>0, <1>14 DEF Jobs, Session, NoSession, Busy, Create
  <2>3. saves' = saves /\ from' = from /\ \A k \in Members : draft'[k] # Null => draft'[k] = draft[k]
    BY <1>14, <1>0 DEF Create, draftVars, planVars, rowVars, lockVars, Busy, Rest, NewEvent
  <2> QED
    BY <2>2, <2>3, <1>a
<1>15. ASSUME NEW s \in Sessions, NEW e \in Events, Materialize(s, e) PROVE SavesOK'
  <2>1. session' = [session EXCEPT ![s] = [session[s] EXCEPT !.op = "delete"]] /\ session[s].save # Null
        /\ saves' = saves /\ draft' = draft /\ from' = [from EXCEPT ![e] = session[s].save.save]
    BY <1>15 DEF Materialize, Become, NewEvent, draftVars
  <2>2. \A t \in Sessions : session'[t].save = session[t].save /\ session'[t].by = session[t].by
    BY <2>1, <1>0 DEF Jobs
  <2>3. \A f \in Events : from'[f] = from[f] \/ from'[f] = session[s].save.save
    BY <2>1, <1>0 DEF Rest
  <2>4. \A f \in Events : from'[f] # Null => from'[f] <= saves'
    BY <2>1, <2>3 DEF SavesOK
  <2> QED
    BY <2>1, <2>2, <2>4 DEF SavesOK
<1>16. ASSUME NEW s \in Sessions, NEW e \in Events, RestoreRead(s, e) PROVE SavesOK'
  <2>1. session' = [session EXCEPT ![s] = Session("restore", Null, e, Null, CountActive, FALSE)]
    BY <1>16 DEF RestoreRead, Become
  <2>2. \A t \in Sessions : session'[t].save = Null \/ (session'[t].save = session[t].save /\ session'[t].by = session[t].by)
    BY <2>1, <1>0, <1>16 DEF Jobs, Session, NoSession, Busy, RestoreRead
  <2>3. saves' = saves /\ from' = from /\ \A k \in Members : draft'[k] # Null => draft'[k] = draft[k]
    BY <1>16, <1>0 DEF RestoreRead, draftVars, planVars, rowVars, lockVars, Busy, Rest, NewEvent
  <2> QED
    BY <2>2, <2>3, <1>a
<1>17. CASE UNCHANGED creationVars
  BY <1>17, <1>a, Zenon DEF creationVars
<1> QED
  BY <1>1, <1>2, <1>3, <1>4, <1>5, <1>6, <1>7, <1>8, <1>9, <1>10, <1>11, <1>12, <1>13, <1>14, <1>15, <1>16, <1>17, Zenon DEF CreationNext


\* An event is made from the save its request read, which no other request has
\* unless it is torn.
LEMMA CreationNextMaking ==
    CreationTypeOK /\ JobsOK /\ SavesOK /\ MakingOK /\ OneEventPerSave /\ [CreationNext]_creationVars => MakingOK' /\ OneEventPerSave'
<1> SUFFICES ASSUME CreationTypeOK, JobsOK, SavesOK, MakingOK, OneEventPerSave, [CreationNext]_creationVars
             PROVE  MakingOK' /\ OneEventPerSave'
  OBVIOUS
<1>0. Rest /\ session \in [Sessions -> Jobs] /\ (\A t \in Sessions : JobOK(session[t]))
  BY DEF CreationTypeOK, Jobs, Rest, JobsOK
<1>b. ASSUME torn \subseteq torn', from' = from PROVE OneEventPerSave'
  BY <1>b DEF OneEventPerSave
<1>a. ASSUME torn \subseteq torn', from' = from, \A k \in Members : draft'[k] # Null => draft'[k] = draft[k],
             \A t \in Sessions : (session'[t].save = Null \/ (session'[t].save = session[t].save /\ (session'[t].op = "delete" => session[t].op = "delete"))) /\ (session[t].op = "delete" => session'[t] = session[t])
      PROVE  MakingOK' /\ OneEventPerSave'
  <2>1. ASSUME NEW t \in Sessions, NEW u \in Sessions, t # u, session'[t].save # Null, session'[u].save # Null,
               session'[t].save.save = session'[u].save.save
        PROVE  session'[t].save.save \in torn'
    <3>1. session'[t].save = session[t].save /\ session'[u].save = session[u].save
      BY <2>1, <1>a, Zenon
    <3>2. session[t].save.save \in torn
      BY <3>1, <2>1 DEF MakingOK
    <3> QED
      BY <3>1, <3>2, <1>a, Zenon
  <2>2. ASSUME NEW t \in Sessions, NEW f \in Events, session'[t].op # "delete", session'[t].save # Null, from'[f] = session'[t].save.save
        PROVE  from'[f] \in torn'
    <3>1. session'[t].save = session[t].save /\ session[t].op # "delete"
      BY <2>2, <1>a, Zenon
    <3>2. from[f] \in torn
      BY <3>1, <2>2, <1>a DEF MakingOK
    <3> QED
      BY <3>2, <1>a, Zenon
  <2>3. ASSUME NEW f \in Events, NEW k \in Members, from'[f] # Null, draft'[k] # Null, draft'[k].save = from'[f], from'[f] \notin torn'
        PROVE  \E t \in Sessions : session'[t].op = "delete" /\ session'[t].save.save = from'[f]
    <3>1. from[f] # Null /\ draft[k] # Null /\ draft[k].save = from[f] /\ from[f] \notin torn
      BY <2>3, <1>a, Zenon
    <3>2. PICK t \in Sessions : session[t].op = "delete" /\ session[t].save.save = from[f]
      BY <3>1 DEF MakingOK
    <3>3. session'[t] = session[t]
      BY <3>2, <1>a, Zenon
    <3> QED
      BY <3>2, <3>3, <1>a, Zenon
  <2> QED
    BY <2>1, <2>2, <2>3, <1>a, <1>b DEF MakingOK
<1>1. ASSUME NEW m \in Members, SaveDraft(m) PROVE MakingOK' /\ OneEventPerSave'
  <2> DEFINE d == [id |-> IF draft[m] = Null THEN saves + 1 ELSE draft[m].id, save |-> saves + 1]
  <2>1. draft' = [draft EXCEPT ![m] = d] /\ session' = session /\ from' = from /\ torn' = torn /\ d.save = saves + 1
    BY <1>1 DEF SaveDraft, rowVars
  <2> HIDE DEF d
  <2>2. \A k \in Members : (k # m => draft'[k] = draft[k]) /\ (k = m => draft'[k] = d)
    BY <2>1, <1>0 DEF Rest
  <2>3. \A f \in Events : from[f] # Null => from[f] # d.save
    BY <2>1, <1>0, CreationAssumption DEF SavesOK, Rest
  <2>4. ASSUME NEW f \in Events, NEW k \in Members, from'[f] # Null, draft'[k] # Null, draft'[k].save = from'[f]
        PROVE  draft[k] # Null /\ draft[k].save = from[f]
    BY <2>4, <2>1, <2>2, <2>3, Zenon
  <2>5. MakingOK'
    BY <2>1, <2>4 DEF MakingOK
  <2> QED
    BY <2>5, <2>1, <1>b, Zenon
<1>2. ASSUME NEW m \in Members, DiscardDraft(m) PROVE MakingOK' /\ OneEventPerSave'
  <2>1. \A k \in Members : draft'[k] # Null => draft'[k] = draft[k]
    BY <1>2, <1>0 DEF DiscardDraft, Rest
  <2>2. torn' = torn /\ from' = from /\ session' = session
    BY <1>2 DEF DiscardDraft, rowVars
  <2> QED
    BY <2>1, <2>2, <1>a, Zenon
<1>3. ASSUME NEW m \in Members, NEW S \in SUBSET Events, ReplaceForUser(m, S) PROVE MakingOK' /\ OneEventPerSave'
  BY <1>3, <1>a, Zenon DEF ReplaceForUser, draftVars, planVars, rowVars, lockVars
<1>4. ASSUME NEW e \in Events, Archive(e) PROVE MakingOK' /\ OneEventPerSave'
  BY <1>4, <1>a, Zenon DEF Archive, draftVars, planVars, rowVars, lockVars
<1>5. ASSUME NEW e \in Events, BuyPass(e) PROVE MakingOK' /\ OneEventPerSave'
  BY <1>5, <1>a, Zenon DEF BuyPass, draftVars, planVars, rowVars, lockVars
<1>6. ASSUME ChangePlan PROVE MakingOK' /\ OneEventPerSave'
  BY <1>6, <1>a, Zenon DEF ChangePlan, draftVars, planVars, rowVars, lockVars
<1>7. ASSUME NEW s \in Sessions, NEW m \in Members, DraftRead(s, m) PROVE MakingOK' /\ OneEventPerSave'
  <2>1. session' = [session EXCEPT ![s] = Session("draft", m, Null, draft[m], 0, FALSE)] /\ draft[m] # Null
        /\ from' = from /\ draft' = draft /\ session[s].op = "idle"
        /\ torn' = IF \E t \in Sessions : session[t].save # Null /\ session[t].save.save = draft[m].save
                    THEN torn \cup {draft[m].save} ELSE torn
    BY <1>7 DEF DraftRead, Become, rowVars, Busy
  <2>2. torn \subseteq torn'
    BY <2>1, Zenon
  <2>3. \A t \in Sessions : (t # s => session'[t] = session[t]) /\ (t = s => session'[t].save = draft[m] /\ session'[t].op = "draft")
    BY <2>1, <1>0 DEF Session
  <2>4. ASSUME NEW t \in Sessions, session[t].save # Null, session[t].save.save = draft[m].save PROVE draft[m].save \in torn'
    BY <2>4, <2>1
  <2>5. ASSUME NEW t \in Sessions, NEW u \in Sessions, t # u, session'[t].save # Null, session'[u].save # Null,
               session'[t].save.save = session'[u].save.save
        PROVE  session'[t].save.save \in torn'
    <3>1. CASE t = s
      <4>1. session'[t].save = draft[m] /\ session[u].save # Null /\ session[u].save.save = draft[m].save
        BY <3>1, <2>3, <2>5
      <4> QED
        BY <4>1, <2>4
    <3>2. CASE u = s
      <4>1. session'[u].save = draft[m] /\ session[t].save # Null /\ session[t].save.save = draft[m].save
        BY <3>2, <2>3, <2>5
      <4> QED
        BY <4>1, <2>4, <2>5
    <3>3. CASE t # s /\ u # s
      <4>1. session[t].save.save \in torn
        BY <3>3, <2>3, <2>5 DEF MakingOK
      <4> QED
        BY <4>1, <3>3, <2>3, <2>2
    <3> QED
      BY <3>1, <3>2, <3>3
  <2>6. ASSUME NEW t \in Sessions, NEW f \in Events, session'[t].op # "delete", session'[t].save # Null, from'[f] = session'[t].save.save
        PROVE  from'[f] \in torn'
    <3>1. CASE t = s
      <4>1. from[f] = draft[m].save
        BY <3>1, <2>1, <2>3, <2>6
      <4>2. from[f] # Null
        BY <4>1, <2>1, <1>0, CreationAssumption DEF Rest, Drafts
      <4>3. CASE from[f] \in torn
        BY <4>3, <2>1, <2>2
      <4>4. CASE from[f] \notin torn
        <5>1. PICK u \in Sessions : session[u].op = "delete" /\ session[u].save.save = from[f]
          BY <4>1, <4>2, <4>4, <2>1 DEF MakingOK
        <5>2. session[u].save # Null
          BY <5>1, <1>0 DEF JobOK
        <5> QED
          BY <5>1, <5>2, <4>1, <2>1, <2>4
      <4> QED
        BY <4>3, <4>4
    <3>2. CASE t # s
      <4>1. from[f] \in torn
        BY <3>2, <2>1, <2>3, <2>6 DEF MakingOK
      <4> QED
        BY <4>1, <2>1, <2>2
    <3> QED
      BY <3>1, <3>2
  <2>7. ASSUME NEW f \in Events, NEW k \in Members, from'[f] # Null, draft'[k] # Null, draft'[k].save = from'[f], from'[f] \notin torn'
        PROVE  \E t \in Sessions : session'[t].op = "delete" /\ session'[t].save.save = from'[f]
    <3>1. PICK t \in Sessions : session[t].op = "delete" /\ session[t].save.save = from[f]
      BY <2>1, <2>2, <2>7 DEF MakingOK
    <3>2. session'[t] = session[t]
      BY <3>1, <2>1, <2>3
    <3> QED
      BY <3>1, <3>2, <2>1
  <2>8. MakingOK'
    BY <2>5, <2>6, <2>7 DEF MakingOK
  <2> QED
    BY <2>8, <2>1, <2>2, <1>b
<1>8. ASSUME NEW s \in Sessions, NEW m \in Members, CreateRead(s, m) PROVE MakingOK' /\ OneEventPerSave'
  <2>1. session' = [session EXCEPT ![s] = Session("create", m, Null, Null, CountActive, FALSE)]
    BY <1>8 DEF CreateRead, Become
  <2>2. \A t \in Sessions : (session'[t].save = Null \/ (session'[t].save = session[t].save /\ (session'[t].op = "delete" => session[t].op = "delete"))) /\ (session[t].op = "delete" => session'[t] = session[t])
    BY <2>1, <1>0, <1>8 DEF Jobs, Session, NoSession, Busy, CreateRead
  <2>3. torn \subseteq torn' /\ from' = from /\ \A k \in Members : draft'[k] # Null => draft'[k] = draft[k]
    BY <1>8, <1>0 DEF CreateRead, draftVars, planVars, rowVars, lockVars, Busy, Rest, NewEvent
  <2> QED
    BY <2>2, <2>3, <1>a
<1>9. ASSUME NEW s \in Sessions, DraftCount(s) PROVE MakingOK' /\ OneEventPerSave'
  <2>1. session' = [session EXCEPT ![s] = [session[s] EXCEPT !.op = "create", !.count = CountActive]]
    BY <1>9 DEF DraftCount, Become
  <2>2. \A t \in Sessions : (session'[t].save = Null \/ (session'[t].save = session[t].save /\ (session'[t].op = "delete" => session[t].op = "delete"))) /\ (session[t].op = "delete" => session'[t] = session[t])
    BY <2>1, <1>0, <1>9 DEF Jobs, Session, NoSession, Busy, DraftCount
  <2>3. torn \subseteq torn' /\ from' = from /\ \A k \in Members : draft'[k] # Null => draft'[k] = draft[k]
    BY <1>9, <1>0 DEF DraftCount, draftVars, planVars, rowVars, lockVars, Busy, Rest, NewEvent
  <2> QED
    BY <2>2, <2>3, <1>a
<1>10. ASSUME NEW s \in Sessions, LockRead(s) PROVE MakingOK' /\ OneEventPerSave'
  <2>1. session' = [session EXCEPT ![s] = [session[s] EXCEPT !.op = "insert", !.locked = Locked(session[s].by)]]
    BY <1>10 DEF LockRead, Become
  <2>2. \A t \in Sessions : (session'[t].save = Null \/ (session'[t].save = session[t].save /\ (session'[t].op = "delete" => session[t].op = "delete"))) /\ (session[t].op = "delete" => session'[t] = session[t])
    BY <2>1, <1>0, <1>10 DEF Jobs, Session, NoSession, Busy, LockRead
  <2>3. torn \subseteq torn' /\ from' = from /\ \A k \in Members : draft'[k] # Null => draft'[k] = draft[k]
    BY <1>10, <1>0 DEF LockRead, draftVars, planVars, rowVars, lockVars, Busy, Rest, NewEvent
  <2> QED
    BY <2>2, <2>3, <1>a
<1>11. ASSUME NEW s \in Sessions, DraftDelete(s) PROVE MakingOK' /\ OneEventPerSave'
  <2> DEFINE n == session[s].save.save
  <2>1. session' = [session EXCEPT ![s] = NoSession] /\ session[s].op = "delete" /\ session[s].save # Null
        /\ torn' = torn /\ from' = from
        /\ draft' = IF draft[session[s].by] # Null /\ draft[session[s].by].id = session[s].save.id
                     THEN [draft EXCEPT ![session[s].by] = Null] ELSE draft
    BY <1>11, <1>0 DEF DraftDelete, Become, Busy, JobOK, rowVars
  <2>2. \A t \in Sessions : (t # s => session'[t] = session[t]) /\ (t = s => session'[t].save = Null /\ session'[t].op = "idle")
    BY <2>1, <1>0 DEF NoSession, Session
  <2>3. \A k \in Members : draft'[k] # Null => draft'[k] = draft[k] /\ draft[k].save # n
    <3> SUFFICES ASSUME NEW k \in Members, draft'[k] # Null PROVE draft'[k] = draft[k] /\ draft[k].save # n
      OBVIOUS
    <3>1. draft'[k] = draft[k]
      BY <2>1, <1>0 DEF Rest
    <3>2. ASSUME draft[k].save = n PROVE FALSE
      <4>1. session[s].by = k /\ draft[k].id = session[s].save.id
        BY <2>1, <3>1, <3>2 DEF SavesOK
      <4>2. draft'[k] = Null
        BY <4>1, <3>1, <2>1, <1>0 DEF Rest
      <4> QED
        BY <4>2
    <3> QED
      BY <3>1, <3>2
  <2> HIDE DEF n
  <2>4. \A t, u \in Sessions :
           t # u /\ session'[t].save # Null /\ session'[u].save # Null /\ session'[t].save.save = session'[u].save.save =>
               session'[t].save.save \in torn'
    BY <2>1, <2>2 DEF MakingOK
  <2>5. \A t \in Sessions, f \in Events :
           session'[t].op # "delete" /\ session'[t].save # Null /\ from'[f] = session'[t].save.save => from'[f] \in torn'
    BY <2>1, <2>2 DEF MakingOK
  <2>6. ASSUME NEW f \in Events, NEW k \in Members, from'[f] # Null, draft'[k] # Null, draft'[k].save = from'[f], from'[f] \notin torn'
        PROVE  \E t \in Sessions : session'[t].op = "delete" /\ session'[t].save.save = from'[f]
    <3>1. PICK t \in Sessions : session[t].op = "delete" /\ session[t].save.save = from[f]
      BY <2>1, <2>3, <2>6 DEF MakingOK
    <3>2. t # s
      BY <3>1, <2>1, <2>3, <2>6 DEF n
    <3>3. session'[t] = session[t]
      BY <3>2, <2>2
    <3> QED
      BY <3>1, <3>3, <2>1
  <2>7. MakingOK'
    BY <2>4, <2>5, <2>6 DEF MakingOK
  <2> QED
    BY <2>7, <2>1, <1>b
<1>12. ASSUME NEW s \in Sessions, Restore(s) PROVE MakingOK' /\ OneEventPerSave'
  <2>1. session' = [session EXCEPT ![s] = NoSession]
    BY <1>12 DEF Restore, Become
  <2>2. \A t \in Sessions : (session'[t].save = Null \/ (session'[t].save = session[t].save /\ (session'[t].op = "delete" => session[t].op = "delete"))) /\ (session[t].op = "delete" => session'[t] = session[t])
    BY <2>1, <1>0, <1>12 DEF Jobs, Session, NoSession, Busy, Restore
  <2>3. torn \subseteq torn' /\ from' = from /\ \A k \in Members : draft'[k] # Null => draft'[k] = draft[k]
    BY <1>12, <1>0 DEF Restore, draftVars, planVars, rowVars, lockVars, Busy, Rest, NewEvent
  <2> QED
    BY <2>2, <2>3, <1>a
<1>13. ASSUME NEW s \in Sessions, Stop(s) PROVE MakingOK' /\ OneEventPerSave'
  <2>1. session' = [session EXCEPT ![s] = NoSession] /\ draft' = draft /\ from' = from
        /\ torn' = IF session[s].op = "delete" THEN torn \cup {session[s].save.save} ELSE torn
    BY <1>13 DEF Stop, Become, Busy, rowVars
  <2>2. \A t \in Sessions : (t # s => session'[t] = session[t]) /\ (t = s => session'[t].save = Null /\ session'[t].op = "idle")
    BY <2>1, <1>0 DEF NoSession, Session
  <2>3. torn \subseteq torn'
    BY <2>1
  <2>4. \A t, u \in Sessions :
           t # u /\ session'[t].save # Null /\ session'[u].save # Null /\ session'[t].save.save = session'[u].save.save =>
               session'[t].save.save \in torn'
    BY <2>1, <2>2, <2>3 DEF MakingOK
  <2>5. \A t \in Sessions, f \in Events :
           session'[t].op # "delete" /\ session'[t].save # Null /\ from'[f] = session'[t].save.save => from'[f] \in torn'
    BY <2>1, <2>2, <2>3 DEF MakingOK
  <2>6. ASSUME NEW f \in Events, NEW k \in Members, from'[f] # Null, draft'[k] # Null, draft'[k].save = from'[f], from'[f] \notin torn'
        PROVE  \E t \in Sessions : session'[t].op = "delete" /\ session'[t].save.save = from'[f]
    <3>1. PICK t \in Sessions : session[t].op = "delete" /\ session[t].save.save = from[f]
      BY <2>1, <2>3, <2>6 DEF MakingOK
    <3>2. t # s
      BY <3>1, <2>1, <2>6
    <3>3. session'[t] = session[t]
      BY <3>2, <2>2
    <3> QED
      BY <3>1, <3>3, <2>1
  <2>7. MakingOK'
    BY <2>4, <2>5, <2>6 DEF MakingOK
  <2> QED
    BY <2>7, <2>1, <2>3, <1>b
<1>14. ASSUME NEW s \in Sessions, NEW e \in Events, Create(s, e) PROVE MakingOK' /\ OneEventPerSave'
  <2>1. session' = [session EXCEPT ![s] = NoSession]
    BY <1>14 DEF Create, Become
  <2>2. \A t \in Sessions : (session'[t].save = Null \/ (session'[t].save = session[t].save /\ (session'[t].op = "delete" => session[t].op = "delete"))) /\ (session[t].op = "delete" => session'[t] = session[t])
    BY <2>1, <1>0, <1>14 DEF Jobs, Session, NoSession, Busy, Create
  <2>3. torn \subseteq torn' /\ from' = from /\ \A k \in Members : draft'[k] # Null => draft'[k] = draft[k]
    BY <1>14, <1>0 DEF Create, draftVars, planVars, rowVars, lockVars, Busy, Rest, NewEvent
  <2> QED
    BY <2>2, <2>3, <1>a
<1>15. ASSUME NEW s \in Sessions, NEW e \in Events, Materialize(s, e) PROVE MakingOK' /\ OneEventPerSave'
  <2> DEFINE n == session[s].save.save
  <2>1. session' = [session EXCEPT ![s] = [session[s] EXCEPT !.op = "delete"]] /\ session[s].save # Null /\ session[s].op = "insert"
        /\ torn' = torn /\ draft' = draft /\ from' = [from EXCEPT ![e] = n]
    BY <1>15 DEF Materialize, Become, NewEvent, draftVars, Busy
  <2>2. \A t \in Sessions : session'[t].save = session[t].save /\ (t # s => session'[t] = session[t]) /\ (t = s => session'[t].op = "delete")
    BY <2>1, <1>0 DEF Jobs
  <2>3. \A f \in Events : (f # e => from'[f] = from[f]) /\ (f = e => from'[f] = n)
    BY <2>1, <1>0 DEF Rest
  <2>4. \A f \in Events : from[f] = n => n \in torn
    BY <2>1 DEF MakingOK
  <2>5. \A t \in Sessions : t # s /\ session[t].save # Null /\ session[t].save.save = n => n \in torn
    BY <2>1 DEF MakingOK
  <2> HIDE DEF n
  <2>6. \A t, u \in Sessions :
           t # u /\ session'[t].save # Null /\ session'[u].save # Null /\ session'[t].save.save = session'[u].save.save =>
               session'[t].save.save \in torn'
    BY <2>1, <2>2 DEF MakingOK
  <2>7. ASSUME NEW t \in Sessions, NEW f \in Events, session'[t].op # "delete", session'[t].save # Null, from'[f] = session'[t].save.save
        PROVE  from'[f] \in torn'
    <3>1. t # s /\ session'[t] = session[t]
      BY <2>2, <2>7
    <3>2. CASE f = e
      BY <3>1, <3>2, <2>1, <2>3, <2>5, <2>7
    <3>3. CASE f # e
      BY <3>1, <3>3, <2>1, <2>3, <2>7 DEF MakingOK
    <3> QED
      BY <3>2, <3>3
  <2>8. ASSUME NEW f \in Events, NEW k \in Members, from'[f] # Null, draft'[k] # Null, draft'[k].save = from'[f], from'[f] \notin torn'
        PROVE  \E t \in Sessions : session'[t].op = "delete" /\ session'[t].save.save = from'[f]
    <3>1. CASE f = e
      <4>1. session'[s].op = "delete" /\ session'[s].save.save = from'[f]
        BY <3>1, <2>2, <2>3 DEF n
      <4> QED
        BY <4>1, Zenon
    <3>2. CASE f # e
      <4>1. PICK t \in Sessions : session[t].op = "delete" /\ session[t].save.save = from[f]
        BY <3>2, <2>1, <2>3, <2>8 DEF MakingOK
      <4>2. session'[t] = session[t]
        BY <4>1, <2>1, <2>2
      <4> QED
        BY <4>1, <4>2, <3>2, <2>3, Zenon
    <3> QED
      BY <3>1, <3>2
  <2>9. OneEventPerSave'
    <3> SUFFICES ASSUME NEW f \in Events, NEW g \in Events, from'[f] # Null, from'[f] = from'[g], from'[f] \notin torn' PROVE f = g
      BY DEF OneEventPerSave
    <3> QED
      BY <2>1, <2>3, <2>4 DEF OneEventPerSave
  <2>10. MakingOK'
    BY <2>6, <2>7, <2>8 DEF MakingOK
  <2> QED
    BY <2>9, <2>10
<1>16. ASSUME NEW s \in Sessions, NEW e \in Events, RestoreRead(s, e) PROVE MakingOK' /\ OneEventPerSave'
  <2>1. session' = [session EXCEPT ![s] = Session("restore", Null, e, Null, CountActive, FALSE)]
    BY <1>16 DEF RestoreRead, Become
  <2>2. \A t \in Sessions : (session'[t].save = Null \/ (session'[t].save = session[t].save /\ (session'[t].op = "delete" => session[t].op = "delete"))) /\ (session[t].op = "delete" => session'[t] = session[t])
    BY <2>1, <1>0, <1>16 DEF Jobs, Session, NoSession, Busy, RestoreRead
  <2>3. torn \subseteq torn' /\ from' = from /\ \A k \in Members : draft'[k] # Null => draft'[k] = draft[k]
    BY <1>16, <1>0 DEF RestoreRead, draftVars, planVars, rowVars, lockVars, Busy, Rest, NewEvent
  <2> QED
    BY <2>2, <2>3, <1>a
<1>17. CASE UNCHANGED creationVars
  BY <1>17, <1>a, Zenon DEF creationVars
<1> QED
  BY <1>1, <1>2, <1>3, <1>4, <1>5, <1>6, <1>7, <1>8, <1>9, <1>10, <1>11, <1>12, <1>13, <1>14, <1>15, <1>16, <1>17, Zenon DEF CreationNext


\* A member nobody was assigned for stays unlocked, and the creator of a
\* settled event is unlocked or has it in their list.
LEMMA CreationNextLocks ==
    CreationTypeOK /\ JobsOK /\ LocksOK /\ AccessAsGiven /\ [CreationNext]_creationVars => LocksOK' /\ AccessAsGiven'
<1> SUFFICES ASSUME CreationTypeOK, JobsOK, LocksOK, AccessAsGiven, [CreationNext]_creationVars
             PROVE  LocksOK' /\ AccessAsGiven'
  OBVIOUS
<1>0. Rest /\ session \in [Sessions -> Jobs] /\ (\A t \in Sessions : JobOK(session[t]))
  BY DEF CreationTypeOK, Jobs, Rest, JobsOK
<1>1a. /\ \A t \in Sessions : session[t].op = "insert" /\ session[t].locked => session[t].by \in asked
       /\ \A f \in settled : row[f] # "none" /\ creator[f] \in Members
       /\ \A k \in Members \ asked : assigned[k] = {}
       /\ \A f \in settled : assigned[creator[f]] # {} => f \in assigned[creator[f]]
  BY DEF LocksOK, AccessAsGiven, Locked, CanOpen
<1>2a. ASSUME /\ \A t \in Sessions : session'[t].op = "insert" /\ session'[t].locked => session'[t].by \in asked'
              /\ \A f \in settled' : row'[f] # "none" /\ creator'[f] \in Members
              /\ \A k \in Members \ asked' : assigned'[k] = {}
              /\ \A f \in settled' : assigned'[creator'[f]] # {} => f \in assigned'[creator'[f]]
       PROVE  LocksOK' /\ AccessAsGiven'
  BY <1>2a DEF LocksOK, AccessAsGiven, Locked, CanOpen
<1>a. ASSUME \A t \in Sessions : session'[t].op # "insert" \/ session'[t] = session[t],
             asked' = asked, assigned' = assigned, settled' = settled, creator' = creator,
             \A f \in Events : row[f] # "none" => row'[f] # "none"
      PROVE  LocksOK' /\ AccessAsGiven'
  BY <1>a, <1>0, <1>1a, <1>2a DEF Rest
<1>b. ASSUME NEW s \in Sessions, NEW e \in Events, session[s].op = "insert", NewEvent(s, e),
             \A t \in Sessions : session'[t].op # "insert" \/ session'[t] = session[t]
      PROVE  LocksOK' /\ AccessAsGiven'
  <2> DEFINE j == session[s]
  <2>1. /\ row[e] = "none" /\ row' = [row EXCEPT ![e] = "live"] /\ creator' = [creator EXCEPT ![e] = j.by]
        /\ assigned' = IF j.locked THEN [assigned EXCEPT ![j.by] = @ \cup {e}] ELSE assigned
        /\ settled' = SettledWith(e, j) /\ asked' = asked
    BY <1>b DEF NewEvent
  <2>2. j.by \in Members /\ j.locked \in BOOLEAN /\ (j.locked => j.by \in asked)
    BY <1>b, <1>0, <1>1a DEF Jobs, JobOK
  <2>3. settled' \subseteq settled \cup {e}
    BY <2>1 DEF SettledWith
  <2>4. e \notin settled
    BY <2>1, <1>1a
  <2>5. \A f \in settled : f \in Events /\ creator'[f] = creator[f] /\ row'[f] = row[f]
    BY <2>1, <2>4, <1>0 DEF Rest
  <2>6. creator'[e] = j.by /\ row'[e] = "live"
    BY <2>1, <1>0 DEF Rest
  <2>7. \A f \in settled' : row'[f] # "none" /\ creator'[f] \in Members
    BY <2>2, <2>3, <2>5, <2>6, <1>1a
  <2>8. \A k \in Members : (k # j.by \/ ~j.locked => assigned'[k] = assigned[k]) /\ (k = j.by /\ j.locked => assigned'[k] = assigned[k] \cup {e})
    BY <2>1, <2>2, <1>0 DEF Rest
  <2>9. \A k \in Members \ asked' : assigned'[k] = {}
    BY <2>1, <2>2, <2>8, <1>1a
  <2>10. ASSUME NEW f \in settled', assigned'[creator'[f]] # {} PROVE f \in assigned'[creator'[f]]
    <3>1. CASE f = e
      <4>1. CASE j.locked
        BY <3>1, <4>1, <2>2, <2>6, <2>8
      <4>2. CASE ~j.locked
        <5>1. assigned'[j.by] = assigned[j.by] /\ Locked(j.by)
          BY <3>1, <4>2, <2>2, <2>6, <2>8, <2>10 DEF Locked
        <5>2. e \notin settled'
          BY <5>1, <4>2, <2>1, <2>4 DEF SettledWith
        <5> QED
          BY <5>2, <3>1, <2>10
      <4> QED
        BY <4>1, <4>2, <2>2
    <3>2. CASE f # e
      <4>1. f \in settled /\ creator'[f] = creator[f] /\ creator[f] \in Members
        BY <3>2, <2>3, <2>5, <2>10, <1>1a
      <4>2. CASE assigned[creator[f]] # {}
        BY <4>1, <4>2, <2>8, <1>1a
      <4>3. CASE assigned[creator[f]] = {}
        <5>1. creator[f] = j.by /\ j.locked
          BY <4>1, <4>3, <2>2, <2>8, <2>10
        <5>2. ~Locked(j.by)
          BY <5>1, <4>3 DEF Locked
        <5>3. f \notin settled'
          BY <5>1, <5>2, <2>1 DEF SettledWith
        <5> QED
          BY <5>3, <2>10
      <4> QED
        BY <4>2, <4>3
    <3> QED
      BY <3>1, <3>2
  <2>11. \A t \in Sessions : session'[t].op = "insert" /\ session'[t].locked => session'[t].by \in asked'
    BY <1>b, <2>1, <1>1a
  <2> QED
    BY <2>7, <2>9, <2>10, <2>11, <1>2a
<1>1. ASSUME NEW m \in Members, SaveDraft(m) PROVE LocksOK' /\ AccessAsGiven'
  BY <1>1, <1>a, Zenon DEF SaveDraft, draftVars, planVars, rowVars, lockVars
<1>2. ASSUME NEW m \in Members, DiscardDraft(m) PROVE LocksOK' /\ AccessAsGiven'
  BY <1>2, <1>a, Zenon DEF DiscardDraft, draftVars, planVars, rowVars, lockVars
<1>3. ASSUME NEW m \in Members, NEW S \in SUBSET Events, ReplaceForUser(m, S) PROVE LocksOK' /\ AccessAsGiven'
  <2>1. /\ assigned' = [assigned EXCEPT ![m] = S] /\ asked' = asked \cup {m} /\ settled' = {f \in settled : creator[f] # m}
        /\ session' = session /\ row' = row /\ creator' = creator
    BY <1>3 DEF ReplaceForUser, rowVars
  <2>2. \A k \in Members : k # m => assigned'[k] = assigned[k]
    BY <2>1, <1>0 DEF Rest
  <2> QED
    BY <2>1, <2>2, <1>1a, <1>2a
<1>4. ASSUME NEW e \in Events, Archive(e) PROVE LocksOK' /\ AccessAsGiven'
  <2>1. \A f \in Events : row[f] # "none" => row'[f] # "none"
    BY <1>4, <1>0 DEF Archive, Rest
  <2>2. session' = session /\ asked' = asked /\ assigned' = assigned /\ settled' = settled /\ creator' = creator
    BY <1>4 DEF Archive, lockVars
  <2> QED
    BY <2>1, <2>2, <1>a, Zenon
<1>5. ASSUME NEW e \in Events, BuyPass(e) PROVE LocksOK' /\ AccessAsGiven'
  BY <1>5, <1>a, Zenon DEF BuyPass, draftVars, planVars, rowVars, lockVars
<1>6. ASSUME ChangePlan PROVE LocksOK' /\ AccessAsGiven'
  BY <1>6, <1>a, Zenon DEF ChangePlan, draftVars, planVars, rowVars, lockVars
<1>7. ASSUME NEW s \in Sessions, NEW m \in Members, DraftRead(s, m) PROVE LocksOK' /\ AccessAsGiven'
  <2>1. session' = [session EXCEPT ![s] = Session("draft", m, Null, draft[m], 0, FALSE)]
    BY <1>7 DEF DraftRead, Become
  <2>2. \A t \in Sessions : session'[t].op # "insert" \/ session'[t] = session[t]
    BY <2>1, <1>0, <1>7 DEF Jobs, Session, NoSession
  <2>3. asked' = asked /\ assigned' = assigned /\ settled' = settled /\ creator' = creator /\ (\A e_1 \in Events : row[e_1] # "none" => row'[e_1] # "none")
    BY <1>7, <1>0 DEF DraftRead, rowVars, lockVars, Rest
  <2> QED
    BY <2>2, <2>3, <1>a
<1>8. ASSUME NEW s \in Sessions, NEW m \in Members, CreateRead(s, m) PROVE LocksOK' /\ AccessAsGiven'
  <2>1. session' = [session EXCEPT ![s] = Session("create", m, Null, Null, CountActive, FALSE)]
    BY <1>8 DEF CreateRead, Become
  <2>2. \A t \in Sessions : session'[t].op # "insert" \/ session'[t] = session[t]
    BY <2>1, <1>0, <1>8 DEF Jobs, Session, NoSession
  <2>3. asked' = asked /\ assigned' = assigned /\ settled' = settled /\ creator' = creator /\ (\A e_1 \in Events : row[e_1] # "none" => row'[e_1] # "none")
    BY <1>8, <1>0 DEF CreateRead, rowVars, lockVars, Rest
  <2> QED
    BY <2>2, <2>3, <1>a
<1>9. ASSUME NEW s \in Sessions, DraftCount(s) PROVE LocksOK' /\ AccessAsGiven'
  <2>1. session' = [session EXCEPT ![s] = [session[s] EXCEPT !.op = "create", !.count = CountActive]]
    BY <1>9 DEF DraftCount, Become
  <2>2. \A t \in Sessions : session'[t].op # "insert" \/ session'[t] = session[t]
    BY <2>1, <1>0, <1>9 DEF Jobs, Session, NoSession
  <2>3. asked' = asked /\ assigned' = assigned /\ settled' = settled /\ creator' = creator /\ (\A e_1 \in Events : row[e_1] # "none" => row'[e_1] # "none")
    BY <1>9, <1>0 DEF DraftCount, rowVars, lockVars, Rest
  <2> QED
    BY <2>2, <2>3, <1>a
<1>10. ASSUME NEW s \in Sessions, LockRead(s) PROVE LocksOK' /\ AccessAsGiven'
  <2>1. session' = [session EXCEPT ![s] = [session[s] EXCEPT !.op = "insert", !.locked = Locked(session[s].by)]] /\ session[s].op = "create"
        /\ asked' = asked /\ assigned' = assigned /\ settled' = settled /\ creator' = creator /\ row' = row
    BY <1>10 DEF LockRead, Become, Busy, rowVars, lockVars
  <2>2. session[s].by \in Members
    BY <2>1, <1>0 DEF JobOK
  <2>3. \A t \in Sessions : (t # s => session'[t] = session[t]) /\ (t = s => session'[t].locked = Locked(session[s].by) /\ session'[t].by = session[s].by)
    BY <2>1, <1>0 DEF Jobs
  <2>4. Locked(session[s].by) => session[s].by \in asked
    BY <2>2, <1>1a DEF Locked
  <2>5. \A t \in Sessions : session'[t].op = "insert" /\ session'[t].locked => session'[t].by \in asked'
    BY <2>1, <2>3, <2>4, <1>1a
  <2> QED
    BY <2>1, <2>5, <1>1a, <1>2a
<1>11. ASSUME NEW s \in Sessions, DraftDelete(s) PROVE LocksOK' /\ AccessAsGiven'
  <2>1. session' = [session EXCEPT ![s] = NoSession]
    BY <1>11 DEF DraftDelete, Become
  <2>2. \A t \in Sessions : session'[t].op # "insert" \/ session'[t] = session[t]
    BY <2>1, <1>0, <1>11 DEF Jobs, Session, NoSession
  <2>3. asked' = asked /\ assigned' = assigned /\ settled' = settled /\ creator' = creator /\ (\A e_1 \in Events : row[e_1] # "none" => row'[e_1] # "none")
    BY <1>11, <1>0 DEF DraftDelete, rowVars, lockVars, Rest
  <2> QED
    BY <2>2, <2>3, <1>a
<1>12. ASSUME NEW s \in Sessions, Restore(s) PROVE LocksOK' /\ AccessAsGiven'
  <2>1. session' = [session EXCEPT ![s] = NoSession]
    BY <1>12 DEF Restore, Become
  <2>2. \A t \in Sessions : session'[t].op # "insert" \/ session'[t] = session[t]
    BY <2>1, <1>0, <1>12 DEF Jobs, Session, NoSession
  <2>3. asked' = asked /\ assigned' = assigned /\ settled' = settled /\ creator' = creator /\ (\A e_1 \in Events : row[e_1] # "none" => row'[e_1] # "none")
    BY <1>12, <1>0 DEF Restore, rowVars, lockVars, Rest
  <2> QED
    BY <2>2, <2>3, <1>a
<1>13. ASSUME NEW s \in Sessions, Stop(s) PROVE LocksOK' /\ AccessAsGiven'
  <2>1. session' = [session EXCEPT ![s] = NoSession]
    BY <1>13 DEF Stop, Become
  <2>2. \A t \in Sessions : session'[t].op # "insert" \/ session'[t] = session[t]
    BY <2>1, <1>0, <1>13 DEF Jobs, Session, NoSession
  <2>3. asked' = asked /\ assigned' = assigned /\ settled' = settled /\ creator' = creator /\ (\A e_1 \in Events : row[e_1] # "none" => row'[e_1] # "none")
    BY <1>13, <1>0 DEF Stop, rowVars, lockVars, Rest
  <2> QED
    BY <2>2, <2>3, <1>a
<1>14. ASSUME NEW s \in Sessions, NEW e \in Events, Create(s, e) PROVE LocksOK' /\ AccessAsGiven'
  <2>1. session' = [session EXCEPT ![s] = NoSession] /\ session[s].op = "insert" /\ NewEvent(s, e)
    BY <1>14 DEF Create, Become, Busy
  <2>2. \A t \in Sessions : session'[t].op # "insert" \/ session'[t] = session[t]
    BY <2>1, <1>0 DEF Jobs, Session, NoSession
  <2> QED
    BY <2>1, <2>2, <1>b
<1>15. ASSUME NEW s \in Sessions, NEW e \in Events, Materialize(s, e) PROVE LocksOK' /\ AccessAsGiven'
  <2>1. session' = [session EXCEPT ![s] = [session[s] EXCEPT !.op = "delete"]] /\ session[s].op = "insert" /\ NewEvent(s, e)
    BY <1>15 DEF Materialize, Become, Busy
  <2>2. \A t \in Sessions : session'[t].op # "insert" \/ session'[t] = session[t]
    BY <2>1, <1>0 DEF Jobs, Session, NoSession
  <2> QED
    BY <2>1, <2>2, <1>b
<1>16. ASSUME NEW s \in Sessions, NEW e \in Events, RestoreRead(s, e) PROVE LocksOK' /\ AccessAsGiven'
  <2>1. session' = [session EXCEPT ![s] = Session("restore", Null, e, Null, CountActive, FALSE)]
    BY <1>16 DEF RestoreRead, Become
  <2>2. \A t \in Sessions : session'[t].op # "insert" \/ session'[t] = session[t]
    BY <2>1, <1>0, <1>16 DEF Jobs, Session, NoSession
  <2>3. asked' = asked /\ assigned' = assigned /\ settled' = settled /\ creator' = creator /\ (\A e_1 \in Events : row[e_1] # "none" => row'[e_1] # "none")
    BY <1>16, <1>0 DEF RestoreRead, rowVars, lockVars, Rest
  <2> QED
    BY <2>2, <2>3, <1>a
<1>17. CASE UNCHANGED creationVars
  BY <1>17, <1>a, Zenon DEF creationVars
<1> QED
  BY <1>1, <1>2, <1>3, <1>4, <1>5, <1>6, <1>7, <1>8, <1>9, <1>10, <1>11, <1>12, <1>13, <1>14, <1>15, <1>16, <1>17, Zenon DEF CreationNext


CreationInv == CreationTypeOK /\ JobsOK /\ RoomLeft /\ ActiveWithinLimit /\ SavesOK /\ MakingOK /\ OneEventPerSave /\ LocksOK /\ AccessAsGiven

\* It holds of a tenant with no event, and every step keeps it.
LEMMA CreationInitInv == CreationInit => CreationInv
<1> SUFFICES ASSUME CreationInit PROVE CreationInv
  OBVIOUS
<1>1. \A s \in Sessions : session[s] = NoSession /\ NoSession.op = "idle" /\ NoSession.save = Null
  BY DEF CreationInit, NoSession, Session
<1>2. CreationTypeOK
  <2>1. session \in [Sessions -> Jobs]
    BY JobTypes DEF CreationInit
  <2>2. row \in [Events -> {"none", "live", "archived"}] /\ passed \subseteq Events
        /\ creator \in [Events -> Members \cup {Null}] /\ from \in [Events -> (1..MaxSaves) \cup {Null}]
    BY DEF CreationInit
  <2>3. assigned \in [Members -> SUBSET Events] /\ asked \subseteq Members /\ settled \subseteq Events
        /\ limit \in PlanLimits /\ over \in BOOLEAN
    BY DEF CreationInit
  <2>4. draft \in [Members -> Drafts \cup {Null}] /\ saves \in 0..MaxSaves /\ torn \subseteq 1..MaxSaves
    BY CreationAssumption DEF CreationInit
  <2> QED
    BY <2>1, <2>2, <2>3, <2>4, Zenon DEF CreationTypeOK, Jobs
<1>3. JobsOK /\ RoomLeft /\ SavesOK /\ MakingOK /\ LocksOK
  BY <1>1 DEF CreationInit, JobsOK, JobOK, RoomLeft, SavesOK, MakingOK, LocksOK
<1>4. ActiveWithinLimit
  <2>1. ActiveEvents = {}
    BY DEF CreationInit, ActiveEvents
  <2>2. CountActive = 0
    BY <2>1, FS_EmptySet DEF CountActive
  <2> QED
    BY <2>2, CreationAssumption DEF CreationInit, ActiveWithinLimit
<1>5. OneEventPerSave /\ AccessAsGiven
  BY DEF CreationInit, OneEventPerSave, AccessAsGiven, Locked
<1> QED
  BY <1>2, <1>3, <1>4, <1>5 DEF CreationInv

LEMMA CreationNextInv == CreationInv /\ [CreationNext]_creationVars => CreationInv'
<1> SUFFICES ASSUME CreationInv, [CreationNext]_creationVars PROVE CreationInv'
  OBVIOUS
<1>0. CreationTypeOK /\ JobsOK /\ RoomLeft /\ ActiveWithinLimit /\ SavesOK /\ MakingOK /\ OneEventPerSave /\ LocksOK /\ AccessAsGiven
  BY DEF CreationInv
<1>1. CreationTypeOK' /\ JobsOK'
  BY <1>0, CreationNextTypes
<1>2. RoomLeft' /\ ActiveWithinLimit'
  BY <1>0, <1>1, CreationNextRoom, CreationNextActive
<1>3. SavesOK' /\ MakingOK' /\ OneEventPerSave'
  BY <1>0, CreationNextSaves, CreationNextMaking
<1>4. LocksOK' /\ AccessAsGiven'
  BY <1>0, CreationNextLocks
<1> QED
  BY <1>1, <1>2, <1>3, <1>4 DEF CreationInv

\* For any tenant, plan and number of requests: the plan's limit on active
\* events, one event for a save, and the access members have, on top of what
\* the requests under way have read and how many are at a save.
THEOREM CreationInvariant == CreationSpec => []CreationInv
BY CreationInitInv, CreationNextInv, PTL DEF CreationSpec

\* The type invariant of a tenant's events, drafts, members and requests.
THEOREM CreationTypeCorrect == CreationSpec => []CreationTypeOK
<1>1. CreationInv => CreationTypeOK
  BY DEF CreationInv
<1> QED
  BY <1>1, CreationInvariant, PTL

\* However drafts are saved, turned into events, discarded and stopped half way,
\* a save becomes one event unless two requests were at it or one stopped
\* between its insert and its delete; and nobody is narrowed by what they or
\* others create, while a locked member can open what they created on a list
\* as it was read (event-draft.service.ts, event.service.ts).
THEOREM EventsAreAsAsked == CreationSpec => []CreatedAsAsked
<1>1. CreationInv => CreatedAsAsked
  BY DEF CreationInv, CreatedAsAsked
<1> QED
  BY <1>1, CreationInvariant, PTL

-----------------------------------------------------------------------------
(* Vendors: the inductive invariant.                                       *)
\* What the requests under way are about: a space, and one that is there when it
\* is to be restored; a creation of a tenant's was let through on a count below
\* the limit, as long as nothing is uncounted.
ErrandsOK ==
    \A c \in Clerks :
        /\ errand[c].op \in {"createSpace", "activate", "deactivate", "archiveSpace", "reactivateSpace"} => errand[c].on \in Spaces
        /\ errand[c].op = "reactivateSpace" => space[errand[c].on].state # "none"
        /\ errand[c].op = "createSpace" /\ errand[c].on \notin PlatformSpaces /\ ~uncounted =>
              errand[c].to \in Nat /\ errand[c].to < spaceLimit

SpaceRows == [state : {"none", "live", "archived"}, active : BOOLEAN]

MarketInv ==
    /\ space \in [Spaces -> SpaceRows] /\ spaceLimit \in SpaceLimits
    /\ DOMAIN errand = Clerks /\ uncounted \in BOOLEAN
    /\ ErrandsOK /\ SpacesWithinLimit

LiveSpaces == {s \in Spaces \ PlatformSpaces : space[s].state = "live"}

\* The spaces the limit is about are finitely many.
LEMMA LiveCount == CountActiveSpaces = Cardinality(LiveSpaces) /\ IsFiniteSet(LiveSpaces) /\ CountActiveSpaces \in Nat
<1>1. LiveSpaces \in SUBSET Spaces
  BY DEF LiveSpaces
<1>2. IsFiniteSet(LiveSpaces)
  BY <1>1, VendorsAssumption, FS_Subset
<1> QED
  BY <1>2, FS_CardinalityType DEF CountActiveSpaces, LiveSpaces

\* What else a step may do leaves the limit kept: the tenant has no live space
\* more, or one more than a count below the limit.
LEMMA LiveGrows ==
    ASSUME NEW s, LiveSpaces' \subseteq LiveSpaces \cup {s}
    PROVE  CountActiveSpaces' <= CountActiveSpaces + 1 /\ CountActiveSpaces' \in Nat
<1>1. IsFiniteSet(LiveSpaces) /\ CountActiveSpaces = Cardinality(LiveSpaces) /\ CountActiveSpaces \in Nat
  BY LiveCount
<1>2. IsFiniteSet(LiveSpaces \cup {s}) /\ Cardinality(LiveSpaces \cup {s}) \in Nat
      /\ Cardinality(LiveSpaces \cup {s}) <= Cardinality(LiveSpaces) + 1
  <2>1. IsFiniteSet(LiveSpaces \cup {s}) /\ Cardinality(LiveSpaces \cup {s}) =
            (IF s \in LiveSpaces THEN Cardinality(LiveSpaces) ELSE Cardinality(LiveSpaces) + 1)
    BY <1>1, FS_AddElement
  <2> QED
    BY <2>1, <1>1, FS_CardinalityType
<1>3. Cardinality(LiveSpaces') <= Cardinality(LiveSpaces \cup {s})
  BY <1>2, FS_Subset
<1>4. CountActiveSpaces' = Cardinality(LiveSpaces') /\ CountActiveSpaces' \in Nat
  <2>1. LiveSpaces' \in SUBSET Spaces
    BY DEF LiveSpaces
  <2>2. IsFiniteSet(LiveSpaces')
    BY <2>1, VendorsAssumption, FS_Subset
  <2> QED
    BY <2>2, FS_CardinalityType DEF CountActiveSpaces, LiveSpaces
<1> QED
  BY <1>1, <1>2, <1>3, <1>4

\* A space gone is one fewer at most, a space come one more.
LEMMA LiveFewer ==
    ASSUME LiveSpaces' \subseteq LiveSpaces
    PROVE  CountActiveSpaces' <= CountActiveSpaces /\ CountActiveSpaces' \in Nat
<1>1. IsFiniteSet(LiveSpaces) /\ CountActiveSpaces = Cardinality(LiveSpaces) /\ CountActiveSpaces \in Nat
  BY LiveCount
<1>2. IsFiniteSet(LiveSpaces') /\ Cardinality(LiveSpaces') <= Cardinality(LiveSpaces)
  BY <1>1, FS_Subset
<1>3. CountActiveSpaces' = Cardinality(LiveSpaces')
  BY DEF CountActiveSpaces, LiveSpaces
<1> QED
  BY <1>1, <1>2, <1>3, FS_CardinalityType

\* Every step keeps the limit, and leaves the other requests what they counted.
LEMMA VendorsNextInv == MarketInv /\ [VendorsNext]_vendorVars => MarketInv'
<1> SUFFICES ASSUME MarketInv, [VendorsNext]_vendorVars PROVE MarketInv'
  OBVIOUS
<1>0. /\ space \in [Spaces -> SpaceRows] /\ spaceLimit \in SpaceLimits /\ spaceLimit \in Nat
      /\ DOMAIN errand = Clerks /\ uncounted \in BOOLEAN /\ ErrandsOK
      /\ CountActiveSpaces \in Nat
      /\ uncounted \/ CountActiveSpaces <= spaceLimit
  BY VendorsAssumption, LiveCount DEF MarketInv, SpacesWithinLimit
\* A request begins.
<1>a. ASSUME NEW c \in Clerks, NEW op, NEW on, NEW to, Undertake(c, op, on, to),
             op \in {"createSpace", "activate", "deactivate", "archiveSpace", "reactivateSpace"} => on \in Spaces,
             op = "reactivateSpace" => space[on].state # "none",
             op = "createSpace" => on \in PlatformSpaces \/ (to \in Nat /\ to < spaceLimit)
      PROVE  MarketInv'
  <2>1. /\ errand' = [errand EXCEPT ![c] = Errand(op, on, to)]
        /\ space' = space /\ spaceLimit' = spaceLimit /\ uncounted' = uncounted
    BY <1>a DEF Undertake
  <2>2. DOMAIN errand' = Clerks
    BY <2>1, <1>0
  <2>3. \A d \in Clerks : (d # c => errand'[d] = errand[d]) /\ (d = c => errand'[d] = Errand(op, on, to))
    BY <2>1, <1>0
  <2>4. Errand(op, on, to).op = op /\ Errand(op, on, to).on = on /\ Errand(op, on, to).to = to
    BY DEF Errand
  <2>5. ErrandsOK'
    BY <2>1, <2>3, <2>4, <1>a, <1>0 DEF ErrandsOK
  <2>6. CountActiveSpaces' = CountActiveSpaces
    BY <2>1 DEF CountActiveSpaces
  <2> QED
    BY <2>1, <2>2, <2>5, <2>6, <1>0 DEF MarketInv, SpacesWithinLimit
\* A request ends, without a look at the spaces.
<1>b. ASSUME NEW c \in Clerks, errand' = [errand EXCEPT ![c] = NoErrand],
             space' \in [Spaces -> SpaceRows], \A s \in Spaces : space[s].state # "none" => space'[s].state # "none",
             spaceLimit' = spaceLimit, uncounted' \in BOOLEAN, uncounted => uncounted', SpacesWithinLimit'
      PROVE  MarketInv'
  <2>1. DOMAIN errand' = Clerks
    BY <1>b, <1>0
  <2>2. \A d \in Clerks : (d # c => errand'[d] = errand[d]) /\ (d = c => errand'[d].op = "idle")
    BY <1>b, <1>0 DEF NoErrand, Errand
  <2>3. ErrandsOK'
    BY <2>2, <1>b, <1>0 DEF ErrandsOK
  <2> QED
    BY <2>1, <2>3, <1>b, <1>0 DEF MarketInv
<1>c. ASSUME space' = space, spaceLimit' = spaceLimit, uncounted' = uncounted PROVE SpacesWithinLimit'
  <2>1. CountActiveSpaces' = CountActiveSpaces
    BY <1>c DEF CountActiveSpaces
  <2> QED
    BY <2>1, <1>c, <1>0 DEF SpacesWithinLimit
<1>d. ASSUME NEW c \in Clerks, errand' = [errand EXCEPT ![c] = NoErrand], space' = space, spaceLimit' = spaceLimit, uncounted' = uncounted
      PROVE  MarketInv'
  BY <1>d, <1>b, <1>c, <1>0
<1>e. ASSUME LiveSpaces' \subseteq LiveSpaces, spaceLimit' = spaceLimit, uncounted' = uncounted PROVE SpacesWithinLimit'
  BY <1>e, <1>0, LiveFewer DEF SpacesWithinLimit
<1>1. CASE ChangeVendorPlan
  <2>1. PICK n \in SpaceLimits \ {spaceLimit} : /\ spaceLimit' = n /\ uncounted' = (uncounted \/ n < spaceLimit)
                                                /\ space' = space /\ errand' = errand
    BY <1>1 DEF ChangeVendorPlan
  <2>2. n \in Nat
    BY VendorsAssumption
  <2>3. CountActiveSpaces' = CountActiveSpaces
    BY <2>1 DEF CountActiveSpaces
  <2>4. SpacesWithinLimit'
    <3> SUFFICES ASSUME ~uncounted' PROVE CountActiveSpaces' <= spaceLimit'
      BY DEF SpacesWithinLimit
    <3>1. ~uncounted /\ ~(n < spaceLimit)
      BY <2>1, <1>0
    <3> QED
      BY <3>1, <2>1, <2>2, <2>3, <1>0
  <2>5. ErrandsOK'
    <3> SUFFICES ASSUME NEW d \in Clerks
                 PROVE  /\ errand'[d].op \in {"createSpace", "activate", "deactivate", "archiveSpace", "reactivateSpace"} => errand'[d].on \in Spaces
                        /\ errand'[d].op = "reactivateSpace" => space'[errand'[d].on].state # "none"
                        /\ errand'[d].op = "createSpace" /\ errand'[d].on \notin PlatformSpaces /\ ~uncounted' =>
                              errand'[d].to \in Nat /\ errand'[d].to < spaceLimit'
      BY DEF ErrandsOK
    <3>1. ~uncounted' => ~uncounted /\ ~(n < spaceLimit)
      BY <2>1, <1>0
    <3>2. \A k \in Nat : ~(n < spaceLimit) /\ k < spaceLimit => k < spaceLimit'
      BY <2>1, <2>2, <1>0
    <3> QED
      BY <3>1, <3>2, <2>1, <1>0 DEF ErrandsOK
  <2> QED
    BY <2>1, <2>4, <2>5, <1>0, <2>2 DEF MarketInv
<1>2. ASSUME NEW c \in Clerks, CreateSpaceRead(c) PROVE MarketInv'
  <2>1. PICK u \in Admins, s \in Spaces : VendorSpaceCreatable(s) /\ Undertake(c, "createSpace", s, CountActiveSpaces)
    BY <1>2 DEF CreateSpaceRead
  <2>2. s \in PlatformSpaces \/ (CountActiveSpaces \in Nat /\ CountActiveSpaces < spaceLimit)
    BY <2>1, <1>0 DEF VendorSpaceCreatable
  <2> QED
    BY <2>1, <2>2, <1>a
<1>3. ASSUME NEW c \in Clerks, UpdateSpaceRead(c) PROVE MarketInv'
  <2>1. PICK s \in Spaces, op \in {"activate", "deactivate"} : Undertake(c, op, s, Nowhere)
    BY <1>3 DEF UpdateSpaceRead
  <2> QED
    BY <2>1, <1>a
<1>4. ASSUME NEW c \in Clerks, ArchiveSpaceRead(c) PROVE MarketInv'
  <2>1. PICK s \in Spaces : Undertake(c, "archiveSpace", s, Nowhere)
    BY <1>4 DEF ArchiveSpaceRead
  <2> QED
    BY <2>1, <1>a
<1>5. ASSUME NEW c \in Clerks, ReactivateSpaceRead(c) PROVE MarketInv'
  <2>1. PICK u \in Admins, s \in Spaces : FindSpace(u, s, TRUE) /\ Undertake(c, "reactivateSpace", s, Nowhere)
    BY <1>5 DEF ReactivateSpaceRead
  <2>2. space[s].state # "none"
    BY <2>1 DEF FindSpace, Found
  <2> QED
    BY <2>1, <2>2, <1>a
<1>6. ASSUME NEW c \in Clerks, CreateSpace(c) PROVE MarketInv'
  <2> DEFINE s == On(c)
  <2>1. /\ errand[c].op = "createSpace" /\ errand' = [errand EXCEPT ![c] = NoErrand]
        /\ space' = [space EXCEPT ![s] = Space("live", TRUE)] /\ spaceLimit' = spaceLimit
        /\ uncounted' = (uncounted \/ (s \notin PlatformSpaces /\ CountActiveSpaces > errand[c].to))
    BY <1>6 DEF CreateSpace, Complete
  <2>2. s \in Spaces /\ (s \notin PlatformSpaces /\ ~uncounted => errand[c].to \in Nat /\ errand[c].to < spaceLimit)
    BY <2>1, <1>0 DEF ErrandsOK, On
  <2>3. Space("live", TRUE) \in SpaceRows /\ Space("live", TRUE).state = "live"
    BY DEF Space, SpaceRows
  <2> HIDE DEF s
  <2>4. space' \in [Spaces -> SpaceRows] /\ \A t \in Spaces : (t # s => space'[t] = space[t]) /\ (t = s => space'[t].state = "live")
    BY <2>1, <2>2, <2>3, <1>0
  <2>5. SpacesWithinLimit'
    <3>1. CASE s \in PlatformSpaces
      <4>1. LiveSpaces' \subseteq LiveSpaces
        BY <3>1, <2>4 DEF LiveSpaces
      <4>2. uncounted' = uncounted
        BY <3>1, <2>1, <1>0
      <4>3. CountActiveSpaces' <= CountActiveSpaces /\ CountActiveSpaces' \in Nat
        BY <4>1, LiveFewer
      <4> QED
        BY <4>2, <4>3, <3>1, <2>1, <1>0 DEF SpacesWithinLimit
    <3>2. CASE s \notin PlatformSpaces
      <4>1. LiveSpaces' \subseteq LiveSpaces \cup {s}
        BY <2>4 DEF LiveSpaces
      <4>2. CountActiveSpaces' <= CountActiveSpaces + 1 /\ CountActiveSpaces' \in Nat
        BY <4>1, LiveGrows
      <4>4. ASSUME ~uncounted' PROVE CountActiveSpaces' <= spaceLimit'
        <5>1. ~uncounted /\ ~(CountActiveSpaces > errand[c].to)
          BY <4>4, <3>2, <2>1
        <5> QED
          BY <5>1, <4>2, <3>2, <2>1, <2>2, <1>0
      <4> QED
        BY <4>4 DEF SpacesWithinLimit
    <3> QED
      BY <3>1, <3>2
  <2>6. \A t \in Spaces : space[t].state # "none" => space'[t].state # "none"
    BY <2>4
  <2>7. uncounted' \in BOOLEAN /\ (uncounted => uncounted')
    BY <2>1, <1>0
  <2> QED
    BY <2>1, <2>4, <2>5, <2>6, <2>7, <1>b
<1>7. ASSUME NEW c \in Clerks, UpdateSpace(c) PROVE MarketInv'
  <2>1. PICK active \in BOOLEAN :
          /\ errand[c].op \in {"activate", "deactivate"} /\ errand' = [errand EXCEPT ![c] = NoErrand]
          /\ space' = [space EXCEPT ![On(c)].active = active] /\ spaceLimit' = spaceLimit /\ uncounted' = uncounted
    BY <1>7 DEF UpdateSpace, Complete
  <2>2. space' \in [Spaces -> SpaceRows] /\ \A t \in Spaces : space'[t].state = space[t].state
    BY <2>1, <1>0 DEF SpaceRows
  <2>3. LiveSpaces' \subseteq LiveSpaces
    BY <2>2 DEF LiveSpaces
  <2> QED
    BY <2>1, <2>2, <2>3, <1>0, <1>b, <1>e
<1>8. ASSUME NEW c \in Clerks, ArchiveSpace(c) PROVE MarketInv'
  <2>1. /\ errand[c].op = "archiveSpace" /\ errand' = [errand EXCEPT ![c] = NoErrand]
        /\ space' = [space EXCEPT ![On(c)].state = "archived"] /\ spaceLimit' = spaceLimit /\ uncounted' = uncounted
    BY <1>8 DEF ArchiveSpace, Complete
  <2>2. space' \in [Spaces -> SpaceRows] /\ \A t \in Spaces : space'[t].state = space[t].state \/ space'[t].state = "archived"
    BY <2>1, <1>0 DEF SpaceRows
  <2>3. LiveSpaces' \subseteq LiveSpaces
    BY <2>2 DEF LiveSpaces
  <2>4. \A t \in Spaces : space[t].state # "none" => space'[t].state # "none"
    BY <2>2
  <2> QED
    BY <2>1, <2>2, <2>3, <2>4, <1>0, <1>b, <1>e
<1>9. ASSUME NEW c \in Clerks, ReactivateSpace(c) PROVE MarketInv'
  <2> DEFINE s == On(c)
  <2>1. /\ errand[c].op = "reactivateSpace" /\ errand' = [errand EXCEPT ![c] = NoErrand]
        /\ space' = [space EXCEPT ![s].state = "live"] /\ spaceLimit' = spaceLimit
        /\ uncounted' = (uncounted \/ (s \notin PlatformSpaces /\ space[s].state = "archived"))
    BY <1>9 DEF ReactivateSpace, Complete
  <2>2. s \in Spaces /\ space[s].state # "none" /\ space[s].state \in {"none", "live", "archived"}
    BY <2>1, <1>0 DEF ErrandsOK, On, SpaceRows
  <2> HIDE DEF s
  <2>3. space' \in [Spaces -> SpaceRows] /\ \A t \in Spaces : (t # s => space'[t] = space[t]) /\ (t = s => space'[t].state = "live")
    BY <2>1, <2>2, <1>0 DEF SpaceRows
  <2>4. SpacesWithinLimit'
    <3> SUFFICES ASSUME ~uncounted' PROVE CountActiveSpaces' <= spaceLimit'
      BY DEF SpacesWithinLimit
    <3>1. ~uncounted /\ (s \in PlatformSpaces \/ space[s].state = "live")
      BY <2>1, <2>2
    <3>2. LiveSpaces' \subseteq LiveSpaces
      BY <3>1, <2>3 DEF LiveSpaces
    <3>3. CountActiveSpaces' <= CountActiveSpaces /\ CountActiveSpaces' \in Nat
      BY <3>2, LiveFewer
    <3> QED
      BY <3>1, <3>3, <2>1, <1>0
  <2>5. \A t \in Spaces : space[t].state # "none" => space'[t].state # "none"
    BY <2>3
  <2>6. uncounted' \in BOOLEAN /\ (uncounted => uncounted')
    BY <2>1, <1>0
  <2> QED
    BY <2>1, <2>3, <2>4, <2>5, <2>6, <1>b
<1>10. ASSUME NEW c \in Clerks,
              AssignVendorUserRead(c) \/ UnassignVendorUserRead(c) \/ CreateServiceRead(c) \/ CreateProductRead(c)
                \/ ArchiveOfferRead(c) \/ ReactivateOfferRead(c)
       PROVE  MarketInv'
  <2>1. \E op \in {"assign", "unassign", "createOffer", "archiveOffer", "reactivateOffer"} : \E on, to : Undertake(c, op, on, to)
    BY <1>10, Zenon DEF AssignVendorUserRead, UnassignVendorUserRead, CreateServiceRead, CreateProductRead, ArchiveOfferRead, ReactivateOfferRead
  <2> QED
    BY <2>1, <1>a
<1>11. ASSUME NEW c \in Clerks,
              AssignVendorUser(c) \/ UnassignVendorUser(c) \/ CreateOffer(c) \/ ArchiveOffer(c) \/ ReactivateOffer(c) \/ Fail(c)
       PROVE  MarketInv'
  BY <1>11, <1>d DEF AssignVendorUser, UnassignVendorUser, CreateOffer, ArchiveOffer, ReactivateOffer, Fail, Complete
<1>12. CASE UNCHANGED vendorVars
  <2>1. space' = space /\ spaceLimit' = spaceLimit /\ uncounted' = uncounted /\ errand' = errand
    BY <1>12 DEF vendorVars
  <2>2. ErrandsOK'
    BY <2>1, <1>0 DEF ErrandsOK
  <2> QED
    BY <2>1, <2>2, <1>c, <1>0 DEF MarketInv
<1> QED
  BY <1>1, <1>2, <1>3, <1>4, <1>5, <1>6, <1>7, <1>8, <1>9, <1>10, <1>11, <1>12, Zenon DEF VendorsNext

LEMMA VendorsInitInv == VendorsInit => MarketInv
<1> SUFFICES ASSUME VendorsInit PROVE MarketInv
  OBVIOUS
<1>1. space \in [Spaces -> SpaceRows] /\ spaceLimit \in SpaceLimits /\ DOMAIN errand = Clerks /\ spaceLimit \in Nat
        /\ uncounted \in BOOLEAN
  BY VendorsAssumption DEF VendorsInit, Space, SpaceRows
<1>2. ErrandsOK
  BY DEF VendorsInit, ErrandsOK, NoErrand, Errand
<1>3. LiveSpaces = {}
  BY DEF VendorsInit, LiveSpaces, Space
<1>4. CountActiveSpaces = 0
  BY <1>3, LiveCount, FS_EmptySet
<1> QED
  BY <1>1, <1>2, <1>4 DEF MarketInv, SpacesWithinLimit

\* Whatever order of equals the database gives, nothing that comes before
\* another in a search is a kilometre further than it or more.
LEMMA Banded == \A a, b \in Spaces : ~ByBandedDistanceThenPriority(b, a) => Tenths[a] < Tenths[b] + 10
<1> SUFFICES ASSUME NEW a \in Spaces, NEW b \in Spaces, ~ByBandedDistanceThenPriority(b, a) PROVE Tenths[a] < Tenths[b] + 10
  OBVIOUS
<1>1. Tenths[a] \in Nat /\ Tenths[b] \in Nat
  BY VendorsAssumption
<1>2. ~((Tenths[b] + 5) \div 10 < (Tenths[a] + 5) \div 10)
  BY DEF ByBandedDistanceThenPriority, Band
<1>3. ASSUME NEW m \in Nat, NEW n \in Nat, ~((n + 5) \div 10 < (m + 5) \div 10) PROVE m < n + 10
  BY <1>3
<1> QED
  BY <1>1, <1>2, <1>3

\* Within a band the plan decides; from one band to the next it is a kilometre
\* at most.
LEMMA SearchRanked == NearestFirst
<1> SUFFICES ASSUME NEW q \in Nearby, NEW i \in DOMAIN q, NEW j \in DOMAIN q, i < j PROVE Tenths[q[i]] < Tenths[q[j]] + 10
  BY DEF NearestFirst
<1>1. q[i] \in Spaces /\ q[j] \in Spaces /\ ~ByBandedDistanceThenPriority(q[j], q[i])
  BY DEF Nearby, Market
<1> QED
  BY <1>1, Banded

\* However requests cross, a tenant has no more live spaces than its plan
\* allows, unless one was restored or two creations crossed; and whatever the
\* sort does with equals, the search is nearest first to within a kilometre.
THEOREM VendorsInvariant == VendorsSpec => [](MarketInv /\ NearestFirst)
BY VendorsInitInv, VendorsNextInv, SearchRanked, PTL DEF VendorsSpec

\* What a plan grants and no more, whatever requests cross and however many
\* events and spaces there are (event-tier-enforcement.util.ts,
\* vendor-tier-enforcement.util.ts, vendor.repository.ts).
THEOREM NoMoreThanGranted == CreationSpec /\ VendorsSpec => []WithinPlan
<1>1. CreationInv /\ MarketInv /\ NearestFirst => WithinPlan
  BY DEF CreationInv, MarketInv, WithinPlan
<1> QED
  BY <1>1, CreationInvariant, VendorsInvariant, PTL

\* What is offered hangs on what it should, and so does what requests are about
\* to offer; those to look after a space are its keepers.
OfferRows == [on : Spaces \cup Services \cup {Nowhere}, state : {"none", "live", "archived"}]
Hangs(o, on) ==
    /\ o \in Services => on \in Spaces \cup {Nowhere}
    /\ o \in Products => on \in Services \cup {Nowhere}
TradeInv ==
    /\ offer \in [Offers -> OfferRows] /\ \A o \in Offers : Hangs(o, offer[o].on)
    /\ keeps \subseteq Spaces \X Keepers
    /\ DOMAIN errand = Clerks
    /\ \A c \in Clerks :
          /\ errand[c].op = "assign" => errand[c].on \in Spaces /\ errand[c].to \in Keepers
          /\ errand[c].op = "createOffer" => errand[c].to \in Spaces \cup Services /\ Hangs(errand[c].on, errand[c].to)

LEMMA TradeNextInv == TradeInv /\ [VendorsNext]_vendorVars => TradeInv'
<1> SUFFICES ASSUME TradeInv, [VendorsNext]_vendorVars PROVE TradeInv'
  OBVIOUS
<1>0. /\ offer \in [Offers -> OfferRows] /\ \A o \in Offers : Hangs(o, offer[o].on)
      /\ keeps \subseteq Spaces \X Keepers /\ DOMAIN errand = Clerks
      /\ \A c \in Clerks :
            /\ errand[c].op = "assign" => errand[c].on \in Spaces /\ errand[c].to \in Keepers
            /\ errand[c].op = "createOffer" => errand[c].to \in Spaces \cup Services /\ Hangs(errand[c].on, errand[c].to)
  BY DEF TradeInv
\* A request begins,
<1>a. ASSUME NEW c \in Clerks, NEW op, NEW on, NEW to, Undertake(c, op, on, to),
             op = "assign" => on \in Spaces /\ to \in Keepers,
             op = "createOffer" => to \in Spaces \cup Services /\ Hangs(on, to)
      PROVE  TradeInv'
  <2>1. errand' = [errand EXCEPT ![c] = Errand(op, on, to)] /\ offer' = offer /\ keeps' = keeps
    BY <1>a DEF Undertake
  <2>2. Errand(op, on, to).op = op /\ Errand(op, on, to).on = on /\ Errand(op, on, to).to = to
    BY DEF Errand
  <2>3. DOMAIN errand' = Clerks /\ \A d \in Clerks : errand'[d] = IF d = c THEN Errand(op, on, to) ELSE errand[d]
    BY <2>1, <1>0
  <2> QED
    BY <2>1, <2>2, <2>3, <1>0, <1>a DEF TradeInv, Hangs
\* and ends, leaving what is offered and who looks after what, or not.
<1>b. ASSUME NEW c \in Clerks, errand' = [errand EXCEPT ![c] = NoErrand],
             offer' \in [Offers -> OfferRows], \A o \in Offers : Hangs(o, offer'[o].on),
             keeps' \subseteq Spaces \X Keepers
      PROVE  TradeInv'
  <2>1. NoErrand.op = "idle"
    BY DEF NoErrand, Errand
  <2>2. DOMAIN errand' = Clerks /\ \A d \in Clerks : errand'[d] = IF d = c THEN NoErrand ELSE errand[d]
    BY <1>b, <1>0
  <2>3. \A d \in Clerks :
            /\ errand'[d].op = "assign" => errand'[d].on \in Spaces /\ errand'[d].to \in Keepers
            /\ errand'[d].op = "createOffer" => errand'[d].to \in Spaces \cup Services /\ Hangs(errand'[d].on, errand'[d].to)
    BY <2>1, <2>2, <1>0
  <2> QED
    BY <2>2, <2>3, <1>b DEF TradeInv, Hangs
<1>c. ASSUME NEW c \in Clerks, errand' = [errand EXCEPT ![c] = NoErrand], offer' = offer, keeps' = keeps PROVE TradeInv'
  BY <1>b, <1>c, <1>0
<1>d. ASSUME UNCHANGED <<offer, keeps, errand>> PROVE TradeInv'
  BY <1>d, <1>0 DEF TradeInv, Hangs
<1>1. CASE ChangeVendorPlan
  BY <1>1, <1>d DEF ChangeVendorPlan
<1>2. ASSUME NEW c \in Clerks, CreateSpaceRead(c) \/ UpdateSpaceRead(c) \/ ArchiveSpaceRead(c) \/ ReactivateSpaceRead(c)
             \/ UnassignVendorUserRead(c) \/ ArchiveOfferRead(c) \/ ReactivateOfferRead(c)
      PROVE  TradeInv'
  <2>1. PICK op, on, to : op \notin {"assign", "createOffer"} /\ Undertake(c, op, on, to)
    BY <1>2 DEF CreateSpaceRead, UpdateSpaceRead, ArchiveSpaceRead, ReactivateSpaceRead, UnassignVendorUserRead, ArchiveOfferRead, ReactivateOfferRead
  <2> QED
    BY <2>1, <1>a
<1>3. ASSUME NEW c \in Clerks, CreateSpace(c) \/ UpdateSpace(c) \/ ArchiveSpace(c) \/ ReactivateSpace(c) \/ Fail(c) PROVE TradeInv'
  <2>1. errand' = [errand EXCEPT ![c] = NoErrand] /\ offer' = offer /\ keeps' = keeps
    BY <1>3 DEF CreateSpace, UpdateSpace, ArchiveSpace, ReactivateSpace, Fail, Complete
  <2> QED
    BY <2>1, <1>c
<1>4. ASSUME NEW c \in Clerks, AssignVendorUserRead(c) PROVE TradeInv'
  <2>1. PICK s \in Spaces, k \in Keepers : Undertake(c, "assign", s, k)
    BY <1>4 DEF AssignVendorUserRead
  <2> QED
    BY <2>1, <1>a
<1>5. ASSUME NEW c \in Clerks, CreateServiceRead(c) PROVE TradeInv'
  <2>1. PICK s \in Spaces, v \in Services : Undertake(c, "createOffer", v, s)
    BY <1>5 DEF CreateServiceRead
  <2>2. Hangs(v, s)
    BY VendorsAssumption DEF Hangs
  <2> QED
    BY <2>1, <2>2, <1>a
<1>6. ASSUME NEW c \in Clerks, CreateProductRead(c) PROVE TradeInv'
  <2>1. PICK v \in Services, p \in Products : Undertake(c, "createOffer", p, v)
    BY <1>6 DEF CreateProductRead
  <2>2. Hangs(p, v)
    BY VendorsAssumption DEF Hangs
  <2> QED
    BY <2>1, <2>2, <1>a
<1>7. ASSUME NEW c \in Clerks, AssignVendorUser(c) PROVE TradeInv'
  <2>1. /\ errand[c].op = "assign" /\ errand' = [errand EXCEPT ![c] = NoErrand]
        /\ keeps' = keeps \cup {<<errand[c].on, errand[c].to>>} /\ offer' = offer
    BY <1>7 DEF AssignVendorUser, Complete, On
  <2>2. keeps' \subseteq Spaces \X Keepers
    BY <2>1, <1>0
  <2> QED
    BY <2>1, <2>2, <1>0, <1>b
<1>8. ASSUME NEW c \in Clerks, UnassignVendorUser(c) PROVE TradeInv'
  <2>1. errand' = [errand EXCEPT ![c] = NoErrand] /\ keeps' \subseteq keeps /\ offer' = offer
    BY <1>8 DEF UnassignVendorUser, Complete
  <2> QED
    BY <2>1, <1>0, <1>b
<1>9. ASSUME NEW c \in Clerks, CreateOffer(c) PROVE TradeInv'
  <2> DEFINE o == errand[c].on
             r == Offer(errand[c].to, "live")
  <2>1. errand[c].op = "createOffer" /\ errand' = [errand EXCEPT ![c] = NoErrand] /\ offer' = [offer EXCEPT ![o] = r] /\ keeps' = keeps
    BY <1>9 DEF CreateOffer, Complete, On
  <2>2. r \in OfferRows /\ r.on = errand[c].to /\ Hangs(o, errand[c].to)
    BY <2>1, <1>0 DEF Offer, OfferRows
  <2> HIDE DEF o, r
  <2>3. offer' \in [Offers -> OfferRows] /\ \A p \in Offers : offer'[p] = IF p = o THEN r ELSE offer[p]
    BY <2>1, <2>2, <1>0
  <2>4. \A p \in Offers : Hangs(p, offer'[p].on)
    BY <2>2, <2>3, <1>0
  <2> QED
    BY <2>1, <2>3, <2>4, <1>0, <1>b
<1>10. ASSUME NEW c \in Clerks, ArchiveOffer(c) \/ ReactivateOffer(c) PROVE TradeInv'
  <2> DEFINE o == errand[c].on
  <2>1. PICK st \in {"archived", "live"} :
           errand' = [errand EXCEPT ![c] = NoErrand] /\ offer' = [offer EXCEPT ![o].state = st] /\ keeps' = keeps
    BY <1>10 DEF ArchiveOffer, ReactivateOffer, Complete, On
  <2> HIDE DEF o
  <2>2. offer' \in [Offers -> OfferRows] /\ \A p \in Offers : offer'[p].on = offer[p].on
    BY <2>1, <1>0 DEF OfferRows
  <2>3. \A p \in Offers : Hangs(p, offer'[p].on)
    BY <2>2, <1>0
  <2> QED
    BY <2>1, <2>2, <2>3, <1>0, <1>b
<1>11. CASE UNCHANGED vendorVars
  BY <1>11, <1>d DEF vendorVars
<1> QED
  BY <1>1, <1>2, <1>3, <1>4, <1>5, <1>6, <1>7, <1>8, <1>9, <1>10, <1>11 DEF VendorsNext

\* The types, of any number of spaces, offers and requests (vendor.service.ts).
THEOREM VendorsTypeCorrect == VendorsSpec => []VendorsTypeOK
<1>1. VendorsInit => TradeInv
  BY DEF VendorsInit, TradeInv, Hangs, OfferRows, Offer, NoErrand, Errand
<1>2. MarketInv /\ TradeInv => VendorsTypeOK
  BY DEF MarketInv, TradeInv, Hangs, VendorsTypeOK, SpaceRows, Offers
<1> QED
  BY <1>1, <1>2, TradeNextInv, VendorsInvariant, PTL DEF VendorsSpec

-----------------------------------------------------------------------------
(* EventContent: the inductive invariant.                                  *)

\* What requests may plan to write.
DayPlans == UNION {[D -> DayRows] : D \in SUBSET Days}
ItemPlans == UNION {[I -> ItemRows] : I \in SUBSET Items}
Edits ==
    [op : {"idle", "createDay", "updateDay", "createProgram", "writeItem", "full"},
     day : Days \cup {Unset}, item : Items \cup {Unset, "createProgram"},
     days : DayRows \cup DayPlans \cup {Unset}, items : ItemRows \cup ItemPlans \cup {Unset},
     stale : BOOLEAN]

\* What a request plans to write: one day, one item, or some of each.
EditOK(p) ==
    /\ p.op \in {"createDay", "updateDay"} => p.day \in Days /\ p.days \in DayRows /\ p.days.st = "live"
    /\ p.op = "writeItem" => p.item \in Items /\ p.items \in ItemRows /\ p.items.st = "live"
    /\ p.op = "full" =>
          /\ p.days \in DayPlans /\ \A d \in DOMAIN p.days : p.days[d].st # "none"
          /\ p.items # Unset => p.items \in ItemPlans /\ \A i \in DOMAIN p.items : p.items[i].st # "none"

\* What a plan keeps of a row, the row has.
Stored(p) ==
    /\ p.op = "updateDay" => day[p.day].st # "none"
    /\ p.op = "full" =>
          /\ \A d \in DOMAIN p.days : p.days[d].st = "archived" => day[d].st # "none"
          /\ p.items # Unset => \A i \in DOMAIN p.items : p.items[i].st = "archived" => item[i].st # "none"

ContentTypes ==
    /\ day \in [Days -> DayRows] /\ item \in [Items -> ItemRows]
    /\ program \in {"none", "live", "archived"}
    /\ edit \in [Editors -> Edits] /\ \A e \in Editors : EditOK(edit[e]) /\ Stored(edit[e])
    /\ moved \subseteq Days /\ twin \in BOOLEAN

Distinct(rows) ==
    \A c, d \in Days : rows[c].st = "live" /\ rows[d].st = "live" /\ Fold[rows[c].label] = Fold[rows[d].label] => c = d

\* What a plan that nothing has made stale was checked for still holds: the
\* labels stay distinct,
LabelPlan(p) ==
    ~p.stale =>
        /\ p.op \in {"createDay", "updateDay"} => NoDuplicateLabel(p.days.label, p.day)
        /\ p.op = "full" => Distinct(AppliedDays(p))

\* and an item stays on its day.
OnDays(rows, items) ==
    \A d \in Days \ moved, i \in Items :
        rows[d].st = "live" /\ items[i].st = "live" /\ items[i].day = d => items[i].start = rows[d].date

OnDayPlan(p) ==
    program # "archived" /\ ~p.stale =>
        /\ p.op = "writeItem" => \A d \in LiveDays \ moved : p.items.day = d => p.items.start = day[d].date
        /\ p.op = "full" /\ p.items # Unset => OnDays(AppliedDays(p), AppliedItems(p))

\* No item is there, nor about to be, before its programme or its day is.
ItemsStored ==
    /\ program = "none" => \A i \in Items : item[i].st = "none"
    /\ \A i \in Items : item[i].day # Unset => day[item[i].day].st # "none"

FirstPlan(p) ==
    /\ program = "none" =>
          /\ p.op # "writeItem"
          /\ p.op = "full" /\ p.items # Unset /\ p.item # "createProgram" => DOMAIN p.items = {}
    /\ p.op = "writeItem" /\ p.items.day # Unset => day[p.items.day].st # "none"
    /\ p.op = "full" /\ p.items # Unset =>
          \A i \in DOMAIN p.items : p.items[i].day # Unset =>
              day[p.items[i].day].st # "none" \/ p.items[i].day \in DOMAIN p.days

\* The row a request will insert is no other's to write.
DrawnFree ==
    \A e \in Editors : edit[e].op = "createDay" =>
        /\ day[edit[e].day].st = "none"
        /\ \A f \in Editors \ {e} : /\ edit[f].day # edit[e].day
                                    /\ edit[f].op = "full" => edit[e].day \notin DOMAIN edit[f].days

\* An item under a day starts on its date, whatever the programme of an
\* archived one still holds.
ItemsOnDays == program # "archived" => OnDays(day, item)

ContentInv ==
    /\ ContentTypes
    /\ LabelsDistinct /\ ItemsOnDays /\ ItemsStored /\ DrawnFree
    /\ \A e \in Editors : LabelPlan(edit[e]) /\ FirstPlan(edit[e]) /\ OnDayPlan(edit[e])
\* What a day's row holds, and what it is made of.
LEMMA DayRowIs ==
    /\ \A st \in {"live", "archived"}, l \in Labels, t \in Dates : Day(st, l, t) \in DayRows
    /\ \A st, l, t : Day(st, l, t).st = st /\ Day(st, l, t).label = l /\ Day(st, l, t).date = t
    /\ Day("none", Unset, Unset) \in DayRows
    /\ \A r \in DayRows : /\ r.st \in {"none", "live", "archived"}
                          /\ r.st # "none" => r.label \in Labels /\ r.date \in Dates
                          /\ r.st # "none" => r = Day(r.st, r.label, r.date)
<1>1. \A st \in {"live", "archived"}, l \in Labels, t \in Dates : Day(st, l, t) \in DayRows
  BY DEF DayRows
<1>2. \A st, l, t : Day(st, l, t).st = st /\ Day(st, l, t).label = l /\ Day(st, l, t).date = t
  BY DEF Day
<1>3. Day("none", Unset, Unset) \in DayRows
  BY DEF DayRows
<1>4. ASSUME NEW r \in DayRows
      PROVE  /\ r.st \in {"none", "live", "archived"}
             /\ r.st # "none" => r.label \in Labels /\ r.date \in Dates
             /\ r.st # "none" => r = Day(r.st, r.label, r.date)
  <2>1. CASE r = Day("none", Unset, Unset)
    BY <2>1, <1>2
  <2>2. CASE \E st \in {"live", "archived"}, l \in Labels, t \in Dates : r = Day(st, l, t)
    BY <2>2, <1>2
  <2> QED
    BY <2>1, <2>2 DEF DayRows
<1> QED
  BY <1>1, <1>2, <1>3, <1>4

\* The same of an item's.
LEMMA ItemRowIs ==
    /\ \A st \in {"live", "archived"}, d \in Days \cup {Unset}, t \in Dates : Item(st, d, t) \in ItemRows
    /\ \A st, d, t : Item(st, d, t).st = st /\ Item(st, d, t).day = d /\ Item(st, d, t).start = t
    /\ Item("none", Unset, Unset) \in ItemRows
    /\ \A r \in ItemRows : /\ r.st \in {"none", "live", "archived"} /\ r.day \in Days \cup {Unset}
                           /\ r.st = "none" => r.day = Unset
                           /\ r.st # "none" => r.start \in Dates
                           /\ r.st # "none" => r = Item(r.st, r.day, r.start)
<1>1. \A st \in {"live", "archived"}, d \in Days \cup {Unset}, t \in Dates : Item(st, d, t) \in ItemRows
  BY DEF ItemRows
<1>2. \A st, d, t : Item(st, d, t).st = st /\ Item(st, d, t).day = d /\ Item(st, d, t).start = t
  BY DEF Item
<1>3. Item("none", Unset, Unset) \in ItemRows
  BY DEF ItemRows
<1>4. ASSUME NEW r \in ItemRows
      PROVE  /\ r.st \in {"none", "live", "archived"} /\ r.day \in Days \cup {Unset}
             /\ r.st = "none" => r.day = Unset
             /\ r.st # "none" => r.start \in Dates
             /\ r.st # "none" => r = Item(r.st, r.day, r.start)
  <2>1. CASE r = Item("none", Unset, Unset)
    BY <2>1, <1>2
  <2>2. CASE \E st \in {"live", "archived"}, d \in Days \cup {Unset}, t \in Dates : r = Item(st, d, t)
    BY <2>2, <1>2
  <2> QED
    BY <2>1, <2>2 DEF ItemRows
<1> QED
  BY <1>1, <1>2, <1>3, <1>4

\* What a full update would leave of the days, row by row.
LEMMA AppliedDaysAre ==
    ASSUME ContentTypes, NEW e \in Editors, edit[e].op = "full"
    PROVE  /\ AppliedDays(edit[e]) \in [Days -> DayRows]
           /\ \A d \in Days :
                 /\ d \notin DOMAIN edit[e].days => AppliedDays(edit[e])[d] = day[d]
                 /\ day[d].st # "none" => AppliedDays(edit[e])[d].st # "none"
                 /\ d \in DOMAIN edit[e].days => AppliedDays(edit[e])[d].st # "none"
                 /\ AppliedDays(edit[e])[d].st = "live" => day[d].st # "archived"
<1> DEFINE p == edit[e]
<1> DEFINE rows == AppliedDays(p)
<1>1. day \in [Days -> DayRows] /\ p.days \in DayPlans /\ (\A d \in DOMAIN p.days : p.days[d].st # "none")
      /\ (\A d \in DOMAIN p.days : p.days[d].st = "archived" => day[d].st # "none")
  BY DEF ContentTypes, EditOK, Stored
<1>2. \A d \in DOMAIN p.days : d \in Days /\ p.days[d] \in DayRows
  BY <1>1 DEF DayPlans
<1> HIDE DEF p
<1>3. ASSUME NEW d \in Days
      PROVE  /\ rows[d] \in DayRows
             /\ d \notin DOMAIN p.days => rows[d] = day[d]
             /\ day[d].st # "none" => rows[d].st # "none"
             /\ d \in DOMAIN p.days => rows[d].st # "none"
             /\ rows[d].st = "live" => day[d].st # "archived"
  <2>0. day[d] \in DayRows
    BY <1>1
  <2>1. CASE d \notin DOMAIN p.days
    <3>1. rows[d] = day[d]
      BY <2>1 DEF AppliedDays
    <3> QED
      BY <3>1, <2>1, <2>0
  <2>2. CASE d \in DOMAIN p.days /\ p.days[d].st = "archived"
    <3>1. rows[d] = Day("archived", day[d].label, day[d].date)
      BY <2>2 DEF AppliedDays
    <3>2. day[d].st # "none" /\ day[d].label \in Labels /\ day[d].date \in Dates
      BY <2>0, <2>2, <1>1, DayRowIs
    <3> QED
      BY <3>1, <3>2, <2>2, DayRowIs
  <2>3. CASE d \in DOMAIN p.days /\ p.days[d].st # "archived"
    <3>1. rows[d] = Day(IF day[d].st = "archived" THEN "archived" ELSE "live", p.days[d].label, p.days[d].date)
      BY <2>3 DEF AppliedDays
    <3>2. p.days[d].label \in Labels /\ p.days[d].date \in Dates
      BY <2>3, <1>1, <1>2, DayRowIs
    <3>3. CASE day[d].st = "archived"
      <4>1. rows[d] = Day("archived", p.days[d].label, p.days[d].date)
        BY <3>1, <3>3
      <4> QED
        BY <4>1, <3>2, <2>3, DayRowIs
    <3>4. CASE day[d].st # "archived"
      <4>1. rows[d] = Day("live", p.days[d].label, p.days[d].date)
        BY <3>1, <3>4
      <4> QED
        BY <4>1, <3>2, <3>4, <2>3, DayRowIs
    <3> QED
      BY <3>3, <3>4
  <2> QED
    BY <2>1, <2>2, <2>3
<1>4. rows \in [Days -> DayRows]
  <2>1. rows = [d \in Days |-> rows[d]]
    BY DEF AppliedDays
  <2> HIDE DEF rows
  <2> QED
    BY <2>1, <1>3
<1> QED
  BY <1>3, <1>4 DEF p

\* The items after a full update: those it writes as it plans them, the others
\* as they are.
LEMMA AppliedItemsAre ==
    ASSUME ContentTypes, NEW e \in Editors, edit[e].op = "full"
    PROVE  /\ AppliedItems(edit[e]) \in [Items -> ItemRows]
           /\ \A i \in Items :
                 /\ edit[e].items = Unset \/ i \notin DOMAIN edit[e].items => AppliedItems(edit[e])[i] = item[i]
                 /\ item[i].st # "none" => AppliedItems(edit[e])[i].st # "none"
                 /\ edit[e].items # Unset /\ i \in DOMAIN edit[e].items =>
                       /\ edit[e].items[i].st = "archived" =>
                             AppliedItems(edit[e])[i].st = "archived" /\ AppliedItems(edit[e])[i].day = item[i].day
                       /\ edit[e].items[i].st # "archived" => AppliedItems(edit[e])[i].day = edit[e].items[i].day
<1> DEFINE p == edit[e]
<1> DEFINE rows == AppliedItems(p)
<1>1. item \in [Items -> ItemRows]
      /\ (p.items # Unset =>
            /\ p.items \in ItemPlans
            /\ \A i \in DOMAIN p.items : p.items[i].st # "none" /\ (p.items[i].st = "archived" => item[i].st # "none"))
  BY DEF ContentTypes, EditOK, Stored
<1>2. p.items # Unset => \A i \in DOMAIN p.items : i \in Items /\ p.items[i] \in ItemRows
  BY <1>1 DEF ItemPlans
<1> HIDE DEF p
<1>3. ASSUME NEW i \in Items
      PROVE  /\ rows[i] \in ItemRows
             /\ p.items = Unset \/ i \notin DOMAIN p.items => rows[i] = item[i]
             /\ item[i].st # "none" => rows[i].st # "none"
             /\ p.items # Unset /\ i \in DOMAIN p.items =>
                   /\ p.items[i].st = "archived" => rows[i].st = "archived" /\ rows[i].day = item[i].day
                   /\ p.items[i].st # "archived" => rows[i].day = p.items[i].day
  <2>0. item[i] \in ItemRows
    BY <1>1
  <2>1. CASE p.items = Unset \/ i \notin DOMAIN p.items
    <3>1. rows[i] = item[i]
      BY <2>1 DEF AppliedItems
    <3> QED
      BY <3>1, <2>1, <2>0
  <2>2. CASE p.items # Unset /\ i \in DOMAIN p.items /\ p.items[i].st = "archived"
    <3>1. rows[i] = Item("archived", item[i].day, item[i].start)
      BY <2>2 DEF AppliedItems
    <3>2. item[i].st # "none" /\ item[i].day \in Days \cup {Unset} /\ item[i].start \in Dates
      BY <2>0, <2>2, <1>1, ItemRowIs
    <3> QED
      BY <3>1, <3>2, <2>2, ItemRowIs
  <2>3. CASE p.items # Unset /\ i \in DOMAIN p.items /\ p.items[i].st # "archived"
    <3>1. rows[i] = Item(IF item[i].st = "archived" THEN "archived" ELSE "live", p.items[i].day, p.items[i].start)
      BY <2>3 DEF AppliedItems
    <3>2. p.items[i].day \in Days \cup {Unset} /\ p.items[i].start \in Dates
      BY <2>3, <1>1, <1>2, ItemRowIs
    <3>3. CASE item[i].st = "archived"
      <4>1. rows[i] = Item("archived", p.items[i].day, p.items[i].start)
        BY <3>1, <3>3
      <4> QED
        BY <4>1, <3>2, <2>3, ItemRowIs
    <3>4. CASE item[i].st # "archived"
      <4>1. rows[i] = Item("live", p.items[i].day, p.items[i].start)
        BY <3>1, <3>4
      <4> QED
        BY <4>1, <3>2, <3>4, <2>3, ItemRowIs
    <3> QED
      BY <3>3, <3>4
  <2> QED
    BY <2>1, <2>2, <2>3
<1>4. rows \in [Items -> ItemRows]
  <2>1. rows = [i \in Items |-> rows[i]]
    BY DEF AppliedItems
  <2> HIDE DEF rows
  <2> QED
    BY <2>1, <1>3
<1> QED
  BY <1>3, <1>4 DEF p

\* What a request plans, seen as what it would leave.
LEMMA PlannedDaysAre ==
    ASSUME ContentTypes, NEW to \in DayLists
    PROVE  /\ PlannedDays(to) \in DayPlans
           /\ \A d \in DOMAIN PlannedDays(to) :
                 /\ PlannedDays(to)[d].st # "none"
                 /\ PlannedDays(to)[d].st = "archived" => day[d].st # "none"
           /\ \A d \in Days :
                 /\ to[d] # Unset => to[d][1] \in Labels /\ to[d][2] \in Dates /\ day[d].st # "archived"
                 /\ d \in DOMAIN PlannedDays(to) /\ to[d] # Unset => PlannedDays(to)[d] = Day("live", to[d][1], to[d][2])
                 /\ d \in DOMAIN PlannedDays(to) /\ to[d] = Unset =>
                       day[d].st = "live" /\ PlannedDays(to)[d].st = "archived"
                 /\ d \notin DOMAIN PlannedDays(to) /\ to[d] # Unset => day[d] = Day("live", to[d][1], to[d][2])
                 /\ d \notin DOMAIN PlannedDays(to) /\ to[d] = Unset => day[d].st # "live"
<1>1. to \in [Days -> {Unset} \cup (Labels \X Dates)] /\ (\A d \in Days : to[d] \in DayInputs(d)) /\ day \in [Days -> DayRows]
  BY DEF DayLists, ContentTypes
<1>2. ASSUME NEW d \in Days, to[d] # Unset
      PROVE  to[d][1] \in Labels /\ to[d][2] \in Dates /\ day[d].st # "archived"
  <2>1. to[d] \in Labels \X Dates
    BY <1>1, <1>2
  <2>2. d \in LiveDays \cup FreeDays
    BY <1>1, <1>2 DEF DayInputs
  <2> QED
    BY <2>1, <2>2 DEF LiveDays, FreeDays
<1> DEFINE Now(d) == IF to[d] # Unset THEN Day("live", to[d][1], to[d][2])
                     ELSE IF day[d].st = "live" THEN Day("archived", day[d].label, day[d].date)
                     ELSE day[d]
<1>3. PlannedDays(to) = [d \in {x \in Days : Now(x) # day[x]} |-> Now(d)]
  <2>1. DOMAIN to = Days
    BY <1>1
  <2> QED
    BY <2>1 DEF PlannedDays
<1>4. ASSUME NEW d \in Days PROVE Now(d) \in DayRows
  <2>1. day[d] \in DayRows
    BY <1>1
  <2>2. CASE to[d] # Unset
    BY <2>2, <1>2, DayRowIs
  <2>3. CASE to[d] = Unset /\ day[d].st = "live"
    <3>1. day[d].label \in Labels /\ day[d].date \in Dates
      BY <2>1, <2>3, DayRowIs
    <3> QED
      BY <3>1, <2>3, DayRowIs
  <2>4. CASE to[d] = Unset /\ day[d].st # "live"
    BY <2>4, <2>1
  <2> QED
    BY <2>2, <2>3, <2>4
<1>5. \A d \in Days : /\ to[d] # Unset => Now(d) = Day("live", to[d][1], to[d][2])
                      /\ to[d] = Unset /\ day[d].st = "live" => Now(d) = Day("archived", day[d].label, day[d].date)
                      /\ to[d] = Unset /\ day[d].st # "live" => Now(d) = day[d]
  OBVIOUS
<1> HIDE DEF Now
<1>6. DOMAIN PlannedDays(to) = {x \in Days : Now(x) # day[x]} /\ (\A d \in DOMAIN PlannedDays(to) : PlannedDays(to)[d] = Now(d))
  BY <1>3
<1>7. PlannedDays(to) \in DayPlans
  <2>1. PlannedDays(to) \in [{x \in Days : Now(x) # day[x]} -> DayRows]
    BY <1>3, <1>4
  <2> QED
    BY <2>1 DEF DayPlans
<1>8. ASSUME NEW d \in Days
      PROVE  /\ d \in DOMAIN PlannedDays(to) /\ to[d] # Unset => PlannedDays(to)[d] = Day("live", to[d][1], to[d][2])
             /\ d \in DOMAIN PlannedDays(to) /\ to[d] = Unset =>
                   day[d].st = "live" /\ PlannedDays(to)[d].st = "archived"
             /\ d \notin DOMAIN PlannedDays(to) /\ to[d] # Unset => day[d] = Day("live", to[d][1], to[d][2])
             /\ d \notin DOMAIN PlannedDays(to) /\ to[d] = Unset => day[d].st # "live"
  <2>1. d \in DOMAIN PlannedDays(to) /\ to[d] # Unset => PlannedDays(to)[d] = Day("live", to[d][1], to[d][2])
    BY <1>5, <1>6
  <2>2. d \in DOMAIN PlannedDays(to) /\ to[d] = Unset => day[d].st = "live" /\ PlannedDays(to)[d].st = "archived"
    BY <1>5, <1>6, DayRowIs
  <2>3. d \notin DOMAIN PlannedDays(to) => day[d] = Now(d)
    BY <1>6
  <2>4. Day("archived", day[d].label, day[d].date).st = "archived"
    BY DayRowIs
  <2>5. to[d] = Unset /\ day[d].st = "live" => Now(d).st = "archived"
    BY <2>4, <1>5
  <2> QED
    BY <2>1, <2>2, <2>3, <2>5, <1>5
<1>9. \A d \in DOMAIN PlannedDays(to) :
         /\ PlannedDays(to)[d].st # "none"
         /\ PlannedDays(to)[d].st = "archived" => day[d].st # "none"
  <2> SUFFICES ASSUME NEW d \in DOMAIN PlannedDays(to)
               PROVE  PlannedDays(to)[d].st # "none" /\ (PlannedDays(to)[d].st = "archived" => day[d].st # "none")
    OBVIOUS
  <2>1. d \in Days
    BY <1>6
  <2>2. Day("live", to[d][1], to[d][2]).st = "live"
    BY DayRowIs
  <2> QED
    BY <2>1, <2>2, <1>8
<1> QED
  BY <1>2, <1>7, <1>8, <1>9

\* What a full update plans for the items is what was sent, the days named
\* first.
LEMMA PlannedItemsAre ==
    ASSUME ContentTypes, NEW its \in ItemLists
    PROVE  /\ PlannedItems(its) \in ItemPlans
           /\ \A i \in DOMAIN PlannedItems(its) :
                 /\ PlannedItems(its)[i].st # "none"
                 /\ PlannedItems(its)[i].st = "archived" => item[i].st # "none"
           /\ program = "archived" => DOMAIN PlannedItems(its) = {}
           /\ \A i \in Items :
                 /\ its[i] # Unset => its[i][1] \in Days \cup {Unset} /\ its[i][2] \in Dates /\ item[i].st # "archived"
                 /\ i \in DOMAIN PlannedItems(its) /\ its[i] # Unset => PlannedItems(its)[i] = Item("live", its[i][1], its[i][2])
                 /\ i \in DOMAIN PlannedItems(its) /\ its[i] = Unset =>
                       item[i].st = "live" /\ PlannedItems(its)[i] = Item("archived", item[i].day, item[i].start)
                 /\ program # "archived" /\ i \notin DOMAIN PlannedItems(its) /\ its[i] # Unset => item[i] = Item("live", its[i][1], its[i][2])
                 /\ program # "archived" /\ i \notin DOMAIN PlannedItems(its) /\ its[i] = Unset => item[i].st # "live"
<1>1. its \in [Items -> {Unset} \cup ((Days \cup {Unset}) \X Dates)] /\ (\A i \in Items : its[i] \in ItemInputs(i)) /\ item \in [Items -> ItemRows]
  BY DEF ItemLists, ContentTypes
<1>2. ASSUME NEW i \in Items, its[i] # Unset
      PROVE  its[i][1] \in Days \cup {Unset} /\ its[i][2] \in Dates /\ item[i].st # "archived"
  <2>1. its[i] \in (Days \cup {Unset}) \X Dates
    BY <1>1, <1>2
  <2>2. i \in LiveItems \cup FreeItems
    BY <1>1, <1>2 DEF ItemInputs
  <2> QED
    BY <2>1, <2>2 DEF LiveItems, FreeItems
<1> DEFINE Now(i) == IF its[i] # Unset THEN Item("live", its[i][1], its[i][2])
                     ELSE IF item[i].st = "live" THEN Item("archived", item[i].day, item[i].start)
                     ELSE item[i]
<1>3. PlannedItems(its) = [i \in {x \in Items : program # "archived" /\ Now(x) # item[x]} |-> Now(i)]
  <2>1. DOMAIN its = Items
    BY <1>1
  <2> QED
    BY <2>1 DEF PlannedItems
<1>4. ASSUME NEW i \in Items PROVE Now(i) \in ItemRows
  <2>1. item[i] \in ItemRows
    BY <1>1
  <2>2. CASE its[i] # Unset
    BY <2>2, <1>2, ItemRowIs
  <2>3. CASE its[i] = Unset /\ item[i].st = "live"
    <3>1. item[i].day \in Days \cup {Unset} /\ item[i].start \in Dates
      BY <2>1, <2>3, ItemRowIs
    <3> QED
      BY <3>1, <2>3, ItemRowIs
  <2>4. CASE its[i] = Unset /\ item[i].st # "live"
    BY <2>4, <2>1
  <2> QED
    BY <2>2, <2>3, <2>4
<1>5. \A i \in Items : /\ its[i] # Unset => Now(i) = Item("live", its[i][1], its[i][2])
                       /\ its[i] = Unset /\ item[i].st = "live" => Now(i) = Item("archived", item[i].day, item[i].start)
                       /\ its[i] = Unset /\ item[i].st # "live" => Now(i) = item[i]
  OBVIOUS
<1> HIDE DEF Now
<1>6. DOMAIN PlannedItems(its) = {x \in Items : program # "archived" /\ Now(x) # item[x]}
      /\ (\A i \in DOMAIN PlannedItems(its) : PlannedItems(its)[i] = Now(i))
  BY <1>3
<1>7. PlannedItems(its) \in ItemPlans
  <2>1. PlannedItems(its) \in [{x \in Items : program # "archived" /\ Now(x) # item[x]} -> ItemRows]
    BY <1>3, <1>4
  <2> QED
    BY <2>1 DEF ItemPlans
<1>8. ASSUME NEW i \in Items
      PROVE  /\ i \in DOMAIN PlannedItems(its) /\ its[i] # Unset => PlannedItems(its)[i] = Item("live", its[i][1], its[i][2])
             /\ i \in DOMAIN PlannedItems(its) /\ its[i] = Unset =>
                   item[i].st = "live" /\ PlannedItems(its)[i] = Item("archived", item[i].day, item[i].start)
             /\ program # "archived" /\ i \notin DOMAIN PlannedItems(its) /\ its[i] # Unset => item[i] = Item("live", its[i][1], its[i][2])
             /\ program # "archived" /\ i \notin DOMAIN PlannedItems(its) /\ its[i] = Unset => item[i].st # "live"
  <2>1. i \in DOMAIN PlannedItems(its) /\ its[i] # Unset => PlannedItems(its)[i] = Item("live", its[i][1], its[i][2])
    BY <1>5, <1>6
  <2>2. i \in DOMAIN PlannedItems(its) /\ its[i] = Unset =>
            item[i].st = "live" /\ PlannedItems(its)[i] = Item("archived", item[i].day, item[i].start)
    BY <1>5, <1>6
  <2>3. program # "archived" /\ i \notin DOMAIN PlannedItems(its) => item[i] = Now(i)
    BY <1>6
  <2>4. Item("archived", item[i].day, item[i].start).st = "archived"
    BY ItemRowIs
  <2>5. its[i] = Unset /\ item[i].st = "live" => Now(i).st = "archived"
    BY <2>4, <1>5
  <2> QED
    BY <2>1, <2>2, <2>3, <2>5, <1>5
<1>9. \A i \in DOMAIN PlannedItems(its) :
         /\ PlannedItems(its)[i].st # "none"
         /\ PlannedItems(its)[i].st = "archived" => item[i].st # "none"
  <2> SUFFICES ASSUME NEW i \in DOMAIN PlannedItems(its)
               PROVE  PlannedItems(its)[i].st # "none" /\ (PlannedItems(its)[i].st = "archived" => item[i].st # "none")
    OBVIOUS
  <2>1. i \in Items
    BY <1>6
  <2>2. Item("live", its[i][1], its[i][2]).st = "live" /\ Item("archived", item[i].day, item[i].start).st = "archived"
    BY ItemRowIs
  <2> QED
    BY <2>1, <2>2, <1>8
<1> QED
  BY <1>2, <1>6, <1>7, <1>8, <1>9

\* The requests a step leaves alone, or makes stale.
Carried == \A f \in Editors : \/ edit'[f] = NoEdit
                              \/ edit'[f] = edit[f]
                              \/ edit'[f] = [edit[f] EXCEPT !.stale = TRUE]

\* A request that is over plans nothing.
LEMMA NoEditIs == NoEdit \in Edits /\ EditOK(NoEdit) /\ NoEdit.op = "idle" /\ NoEdit.stale = FALSE
BY DEF NoEdit, Plan, Edits, EditOK

\* A write that lands makes stale what was planned on what it changed, and no
\* more.
LEMMA LandCarries ==
    ASSUME edit \in [Editors -> Edits], NEW e \in Editors, Land(e)
    PROVE  /\ edit' \in [Editors -> Edits] /\ Carried /\ edit'[e] = NoEdit
           /\ \A f \in Editors : edit'[f] = NoEdit \/ edit'[f].stale
<1>1. edit' = [f \in Editors |-> IF f = e \/ edit[f] = NoEdit THEN NoEdit ELSE [edit[f] EXCEPT !.stale = TRUE]]
  BY DEF Land
<1>2. \A f \in Editors : edit'[f] = NoEdit \/ edit'[f] = [edit[f] EXCEPT !.stale = TRUE]
  BY <1>1
<1>3. \A f \in Editors : [edit[f] EXCEPT !.stale = TRUE] \in Edits /\ [edit[f] EXCEPT !.stale = TRUE].stale
  BY DEF Edits
<1>4. edit' \in [Editors -> Edits]
  BY <1>1, <1>3, NoEditIs
<1> QED
  BY <1>1, <1>2, <1>3, <1>4 DEF Carried

\* A refused one changes nothing but its own request.
LEMMA RefusedCarries ==
    ASSUME edit \in [Editors -> Edits], NEW e \in Editors, Refused(e)
    PROVE  edit' \in [Editors -> Edits] /\ Carried /\ \A f \in Editors : edit'[f] = NoEdit \/ edit'[f] = edit[f]
BY NoEditIs DEF Refused, Carried

\* The fields of a plan.
LEMMA PlanIs ==
    /\ \A op, d, i, ds, is : /\ Plan(op, d, i, ds, is).op = op /\ Plan(op, d, i, ds, is).day = d /\ Plan(op, d, i, ds, is).item = i
                             /\ Plan(op, d, i, ds, is).days = ds /\ Plan(op, d, i, ds, is).items = is /\ Plan(op, d, i, ds, is).stale = FALSE
    /\ \A op \in {"createDay", "updateDay", "createProgram", "writeItem", "full"}, d \in Days \cup {Unset},
          i \in Items \cup {Unset, "createProgram"}, ds \in DayRows \cup DayPlans \cup {Unset}, is \in ItemRows \cup ItemPlans \cup {Unset} :
             Plan(op, d, i, ds, is) \in Edits
    /\ \A p \in Edits : LET q == [p EXCEPT !.stale = TRUE]
                        IN  q.op = p.op /\ q.day = p.day /\ q.item = p.item /\ q.days = p.days /\ q.items = p.items /\ q.stale
<1>1. \A op, d, i, ds, is : /\ Plan(op, d, i, ds, is).op = op /\ Plan(op, d, i, ds, is).day = d /\ Plan(op, d, i, ds, is).item = i
                            /\ Plan(op, d, i, ds, is).days = ds /\ Plan(op, d, i, ds, is).items = is /\ Plan(op, d, i, ds, is).stale = FALSE
  BY DEF Plan
<1>2. \A op \in {"createDay", "updateDay", "createProgram", "writeItem", "full"}, d \in Days \cup {Unset},
          i \in Items \cup {Unset, "createProgram"}, ds \in DayRows \cup DayPlans \cup {Unset}, is \in ItemRows \cup ItemPlans \cup {Unset} :
             Plan(op, d, i, ds, is) \in Edits
  BY DEF Plan, Edits
<1>3. \A p \in Edits : LET q == [p EXCEPT !.stale = TRUE]
                       IN  q.op = p.op /\ q.day = p.day /\ q.item = p.item /\ q.days = p.days /\ q.items = p.items /\ q.stale
  BY DEF Edits
<1> QED
  BY <1>1, <1>2, <1>3

\* A request carried over a step plans what it planned, if it plans at all.
Same(p, q) == p.op = q.op /\ p.day = q.day /\ p.item = q.item /\ p.days = q.days /\ p.items = q.items

\* The requests a write only carries plan what they planned.
LEMMA CarriedSame ==
    ASSUME ContentTypes, Carried, NEW f \in Editors, edit'[f].op # "idle"
    PROVE  Same(edit'[f], edit[f]) /\ (~edit'[f].stale => ~edit[f].stale)
<1>1. edit[f] \in Edits
  BY DEF ContentTypes
<1>2. edit'[f] = edit[f] \/ edit'[f] = [edit[f] EXCEPT !.stale = TRUE]
  BY NoEditIs DEF Carried
<1> QED
  BY <1>1, <1>2, PlanIs DEF Same

\* No row goes, and a programme once archived stays so.
Grows ==
    /\ \A d \in Days : day[d].st # "none" => day'[d].st # "none"
    /\ \A i \in Items : item[i].st # "none" => item'[i].st # "none"
    /\ program # "none" => program' # "none"
    /\ program = "archived" => program' = "archived"
    /\ moved \subseteq moved'

\* A plan made good stays one while no day, item or programme goes.
LEMMA EditGrows ==
    ASSUME ContentTypes, edit' \in [Editors -> Edits], Carried, Grows,
           day' \in [Days -> DayRows], item' \in [Items -> ItemRows],
           program' \in {"none", "live", "archived"}, moved' \subseteq Days, twin' \in BOOLEAN
    PROVE  ContentTypes'
<1> SUFFICES ASSUME NEW f \in Editors PROVE EditOK(edit'[f]) /\ Stored(edit[f])'
  BY DEF ContentTypes
<1>1. CASE edit'[f].op = "idle"
  BY <1>1 DEF EditOK, Stored
<1>2. CASE edit'[f].op # "idle"
  <2>1. Same(edit'[f], edit[f])
    BY <1>2, CarriedSame
  <2>2. EditOK(edit[f]) /\ Stored(edit[f])
    BY DEF ContentTypes
  <2>3. EditOK(edit'[f])
    BY <2>1, <2>2 DEF EditOK, Same
  <2>4. edit[f].op = "full" => (\A d \in DOMAIN edit[f].days : d \in Days) /\ (edit[f].items # Unset => \A i \in DOMAIN edit[f].items : i \in Items)
    BY <2>2 DEF EditOK, DayPlans, ItemPlans
  <2>5. Stored(edit[f])'
    <3>1. edit[f].op = "updateDay" => edit[f].day \in Days
      BY <2>2 DEF EditOK
    <3>2. edit'[f].op = "updateDay" => day'[edit'[f].day].st # "none"
      BY <3>1, <2>1, <2>2 DEF Stored, Same, Grows
    <3>3. edit'[f].op = "full" => \A d \in DOMAIN edit'[f].days : edit'[f].days[d].st = "archived" => day'[d].st # "none"
      BY <2>1, <2>2, <2>4 DEF Stored, Same, Grows
    <3>4. edit'[f].op = "full" /\ edit'[f].items # Unset => \A i \in DOMAIN edit'[f].items : edit'[f].items[i].st = "archived" => item'[i].st # "none"
      BY <2>1, <2>2, <2>4 DEF Stored, Same, Grows
    <3> QED
      BY <3>2, <3>3, <3>4 DEF Stored
  <2> QED
    BY <2>3, <2>5
<1> QED
  BY <1>1, <1>2

\* A request that starts, with a good plan, keeps the types.
LEMMA StartTypes ==
    ASSUME ContentTypes, NEW e \in Editors, NEW p \in Edits, Start(e, p), EditOK(p), Stored(p),
           UNCHANGED <<day, item, program, moved, twin>>
    PROVE  ContentTypes' /\ Grows
<1>1. edit' = [edit EXCEPT ![e] = p] /\ edit \in [Editors -> Edits]
  BY DEF Start, ContentTypes
<1>2. edit' \in [Editors -> Edits] /\ \A f \in Editors : edit'[f] = p \/ edit'[f] = edit[f]
  BY <1>1
<1>3. \A f \in Editors : EditOK(edit'[f]) /\ Stored(edit'[f])
  BY <1>2 DEF ContentTypes
<1>4. \A f \in Editors : Stored(edit[f])'
  BY <1>3 DEF Stored
<1> QED
  BY <1>2, <1>3, <1>4 DEF ContentTypes, Grows

\* What writing a day does to the rows.
LEMMA WriteDayDoes ==
    ASSUME ContentTypes, NEW e \in Editors, WriteDay(e)
    PROVE  \/ Refused(e)
           \/ /\ Land(e) /\ item' = item /\ program' = program
              /\ edit[e].op \in {"createDay", "updateDay"} /\ edit[e].day \in Days
              /\ \E r \in DayRows : /\ day' = [day EXCEPT ![edit[e].day] = r]
                                    /\ r.st # "none" /\ r.label = edit[e].days.label
                                    /\ edit[e].op = "updateDay" => r.st = day[edit[e].day].st
              /\ moved' = moved \cup {x \in Days : day[x].st # "none" /\ day'[x].date # day[x].date}
              /\ twin' = (twin \/ edit[e].stale)
<1> DEFINE p == edit[e]
<1>1. EditOK(p) /\ Stored(p) /\ day \in [Days -> DayRows]
  BY DEF ContentTypes
<1>2. CASE p.op = "createDay" /\ WriteDays(e, [day EXCEPT ![p.day] = p.days], TRUE)
  <2>1. p.day \in Days /\ p.days \in DayRows /\ p.days.st = "live"
    BY <1>1, <1>2 DEF EditOK
  <2>2. CASE LabelsIndexed([day EXCEPT ![p.day] = p.days])
    BY <1>2, <2>1, <2>2 DEF WriteDays
  <2>3. CASE ~LabelsIndexed([day EXCEPT ![p.day] = p.days])
    BY <1>2, <2>3 DEF WriteDays
  <2> QED
    BY <2>2, <2>3
<1>3. CASE p.op = "updateDay" /\ WriteDays(e, [day EXCEPT ![p.day] = Day(day[p.day].st, p.days.label, p.days.date)], TRUE)
  <2>1. p.day \in Days /\ p.days \in DayRows /\ p.days.st = "live" /\ day[p.day].st # "none"
    BY <1>1, <1>3 DEF EditOK, Stored
  <2> DEFINE r == Day(day[p.day].st, p.days.label, p.days.date)
  <2>2. r \in DayRows /\ r.st = day[p.day].st /\ r.label = p.days.label
    <3>1. day[p.day].st \in {"live", "archived"} /\ p.days.label \in Labels /\ p.days.date \in Dates
      BY <2>1, <1>1, DayRowIs
    <3> QED
      BY <3>1, DayRowIs
  <2>3. WriteDays(e, [day EXCEPT ![p.day] = r], TRUE)
    BY <1>3
  <2> HIDE DEF r
  <2>4. CASE LabelsIndexed([day EXCEPT ![p.day] = r])
    BY <1>3, <2>1, <2>2, <2>3, <2>4 DEF WriteDays
  <2>5. CASE ~LabelsIndexed([day EXCEPT ![p.day] = r])
    BY <2>3, <2>5 DEF WriteDays
  <2> QED
    BY <2>4, <2>5
<1> QED
  BY <1>2, <1>3 DEF WriteDay

\* What writing an item does.
LEMMA WriteItemDoes ==
    ASSUME ContentTypes, NEW e \in Editors, WriteItem(e)
    PROVE  /\ Land(e) /\ day' = day /\ twin' = twin /\ program' = program
           /\ edit[e].op = "writeItem" /\ edit[e].item \in Items /\ edit[e].items \in ItemRows
           /\ moved' = IF edit[e].stale THEN moved \cup ({edit[e].items.day} \ {Unset}) ELSE moved
           /\ \E r \in ItemRows : /\ item' = [item EXCEPT ![edit[e].item] = r]
                                  /\ r.st # "none" /\ r.day = edit[e].items.day /\ r.start = edit[e].items.start
<1> DEFINE i == edit[e].item
           new == edit[e].items
<1>1. edit[e].op = "writeItem"
  BY DEF WriteItem
<1>2. i \in Items /\ new \in ItemRows /\ new.st = "live" /\ item \in [Items -> ItemRows]
  BY <1>1 DEF ContentTypes, EditOK
<1> DEFINE r == IF item[i].st = "archived" THEN Item("archived", new.day, new.start) ELSE new
<1>3. r \in ItemRows /\ r.st # "none" /\ r.day = new.day /\ r.start = new.start
  <2>1. new.day \in Days \cup {Unset} /\ new.start \in Dates
    BY <1>2, ItemRowIs
  <2>2. CASE item[i].st = "archived"
    BY <2>1, <2>2, ItemRowIs
  <2>3. CASE item[i].st # "archived"
    BY <2>3, <1>2
  <2> QED
    BY <2>2, <2>3
<1>4. item' = [item EXCEPT ![i] = r]
  BY <1>1, <1>2 DEF WriteItem
<1>5. /\ Land(e) /\ day' = day /\ twin' = twin /\ program' = program
      /\ moved' = IF edit[e].stale THEN moved \cup ({new.day} \ {Unset}) ELSE moved
  BY DEF WriteItem, dayVars
<1> HIDE DEF r
<1>6. \E x \in ItemRows : item' = [item EXCEPT ![i] = x] /\ x.st # "none" /\ x.day = new.day /\ x.start = new.start
  BY <1>3, <1>4
<1> QED
  BY <1>1, <1>2, <1>5, <1>6

\* What an archive makes of the requests under way.
LEMMA ArchiveCarries ==
    ASSUME edit \in [Editors -> Edits],
           edit' = [f \in Editors |-> IF edit[f] = NoEdit THEN NoEdit ELSE [edit[f] EXCEPT !.stale = TRUE]]
    PROVE  edit' \in [Editors -> Edits] /\ Carried /\ \A f \in Editors : edit'[f] = NoEdit \/ edit'[f].stale
<1>1. \A f \in Editors : edit'[f] = NoEdit \/ edit'[f] = [edit[f] EXCEPT !.stale = TRUE]
  OBVIOUS
<1>2. \A f \in Editors : [edit[f] EXCEPT !.stale = TRUE] \in Edits /\ [edit[f] EXCEPT !.stale = TRUE].stale
  BY DEF Edits
<1>3. edit' \in [Editors -> Edits]
  BY <1>2, NoEditIs
<1> QED
  BY <1>1, <1>2, <1>3 DEF Carried

\* What a full update does.
LEMMA FullUpdateDoes ==
    ASSUME ContentTypes, NEW e \in Editors, FullUpdate(e)
    PROVE  \/ Refused(e)
           \/ /\ Land(e) /\ edit[e].op = "full"
              /\ day' = AppliedDays(edit[e]) /\ item' = AppliedItems(edit[e])
              /\ edit[e].item = "createProgram" => program = "none"
              /\ program' = IF edit[e].item = "createProgram" THEN "live" ELSE program
              /\ moved' = moved
                    \cup {d \in Days : day[d].st # "none" /\ day'[d].date # day[d].date /\ (edit[e].items = Unset \/ edit[e].stale)}
                    \cup (IF edit[e].stale /\ edit[e].items # Unset
                          THEN {edit[e].items[i].day : i \in DOMAIN edit[e].items} \ {Unset} ELSE {})
              /\ twin' = (twin \/ (edit[e].stale /\ DOMAIN edit[e].days # {}))
BY Zenon DEF FullUpdate

\* What archiving does.
LEMMA ArchivesDo ==
    /\ \A r \in DayRows : r.st = "live" => Day("archived", r.label, r.date) \in DayRows
    /\ \A r \in ItemRows : r.st = "live" =>
          LET a == [r EXCEPT !.st = "archived"]
          IN  a \in ItemRows /\ a.st = "archived" /\ a.day = r.day /\ a.start = r.start
<1>1. \A r \in DayRows : r.st = "live" => Day("archived", r.label, r.date) \in DayRows
  BY DayRowIs
<1>2. ASSUME NEW r \in ItemRows, r.st = "live"
      PROVE  LET a == [r EXCEPT !.st = "archived"]
             IN  a \in ItemRows /\ a.st = "archived" /\ a.day = r.day /\ a.start = r.start
  <2>1. r = Item("live", r.day, r.start) /\ r.day \in Days \cup {Unset} /\ r.start \in Dates
    BY <1>2, ItemRowIs
  <2>2. \A d, t : [Item("live", d, t) EXCEPT !.st = "archived"] = Item("archived", d, t)
    BY DEF Item
  <2>3. [r EXCEPT !.st = "archived"] = Item("archived", r.day, r.start)
    BY <2>1, <2>2
  <2> QED
    BY <2>1, <2>3, ItemRowIs
<1> QED
  BY <1>1, <1>2

\* What is left out is none of the rows.
LEMMA UnsetIsNoDay == Unset \notin Days /\ Unset \notin Items
BY ContentAssumption DEF ContentAssumption

\* A request that starts changes no row: what its plan satisfies is all there
\* is to check.
LEMMA StartKeeps ==
    ASSUME ContentInv, NEW e \in Editors, NEW p \in Edits, Start(e, p), EditOK(p), Stored(p),
           LabelPlan(p), FirstPlan(p), OnDayPlan(p),
           p.op = "createDay" => p.day \in FreeDays,
           p.op # "createDay" => \A d \in Days : day[d].st = "none" => p.day # d,
           p.op = "full" => \A d \in DOMAIN p.days : day[d].st = "none" => d \in FreeDays,
           UNCHANGED <<day, item, program, moved, twin>>
    PROVE  ContentInv'
<1>1. ContentTypes' /\ Grows
  <2>1. ContentTypes
    BY DEF ContentInv
  <2> QED
    BY <2>1, StartTypes
<1>2. edit' = [edit EXCEPT ![e] = p] /\ edit \in [Editors -> Edits] /\ edit[e] = NoEdit
  BY DEF Start, ContentInv, ContentTypes
<1>3. edit'[e] = p /\ \A f \in Editors \ {e} : edit'[f] = edit[f]
  BY <1>2
<1>4. LabelsDistinct' /\ ItemsOnDays' /\ ItemsStored'
  BY DEF ContentInv, LabelsDistinct, ItemsOnDays, ItemsStored, OnDays, LiveDays
<1>5. ASSUME NEW f \in Editors PROVE (LabelPlan(edit[f]) /\ FirstPlan(edit[f]) /\ OnDayPlan(edit[f]))'
  <2>1. LabelPlan(edit'[f]) /\ FirstPlan(edit'[f]) /\ OnDayPlan(edit'[f])
    BY <1>3 DEF ContentInv
  <2>2. AppliedDays(edit'[f]) = AppliedDays(edit[f])' /\ AppliedItems(edit'[f]) = AppliedItems(edit[f])'
    BY DEF AppliedDays, AppliedItems
  <2>3. LabelPlan(edit[f])'
    BY <2>1, <2>2 DEF LabelPlan, NoDuplicateLabel, LiveDays, Distinct
  <2>4. FirstPlan(edit[f])'
    BY <2>1 DEF FirstPlan
  <2>5. OnDayPlan(edit[f])'
    BY <2>1, <2>2 DEF OnDayPlan, LiveDays, OnDays
  <2> QED
    BY <2>3, <2>4, <2>5
<1>6. DrawnFree'
  <2> SUFFICES ASSUME NEW g \in Editors, edit'[g].op = "createDay"
               PROVE  /\ day[edit'[g].day].st = "none"
                      /\ \A f \in Editors \ {g} : /\ edit'[f].day # edit'[g].day
                                                  /\ edit'[f].op = "full" => edit'[g].day \notin DOMAIN edit'[f].days
    BY DEF DrawnFree
  <2>1. CASE g = e
    <3>1. p.op = "createDay" /\ p.day \in FreeDays
      BY <2>1, <1>3
    <3>2. day[p.day].st = "none" /\ \A f \in Editors : edit[f].day # p.day /\ (edit[f].op = "full" => p.day \notin DOMAIN edit[f].days)
      BY <3>1 DEF FreeDays
    <3> QED
      BY <3>2, <1>3, <2>1
  <2>2. CASE g # e
    <3>1. edit'[g] = edit[g]
      BY <2>2, <1>3
    <3>2. /\ day[edit[g].day].st = "none" /\ edit[g].op = "createDay"
          /\ \A f \in Editors \ {g} : /\ edit[f].day # edit[g].day
                                      /\ edit[f].op = "full" => edit[g].day \notin DOMAIN edit[f].days
      BY <3>1 DEF DrawnFree, ContentInv
    <3>3. edit[g].day \in Days
      BY <3>2 DEF ContentInv, ContentTypes, EditOK
    <3>4. edit[g].day \notin FreeDays
      BY DEF FreeDays
    <3>5. p.day # edit[g].day
      BY <3>2, <3>3, <3>4
    <3>6. p.op = "full" => edit[g].day \notin DOMAIN p.days
      BY <3>2, <3>4
    <3> QED
      BY <3>1, <3>2, <3>5, <3>6, <1>3
  <2> QED
    BY <2>1, <2>2
<1> QED
  BY <1>1, <1>4, <1>5, <1>6 DEF ContentInv

\* What a day's check has found.
LEMMA DayChecks ==
    ASSUME ContentInv, NEW e \in Editors, NEW d \in Days, NEW l \in Labels, NEW t \in Dates,
           CreateDayCheck(e, d, l, t) \/ UpdateDayCheck(e, d, l, t)
    PROVE  ContentInv'
<1> DEFINE plan == Day("live", l, t)
<1>1. plan \in DayRows /\ plan.st = "live" /\ plan.label = l
  BY DayRowIs
<1>3. UNCHANGED <<day, item, program, moved, twin>>
  BY DEF CreateDayCheck, UpdateDayCheck, dayVars
<1> DEFINE p(op) == Plan(op, d, Unset, plan, Unset)
<1>4. \A op \in {"createDay", "updateDay"} :
         /\ p(op) \in Edits /\ p(op).op = op /\ p(op).day = d /\ p(op).days = plan /\ p(op).stale = FALSE
  <2> HIDE DEF plan
  <2> QED
    BY <1>1, PlanIs
<1> HIDE DEF p, plan
<1>5. \A op \in {"createDay", "updateDay"} : EditOK(p(op)) /\ FirstPlan(p(op)) /\ OnDayPlan(p(op))
  BY <1>1, <1>4 DEF EditOK, FirstPlan, OnDayPlan
<1>6. CASE CreateDayCheck(e, d, l, t)
  <2>1. d \in FreeDays /\ NoDuplicateLabel(l, Unset) /\ Start(e, p("createDay"))
    BY <1>6 DEF CreateDayCheck, p, plan
  <2>2. Stored(p("createDay"))
    BY <1>4 DEF Stored
  <2>3. LabelPlan(p("createDay"))
    <3>1. NoDuplicateLabel(l, d)
      BY <2>1, UnsetIsNoDay DEF NoDuplicateLabel, LiveDays
    <3> QED
      BY <3>1, <1>1, <1>4 DEF LabelPlan
  <2> QED
    BY <1>3, <1>4, <1>5, <2>1, <2>2, <2>3, StartKeeps
<1>7. CASE UpdateDayCheck(e, d, l, t)
  <2>1. day[d].st = "live" /\ NoDuplicateLabel(l, d) /\ Start(e, p("updateDay"))
    BY <1>7 DEF UpdateDayCheck, p, plan
  <2>2. Stored(p("updateDay"))
    BY <1>4, <2>1 DEF Stored
  <2>3. LabelPlan(p("updateDay"))
    BY <2>1, <1>1, <1>4 DEF LabelPlan
  <2>4. \A x \in Days : day[x].st = "none" => p("updateDay").day # x
    BY <2>1, <1>4
  <2> QED
    BY <1>3, <1>4, <1>5, <2>1, <2>2, <2>3, <2>4, StartKeeps
<1> QED
  BY <1>6, <1>7

\* A programme that may be created is created with nothing in it yet.
LEMMA ProgramChecks ==
    ASSUME ContentInv, NEW e \in Editors, CreateProgramCheck(e)
    PROVE  ContentInv'
<1> DEFINE p == Plan("createProgram", Unset, Unset, Unset, Unset)
<1>1. p \in Edits /\ p.op = "createProgram" /\ p.day = Unset
  <2>1. p.op = "createProgram" /\ p.day = Unset
    BY DEF Plan
  <2>2. p \in Edits
    BY DEF Plan, Edits
  <2> QED
    BY <2>1, <2>2
<1>2. Start(e, p) /\ UNCHANGED <<day, item, program, moved, twin>>
  BY DEF CreateProgramCheck, dayVars
<1> HIDE DEF p
<1>3. EditOK(p) /\ Stored(p) /\ LabelPlan(p) /\ FirstPlan(p) /\ OnDayPlan(p)
  BY <1>1 DEF EditOK, Stored, LabelPlan, FirstPlan, OnDayPlan
<1>4. \A d \in Days : day[d].st = "none" => p.day # d
  BY <1>1, UnsetIsNoDay
<1> QED
  BY <1>1, <1>2, <1>3, <1>4, StartKeeps

\* What an item's check has found: its day is a live one that it starts on,
\* or the stored one of an item that is left as it is.
LEMMA ItemChecks ==
    ASSUME ContentInv, NEW e \in Editors, NEW i \in Items, NEW d \in Days \cup {Unset}, NEW t \in Dates,
           CreateItemCheck(e, i, d, t) \/ UpdateItemCheck(e, i, d, t)
    PROVE  ContentInv'
<1> DEFINE new == Item("live", d, t)
           p == Plan("writeItem", Unset, i, Unset, new)
<1>1. new \in ItemRows /\ new.st = "live" /\ new.day = d /\ new.start = t
  BY ItemRowIs
<1> HIDE DEF new
<1>2. p \in Edits /\ p.op = "writeItem" /\ p.day = Unset /\ p.item = i /\ p.items = new
  <2>1. p.op = "writeItem" /\ p.day = Unset /\ p.item = i /\ p.items = new
    BY DEF Plan
  <2>2. p \in Edits
    BY <1>1 DEF Plan, Edits
  <2> QED
    BY <2>1, <2>2
<1>3. Start(e, p) /\ UNCHANGED <<day, item, program, moved, twin>> /\ program = "live"
  BY DEF CreateItemCheck, UpdateItemCheck, dayVars, new
<1> HIDE DEF p
<1>4. \A x \in Days : day[x].st = "none" => p.day # x
  BY <1>2, UnsetIsNoDay
<1>5. EditOK(p) /\ Stored(p) /\ LabelPlan(p)
  BY <1>1, <1>2 DEF EditOK, Stored, LabelPlan
<1>6. ItemsStored /\ ItemsOnDays
  BY DEF ContentInv
<1>7. d # Unset => d \in LiveDays \/ d = item[i].day
  BY DEF CreateItemCheck, UpdateItemCheck
<1>8. FirstPlan(p)
  BY <1>1, <1>2, <1>3, <1>6, <1>7 DEF FirstPlan, ItemsStored, LiveDays
<1>9. OnDayPlan(p)
  <2> SUFFICES ASSUME d \in LiveDays \ moved PROVE t = day[d].date
    BY <1>1, <1>2 DEF OnDayPlan
  <2>1. CASE CreateItemCheck(e, i, d, t)
    BY <2>1, UnsetIsNoDay DEF CreateItemCheck, StartsOnItsDay, LiveDays
  <2>2. CASE UpdateItemCheck(e, i, d, t)
    <3>1. i \in LiveItems /\ (<<d, t>> # <<item[i].day, item[i].start>> => StartsOnItsDay(d, t))
      BY <2>2 DEF UpdateItemCheck
    <3>2. CASE <<d, t>> = <<item[i].day, item[i].start>>
      BY <3>1, <3>2, <1>3, <1>6 DEF ItemsOnDays, OnDays, LiveDays, LiveItems
    <3>3. CASE StartsOnItsDay(d, t)
      BY <3>3, UnsetIsNoDay DEF StartsOnItsDay, LiveDays
    <3> QED
      BY <3>1, <3>2, <3>3
  <2> QED
    BY <2>1, <2>2
<1> QED
  BY <1>2, <1>3, <1>4, <1>5, <1>8, <1>9, StartKeeps

\* What the full update's plan would leave of the days: the kept ones, as
\* they were sent.
LEMMA PlanLeavesDays ==
    ASSUME ContentTypes, NEW to \in DayLists, NEW p, p.days = PlannedDays(to)
    PROVE  \A d \in Days : AppliedDays(p)[d].st = "live" =>
              /\ to[d] # Unset /\ d \in Kept(to)
              /\ AppliedDays(p)[d] = Day("live", to[d][1], to[d][2])
<1> SUFFICES ASSUME NEW d \in Days, AppliedDays(p)[d].st = "live"
             PROVE  to[d] # Unset /\ d \in Kept(to) /\ AppliedDays(p)[d] = Day("live", to[d][1], to[d][2])
  OBVIOUS
<1>1. /\ to[d] # Unset => day[d].st # "archived"
      /\ d \in DOMAIN p.days /\ to[d] # Unset => p.days[d] = Day("live", to[d][1], to[d][2])
      /\ d \in DOMAIN p.days /\ to[d] = Unset => p.days[d].st = "archived"
      /\ d \notin DOMAIN p.days /\ to[d] # Unset => day[d] = Day("live", to[d][1], to[d][2])
      /\ d \notin DOMAIN p.days /\ to[d] = Unset => day[d].st # "live"
  BY PlannedDaysAre
<1>2. DOMAIN to = Days
  BY DEF DayLists
<1>3. CASE d \notin DOMAIN p.days
  <2>1. AppliedDays(p)[d] = day[d]
    BY <1>3 DEF AppliedDays
  <2> QED
    BY <2>1, <1>1, <1>2, <1>3 DEF Kept
<1>4. CASE d \in DOMAIN p.days /\ p.days[d].st = "archived"
  <2>1. AppliedDays(p)[d] = Day("archived", day[d].label, day[d].date)
    BY <1>4 DEF AppliedDays
  <2> QED
    BY <2>1, DayRowIs
<1>5. CASE d \in DOMAIN p.days /\ p.days[d].st # "archived"
  <2>1. to[d] # Unset /\ day[d].st # "archived" /\ p.days[d] = Day("live", to[d][1], to[d][2])
    BY <1>1, <1>5
  <2>2. AppliedDays(p)[d] = Day("live", p.days[d].label, p.days[d].date)
    BY <2>1, <1>5 DEF AppliedDays
  <2>3. p.days[d].label = to[d][1] /\ p.days[d].date = to[d][2]
    BY <2>1, DayRowIs
  <2> QED
    BY <2>1, <2>2, <2>3, <1>2 DEF Kept
<1> QED
  BY <1>3, <1>4, <1>5

\* And of the items.
LEMMA PlanLeavesItems ==
    ASSUME ContentTypes, program # "archived", NEW its \in ItemLists, NEW p, p.items = PlannedItems(its), p.items # Unset
    PROVE  \A i \in Items : AppliedItems(p)[i].st = "live" =>
              its[i] # Unset /\ AppliedItems(p)[i] = Item("live", its[i][1], its[i][2])
<1> SUFFICES ASSUME NEW i \in Items, AppliedItems(p)[i].st = "live"
             PROVE  its[i] # Unset /\ AppliedItems(p)[i] = Item("live", its[i][1], its[i][2])
  OBVIOUS
<1>1. /\ its[i] # Unset => item[i].st # "archived"
      /\ i \in DOMAIN p.items /\ its[i] # Unset => p.items[i] = Item("live", its[i][1], its[i][2])
      /\ i \in DOMAIN p.items /\ its[i] = Unset => p.items[i] = Item("archived", item[i].day, item[i].start)
      /\ i \notin DOMAIN p.items /\ its[i] # Unset => item[i] = Item("live", its[i][1], its[i][2])
      /\ i \notin DOMAIN p.items /\ its[i] = Unset => item[i].st # "live"
  BY PlannedItemsAre
<1>3. CASE i \notin DOMAIN p.items
  <2>1. AppliedItems(p)[i] = item[i]
    BY <1>3 DEF AppliedItems
  <2> QED
    BY <2>1, <1>1, <1>3
<1>4. CASE i \in DOMAIN p.items /\ p.items[i].st = "archived"
  <2>1. AppliedItems(p)[i] = Item("archived", item[i].day, item[i].start)
    BY <1>4 DEF AppliedItems
  <2> QED
    BY <2>1, ItemRowIs
<1>5. CASE i \in DOMAIN p.items /\ p.items[i].st # "archived"
  <2>2. its[i] # Unset /\ item[i].st # "archived" /\ p.items[i] = Item("live", its[i][1], its[i][2])
    BY <1>1, <1>5, ItemRowIs
  <2>3. AppliedItems(p)[i] = Item("live", p.items[i].day, p.items[i].start)
    BY <2>2, <1>5 DEF AppliedItems
  <2>4. p.items[i].day = its[i][1] /\ p.items[i].start = its[i][2]
    BY <2>2, ItemRowIs
  <2> QED
    BY <2>2, <2>3, <2>4
<1> QED
  BY <1>3, <1>4, <1>5

\* What the full update's check has found: distinct labels among the days it
\* keeps, and its items on them; an item it does not look at again is one that
\* stays as it is under a day whose date stays as it is.
LEMMA FullUpdateChecks ==
    ASSUME ContentInv, NEW e \in Editors, NEW to \in DayLists, NEW its \in ItemLists \cup {Unset},
           FullUpdateCheck(e, to, its)
    PROVE  ContentInv'
<1> DEFINE sent == its # Unset
           ds == PlannedDays(to)
           is == IF sent THEN PlannedItems(its) ELSE Unset
           pi == IF sent /\ program = "none" /\ DOMAIN is # {} THEN "createProgram" ELSE Unset
           p == Plan("full", Unset, pi, ds, is)
<1>0. ContentTypes /\ ItemsStored /\ ItemsOnDays
  BY DEF ContentInv
<1>1. Start(e, p) /\ UNCHANGED <<day, item, program, moved, twin>>
  BY DEF FullUpdateCheck, dayVars
<1>2. sent => /\ program = "archived" => \A i \in DOMAIN its : its[i] = Unset
              /\ \A i \in DOMAIN its : its[i] # Unset => ItemAllowed(i, its[i][1], its[i][2], to)
  BY DEF FullUpdateCheck
<1>3. \A c, d \in Kept(to) : Fold[to[c][1]] = Fold[to[d][1]] => c = d
  BY DEF FullUpdateCheck
<1>4. ds \in DayPlans
  BY <1>0, PlannedDaysAre
<1>5. sent => is \in ItemPlans
  <2> SUFFICES ASSUME sent PROVE PlannedItems(its) \in ItemPlans
    OBVIOUS
  <2>1. its \in ItemLists
    OBVIOUS
  <2> QED
    BY <2>1, <1>0, PlannedItemsAre
<1>6. is \in ItemPlans \cup {Unset} /\ (~sent => is = Unset)
  BY <1>5
<1>7. pi \in Items \cup {Unset, "createProgram"}
      /\ (program = "none" /\ sent /\ DOMAIN is # {} => pi = "createProgram")
  <2> HIDE DEF is
  <2> QED
    OBVIOUS
<1>8. p.op = "full" /\ p.day = Unset /\ p.item = pi /\ p.days = ds /\ p.items = is /\ p.stale = FALSE
  <2> HIDE DEF ds, is, pi
  <2> QED
    BY DEF Plan
<1>9. p \in Edits
  <2> HIDE DEF ds, is, pi
  <2> QED
    BY <1>4, <1>6, <1>7 DEF Plan, Edits
<1>10. sent /\ is # Unset => /\ its \in ItemLists /\ is = PlannedItems(its)
                             /\ \A i \in DOMAIN is : is[i].st # "none" /\ (is[i].st = "archived" => item[i].st # "none")
  <2> SUFFICES ASSUME sent
               PROVE  \A i \in DOMAIN PlannedItems(its) :
                          PlannedItems(its)[i].st # "none" /\ (PlannedItems(its)[i].st = "archived" => item[i].st # "none")
    OBVIOUS
  <2>1. its \in ItemLists
    OBVIOUS
  <2> QED
    BY <2>1, <1>0, PlannedItemsAre
<1>11. \A d \in DOMAIN ds : d \in Days /\ ds[d].st # "none" /\ (ds[d].st = "archived" => day[d].st # "none")
  <2>1. \A d \in DOMAIN ds : ds[d].st # "none" /\ (ds[d].st = "archived" => day[d].st # "none")
    BY <1>0, PlannedDaysAre
  <2> HIDE DEF ds
  <2> QED
    BY <2>1, <1>4 DEF DayPlans
<1>12. \A d \in DOMAIN ds : day[d].st = "none" => d \in FreeDays
  <2> SUFFICES ASSUME NEW d \in DOMAIN ds, day[d].st = "none" PROVE d \in FreeDays
    OBVIOUS
  <2>1. d \in Days
    BY <1>11
  <2>2. to[d] # Unset
    BY <2>1, <1>0, PlannedDaysAre
  <2>3. to[d] \in DayInputs(d)
    BY <2>1 DEF DayLists
  <2> QED
    BY <2>2, <2>3 DEF DayInputs, LiveDays
<1> HIDE DEF ds, is, pi, p
<1>13. EditOK(p)
  BY <1>4, <1>5, <1>6, <1>8, <1>10, <1>11 DEF EditOK
<1>14. Stored(p)
  BY <1>6, <1>8, <1>10, <1>11 DEF Stored
<1>15. \A d \in Days : AppliedDays(p)[d].st = "live" =>
          to[d] # Unset /\ d \in Kept(to) /\ AppliedDays(p)[d] = Day("live", to[d][1], to[d][2])
  BY <1>0, <1>8, PlanLeavesDays DEF ds
<1>16. LabelPlan(p)
  <2> SUFFICES Distinct(AppliedDays(p))
    BY <1>8 DEF LabelPlan
  <2>1. \A d \in Days : AppliedDays(p)[d].st = "live" => d \in Kept(to) /\ AppliedDays(p)[d].label = to[d][1]
    BY <1>15, DayRowIs
  <2> QED
    BY <2>1, <1>3 DEF Distinct
<1>17. ASSUME sent, NEW i \in Items, its[i] # Unset
       PROVE  /\ ItemAllowed(i, its[i][1], its[i][2], to) /\ program # "archived"
              /\ its[i][1] \in Days \cup {Unset} /\ its[i][2] \in Dates /\ item[i].st # "archived"
  <2>1. its \in ItemLists /\ DOMAIN its = Items
    BY <1>17 DEF ItemLists
  <2>2. its[i][1] \in Days \cup {Unset} /\ its[i][2] \in Dates /\ item[i].st # "archived"
    BY <1>0, <1>17, <2>1, PlannedItemsAre
  <2> QED
    BY <2>1, <2>2, <1>2, <1>17
<1>18. FirstPlan(p)
  <2>1. program = "none" /\ p.items # Unset /\ p.item # "createProgram" => DOMAIN p.items = {}
    BY <1>6, <1>7, <1>8
  <2>2. ASSUME p.items # Unset, NEW i \in DOMAIN p.items, p.items[i].day # Unset
        PROVE  day[p.items[i].day].st # "none" \/ p.items[i].day \in DOMAIN p.days
    <3>1. sent /\ its \in ItemLists /\ p.items = PlannedItems(its) /\ is \in ItemPlans
      BY <2>2, <1>5, <1>6, <1>8, <1>10
    <3>2. i \in Items
      BY <3>1, <1>8, <2>2 DEF ItemPlans
    <3>3. CASE its[i] = Unset
      <4>1. p.items[i] = Item("archived", item[i].day, item[i].start)
        BY <1>0, <2>2, <3>1, <3>2, <3>3, PlannedItemsAre
      <4>2. p.items[i].day = item[i].day
        BY <4>1, ItemRowIs
      <4> QED
        BY <4>2, <3>2, <2>2, <1>0 DEF ItemsStored
    <3>4. CASE its[i] # Unset
      <4>1. p.items[i] = Item("live", its[i][1], its[i][2])
        BY <1>0, <2>2, <3>1, <3>2, <3>4, PlannedItemsAre
      <4>2. p.items[i].day = its[i][1] /\ its[i][1] \in Days \cup {Unset}
        BY <4>1, <3>1, <3>2, <3>4, <1>17, ItemRowIs
      <4>3. its[i][1] \in Kept(to) \/ its[i][1] = item[i].day
        BY <4>2, <2>2, <3>1, <3>2, <3>4, <1>17 DEF ItemAllowed
      <4>4. CASE its[i][1] = item[i].day
        BY <4>2, <4>4, <3>2, <2>2, <1>0 DEF ItemsStored
      <4>5. CASE its[i][1] \in Kept(to)
        <5> DEFINE d == its[i][1]
        <5>1. d \in Days /\ to[d] # Unset
          BY <4>2, <4>5, <2>2 DEF Kept
        <5>2. d \notin DOMAIN ds => day[d] = Day("live", to[d][1], to[d][2])
          BY <5>1, <1>0, PlannedDaysAre DEF ds
        <5> QED
          BY <5>2, <4>2, <1>8, DayRowIs
      <4> QED
        BY <4>3, <4>4, <4>5
    <3> QED
      BY <3>3, <3>4
  <2> QED
    BY <2>1, <2>2, <1>8 DEF FirstPlan
<1>19. OnDayPlan(p)
  <2> SUFFICES ASSUME program # "archived", p.items # Unset PROVE OnDays(AppliedDays(p), AppliedItems(p))
    BY <1>8 DEF OnDayPlan
  <2> SUFFICES ASSUME NEW d \in Days \ moved, NEW i \in Items, AppliedDays(p)[d].st = "live", AppliedItems(p)[i].st = "live",
                      AppliedItems(p)[i].day = d
               PROVE  AppliedItems(p)[i].start = AppliedDays(p)[d].date
    BY DEF OnDays
  <2>1. sent /\ its \in ItemLists /\ p.items = PlannedItems(its)
    BY <1>6, <1>8, <1>10
  <2>2. its[i] # Unset /\ AppliedItems(p)[i] = Item("live", its[i][1], its[i][2])
    BY <1>0, <2>1, PlanLeavesItems
  <2>3. its[i][1] = d /\ AppliedItems(p)[i].start = its[i][2]
    BY <2>2, ItemRowIs
  <2>4. to[d] # Unset /\ d \in Kept(to) /\ AppliedDays(p)[d].date = to[d][2]
    BY <1>15, DayRowIs
  <2>5. ItemAllowed(i, d, its[i][2], to) /\ item[i].st # "archived"
    BY <1>17, <2>1, <2>2, <2>3
  <2> SUFFICES ASSUME its[i][2] # to[d][2] PROVE FALSE
    BY <2>3, <2>4
  <2>6. /\ item[i].st # "none" /\ ~(d \in LiveDays /\ to[d][2] # day[d].date)
        /\ <<d, its[i][2]>> = <<item[i].day, item[i].start>>
    BY <2>4, <2>5 DEF ItemAllowed
  <2>7. item[i] \in ItemRows /\ day[d] \in DayRows
    BY <1>0 DEF ContentTypes
  <2>8. item[i].st = "live" /\ item[i].day = d /\ item[i].start = its[i][2]
    BY <2>5, <2>6, <2>7, ItemRowIs
  <2>9. day[d].st = "live"
    <3>1. day[d].st # "archived"
      BY <1>0, <2>4, PlannedDaysAre
    <3>2. day[d].st # "none"
      BY <1>0, <2>8, UnsetIsNoDay DEF ItemsStored
    <3> QED
      BY <3>1, <3>2, <2>7, DayRowIs
  <2>10. item[i].start = day[d].date
    BY <1>0, <2>8, <2>9 DEF ItemsOnDays, OnDays
  <2> QED
    BY <2>6, <2>8, <2>9, <2>10 DEF LiveDays
<1>20. \A d \in Days : day[d].st = "none" => p.day # d
  BY <1>8, UnsetIsNoDay
<1> QED
  BY <1>1, <1>8, <1>9, <1>12, <1>13, <1>14, <1>16, <1>18, <1>19, <1>20, StartKeeps

\* A write makes every other plan stale, so that a plan is as good as its rows.
LEMMA WritesKeep ==
    ASSUME ContentInv, ContentTypes', Grows, Carried, \A f \in Editors : edit'[f] = NoEdit \/ edit'[f].stale,
           LabelsDistinct', ItemsOnDays', ItemsStored',
           \A f \in Editors : edit'[f].op = "createDay" => day'[edit[f].day].st = day[edit[f].day].st
    PROVE  ContentInv'
<1>0. ContentTypes
  BY DEF ContentInv
<1>1. ASSUME NEW f \in Editors PROVE (LabelPlan(edit[f]) /\ FirstPlan(edit[f]) /\ OnDayPlan(edit[f]))'
  <2>1. CASE edit'[f].op = "idle"
    BY <2>1 DEF LabelPlan, FirstPlan, OnDayPlan
  <2>2. CASE edit'[f].op # "idle"
    <3>1. Same(edit'[f], edit[f])
      BY <1>0, <2>2, CarriedSame
    <3>2. edit'[f].stale
      BY <2>2, NoEditIs
    <3>3. LabelPlan(edit[f])' /\ OnDayPlan(edit[f])'
      BY <3>2 DEF LabelPlan, OnDayPlan
    <3>4. FirstPlan(edit[f]) /\ EditOK(edit[f])
      BY <1>0 DEF ContentInv, ContentTypes
    <3>5. \A d \in Days : day[d].st # "none" => day'[d].st # "none"
      BY DEF Grows
    <3>6. program' = "none" => program = "none"
      BY DEF Grows
    <3>7. edit[f].op = "writeItem" => edit[f].items.day \in Days \cup {Unset}
      BY <3>4, ItemRowIs DEF EditOK
    <3>8. edit[f].op = "full" /\ edit[f].items # Unset => \A i \in DOMAIN edit[f].items : edit[f].items[i].day \in Days \cup {Unset}
      BY <3>4, ItemRowIs DEF EditOK, ItemPlans
    <3>9. FirstPlan(edit[f])'
      BY <3>1, <3>4, <3>5, <3>6, <3>7, <3>8 DEF FirstPlan, Same
    <3> QED
      BY <3>3, <3>9
  <2> QED
    BY <2>1, <2>2
<1>2. DrawnFree'
  <2> SUFFICES ASSUME NEW g \in Editors, edit'[g].op = "createDay"
               PROVE  /\ day'[edit'[g].day].st = "none"
                      /\ \A f \in Editors \ {g} : /\ edit'[f].day # edit'[g].day
                                                  /\ edit'[f].op = "full" => edit'[g].day \notin DOMAIN edit'[f].days
    BY DEF DrawnFree
  <2>1. Same(edit'[g], edit[g])
    BY <1>0, CarriedSame
  <2>2. /\ edit[g].op = "createDay" /\ day[edit[g].day].st = "none" /\ edit[g].day \in Days
        /\ \A f \in Editors \ {g} : /\ edit[f].day # edit[g].day
                                    /\ edit[f].op = "full" => edit[g].day \notin DOMAIN edit[f].days
    BY <2>1, <1>0 DEF Same, DrawnFree, ContentInv, ContentTypes, EditOK
  <2>3. day'[edit'[g].day].st = "none"
    BY <2>1, <2>2 DEF Same
  <2>4. ASSUME NEW f \in Editors \ {g}
        PROVE  edit'[f].day # edit'[g].day /\ (edit'[f].op = "full" => edit'[g].day \notin DOMAIN edit'[f].days)
    <3>1. CASE edit'[f] = NoEdit
      <4>1. NoEdit.day = Unset /\ NoEdit.op = "idle"
        BY DEF NoEdit, Plan
      <4> QED
        BY <3>1, <4>1, <2>1, <2>2, UnsetIsNoDay DEF Same
    <3>2. CASE edit'[f] # NoEdit
      <4>1. edit[f] \in Edits /\ (edit'[f] = edit[f] \/ edit'[f] = [edit[f] EXCEPT !.stale = TRUE])
        BY <1>0, <3>2 DEF Carried, ContentTypes
      <4>2. CASE edit'[f] = [edit[f] EXCEPT !.stale = TRUE]
        <5> DEFINE q == edit[f]
        <5>1. q \in Edits
          BY <4>1
        <5> HIDE DEF q
        <5>2. Same([q EXCEPT !.stale = TRUE], q)
          BY <5>1, PlanIs DEF Same
        <5>3. Same([edit[f] EXCEPT !.stale = TRUE], edit[f])
          BY <5>2 DEF q
        <5> QED
          BY <4>2, <5>3, <2>1, <2>2 DEF Same
      <4>3. CASE edit'[f] = edit[f]
        BY <4>3, <2>1, <2>2 DEF Same
      <4> QED
        BY <4>1, <4>2, <4>3
    <3> QED
      BY <3>1, <3>2
  <2> QED
    BY <2>3, <2>4
<1> QED
  BY <1>1, <1>2 DEF ContentInv

\* A refused request leaves every row and every other plan as they were.
LEMMA RefusedKeeps ==
    ASSUME ContentInv, NEW e \in Editors, Refused(e)
    PROVE  ContentInv'
<1>0. ContentTypes /\ edit \in [Editors -> Edits]
  BY DEF ContentInv, ContentTypes
<1>1. UNCHANGED <<day, item, program, moved, twin>>
  BY DEF Refused
<1>2. edit' \in [Editors -> Edits] /\ Carried /\ \A f \in Editors : edit'[f] = NoEdit \/ edit'[f] = edit[f]
  BY <1>0, RefusedCarries
<1>3. NoEdit.day = Unset /\ NoEdit.op = "idle"
  BY DEF NoEdit, Plan
<1>4. Grows
  BY <1>1 DEF Grows
<1>5. ContentTypes'
  <2>1. day' \in [Days -> DayRows] /\ item' \in [Items -> ItemRows] /\ program' \in {"none", "live", "archived"}
        /\ moved' \subseteq Days /\ twin' \in BOOLEAN
    BY <1>0, <1>1 DEF ContentTypes
  <2> QED
    BY <2>1, <1>0, <1>2, <1>4, EditGrows
<1>6. LabelsDistinct' /\ ItemsOnDays' /\ ItemsStored'
  BY <1>1 DEF ContentInv, LabelsDistinct, ItemsOnDays, ItemsStored, OnDays, LiveDays
<1>7. ASSUME NEW f \in Editors PROVE (LabelPlan(edit[f]) /\ FirstPlan(edit[f]) /\ OnDayPlan(edit[f]))'
  <2>1. CASE edit'[f] = NoEdit
    BY <2>1, <1>3 DEF LabelPlan, FirstPlan, OnDayPlan
  <2>2. CASE edit'[f] = edit[f]
    <3>1. LabelPlan(edit'[f]) /\ FirstPlan(edit'[f]) /\ OnDayPlan(edit'[f])
      BY <2>2 DEF ContentInv
    <3>2. AppliedDays(edit'[f]) = AppliedDays(edit[f])' /\ AppliedItems(edit'[f]) = AppliedItems(edit[f])'
      BY <1>1 DEF AppliedDays, AppliedItems
    <3>3. LabelPlan(edit[f])'
      BY <1>1, <3>1, <3>2 DEF LabelPlan, NoDuplicateLabel, LiveDays, Distinct
    <3>4. FirstPlan(edit[f])'
      BY <1>1, <3>1 DEF FirstPlan
    <3>5. OnDayPlan(edit[f])'
      BY <1>1, <3>1, <3>2 DEF OnDayPlan, LiveDays, OnDays
    <3> QED
      BY <3>3, <3>4, <3>5
  <2> QED
    BY <2>1, <2>2, <1>2
<1>8. DrawnFree'
  <2>1. DrawnFree /\ \A f \in Editors : edit[f].op = "createDay" => edit[f].day \in Days
    BY <1>0 DEF ContentInv, ContentTypes, EditOK
  <2> QED
    BY <2>1, <1>1, <1>2, <1>3, UnsetIsNoDay DEF DrawnFree
<1> QED
  BY <1>5, <1>6, <1>7, <1>8 DEF ContentInv

\* Archiving a day, an item or the programme takes away and so keeps.
LEMMA ArchiveDayKeeps ==
    ASSUME ContentInv, NEW d \in Days, ArchiveDay(d)
    PROVE  ContentInv'
<1>0. ContentTypes /\ edit \in [Editors -> Edits] /\ day \in [Days -> DayRows] /\ item \in [Items -> ItemRows]
  BY DEF ContentInv, ContentTypes
<1>1. edit' = [f \in Editors |-> IF edit[f] = NoEdit THEN NoEdit ELSE [edit[f] EXCEPT !.stale = TRUE]]
  BY DEF ArchiveDay
<1>2. edit' \in [Editors -> Edits] /\ Carried /\ \A f \in Editors : edit'[f] = NoEdit \/ edit'[f].stale
  BY <1>0, <1>1, ArchiveCarries
<1>3. UNCHANGED <<program, moved, twin>>
  BY DEF ArchiveDay, dayVars
<1>4. LabelsDistinct /\ ItemsOnDays /\ ItemsStored /\ DrawnFree
  BY DEF ContentInv
<1>5. day[d].st = "live" /\ day' = [day EXCEPT ![d] = Day("archived", day[d].label, day[d].date)] /\ item' = item
  BY DEF ArchiveDay
<1>6. Day("archived", day[d].label, day[d].date) \in DayRows /\ Day("archived", day[d].label, day[d].date).st = "archived"
  BY <1>0, <1>5, ArchivesDo, DayRowIs
<1>7. day' \in [Days -> DayRows]
      /\ \A x \in Days : \/ day'[x] = day[x]
                         \/ x = d /\ day'[x].st = "archived"
  BY <1>0, <1>5, <1>6
<1>8. Grows
  BY <1>5, <1>7, <1>3 DEF Grows
<1>9. ContentTypes'
  <2>1. item' \in [Items -> ItemRows] /\ program' \in {"none", "live", "archived"} /\ moved' \subseteq Days /\ twin' \in BOOLEAN
    BY <1>0, <1>3, <1>5 DEF ContentTypes
  <2> QED
    BY <2>1, <1>0, <1>2, <1>7, <1>8, EditGrows
<1>10. LabelsDistinct'
  BY <1>7, <1>3, <1>4 DEF LabelsDistinct, LiveDays
<1>11. ItemsOnDays' /\ ItemsStored'
  <2>1. ItemsOnDays'
    BY <1>5, <1>7, <1>3, <1>4 DEF ItemsOnDays, OnDays
  <2>2. \A x \in Items : item[x].day \in Days \cup {Unset}
    BY <1>0, ItemRowIs
  <2>3. ItemsStored'
    BY <1>5, <1>7, <1>3, <1>4, <2>2 DEF ItemsStored
  <2> QED
    BY <2>1, <2>3
<1>12. \A f \in Editors : edit'[f].op = "createDay" => day'[edit[f].day].st = day[edit[f].day].st
  <2> SUFFICES ASSUME NEW f \in Editors, edit'[f].op = "createDay" PROVE day'[edit[f].day].st = day[edit[f].day].st
    OBVIOUS
  <2>1. edit[f].op = "createDay"
    BY <1>0, <1>2, CarriedSame DEF Same
  <2>2. day[edit[f].day].st = "none" /\ edit[f].day \in Days
    BY <2>1, <1>0, <1>4 DEF DrawnFree, ContentTypes, EditOK
  <2> QED
    BY <2>2, <1>5, <1>7
<1> QED
  BY <1>2, <1>8, <1>9, <1>10, <1>11, <1>12, WritesKeep

LEMMA ArchiveItemKeeps ==
    ASSUME ContentInv, NEW i \in Items, ArchiveItem(i)
    PROVE  ContentInv'
<1>0. ContentTypes /\ edit \in [Editors -> Edits] /\ day \in [Days -> DayRows] /\ item \in [Items -> ItemRows]
  BY DEF ContentInv, ContentTypes
<1>1. edit' = [f \in Editors |-> IF edit[f] = NoEdit THEN NoEdit ELSE [edit[f] EXCEPT !.stale = TRUE]]
  BY DEF ArchiveItem
<1>2. edit' \in [Editors -> Edits] /\ Carried /\ \A f \in Editors : edit'[f] = NoEdit \/ edit'[f].stale
  BY <1>0, <1>1, ArchiveCarries
<1>3. UNCHANGED <<program, moved, twin>>
  BY DEF ArchiveItem, dayVars
<1>4. LabelsDistinct /\ ItemsOnDays /\ ItemsStored /\ DrawnFree
  BY DEF ContentInv
<1>5. item[i].st = "live" /\ item' = [item EXCEPT ![i].st = "archived"] /\ day' = day
  BY DEF ArchiveItem, LiveItems, dayVars
<1> DEFINE a == [item[i] EXCEPT !.st = "archived"]
<1>6. a \in ItemRows /\ a.st = "archived" /\ a.day = item[i].day /\ a.start = item[i].start
  BY <1>0, <1>5, ArchivesDo
<1>7. item' = [item EXCEPT ![i] = a]
  BY <1>0, <1>5
<1> HIDE DEF a
<1>8. item' \in [Items -> ItemRows]
      /\ \A x \in Items : \/ item'[x] = item[x]
                          \/ x = i /\ item'[x].st = "archived" /\ item'[x].day = item[x].day
  BY <1>0, <1>6, <1>7
<1>9. Grows
  BY <1>5, <1>8, <1>3 DEF Grows
<1>10. ContentTypes'
  <2>1. day' \in [Days -> DayRows] /\ program' \in {"none", "live", "archived"} /\ moved' \subseteq Days /\ twin' \in BOOLEAN
    BY <1>0, <1>3, <1>5 DEF ContentTypes
  <2> QED
    BY <2>1, <1>0, <1>2, <1>8, <1>9, EditGrows
<1>11. LabelsDistinct'
  BY <1>5, <1>3, <1>4 DEF LabelsDistinct, LiveDays
<1>12. ItemsOnDays' /\ ItemsStored'
  <2>1. ItemsOnDays'
    BY <1>5, <1>8, <1>3, <1>4 DEF ItemsOnDays, OnDays
  <2>2. ItemsStored'
    BY <1>5, <1>8, <1>3, <1>4 DEF ItemsStored
  <2> QED
    BY <2>1, <2>2
<1>13. \A f \in Editors : edit'[f].op = "createDay" => day'[edit[f].day].st = day[edit[f].day].st
  BY <1>5
<1> QED
  BY <1>2, <1>9, <1>10, <1>11, <1>12, <1>13, WritesKeep

\* An archived programme is shown to nobody and never comes back.
LEMMA ProgramArchiveKeeps ==
    ASSUME ContentInv, ArchiveProgram
    PROVE  ContentInv'
<1>1. program' = "archived" /\ UNCHANGED <<day, item, edit, moved, twin>> /\ program = "live"
  BY DEF ArchiveProgram, dayVars
<1>2. ContentTypes'
  BY <1>1 DEF ContentInv, ContentTypes, Stored
<1>3. LabelsDistinct' /\ ItemsOnDays' /\ ItemsStored' /\ DrawnFree'
  BY <1>1 DEF ContentInv, LabelsDistinct, ItemsOnDays, ItemsStored, DrawnFree, LiveDays
<1>4. ASSUME NEW f \in Editors PROVE (LabelPlan(edit[f]) /\ FirstPlan(edit[f]) /\ OnDayPlan(edit[f]))'
  <2>1. LabelPlan(edit[f]) /\ FirstPlan(edit[f])
    BY DEF ContentInv
  <2>2. AppliedDays(edit[f])' = AppliedDays(edit[f])
    BY <1>1 DEF AppliedDays
  <2>3. LabelPlan(edit[f])'
    BY <1>1, <2>1, <2>2 DEF LabelPlan, NoDuplicateLabel, LiveDays, Distinct
  <2>4. FirstPlan(edit[f])' /\ OnDayPlan(edit[f])'
    BY <1>1, <2>1 DEF FirstPlan, OnDayPlan
  <2> QED
    BY <2>3, <2>4
<1> QED
  BY <1>2, <1>3, <1>4 DEF ContentInv

\* A day written on a check that still holds keeps the labels distinct and the
\* items on their days.
LEMMA WriteDayKeeps ==
    ASSUME ContentInv, NEW e \in Editors, WriteDay(e)
    PROVE  ContentInv'
<1>0. /\ ContentTypes /\ edit \in [Editors -> Edits] /\ day \in [Days -> DayRows] /\ item \in [Items -> ItemRows]
      /\ LabelsDistinct /\ ItemsOnDays /\ ItemsStored /\ DrawnFree
  BY DEF ContentInv, ContentTypes
<1>1. CASE Refused(e)
  BY <1>1, RefusedKeeps
<1>2. CASE ~Refused(e)
  <2> DEFINE p == edit[e]
  <2>1. /\ Land(e) /\ item' = item /\ program' = program
        /\ p.op \in {"createDay", "updateDay"} /\ p.day \in Days
        /\ \E r \in DayRows : /\ day' = [day EXCEPT ![p.day] = r]
                              /\ r.st # "none" /\ r.label = p.days.label
                              /\ p.op = "updateDay" => r.st = day[p.day].st
        /\ moved' = moved \cup {x \in Days : day[x].st # "none" /\ day'[x].date # day[x].date}
        /\ twin' = (twin \/ p.stale)
    BY <1>0, <1>2, WriteDayDoes
  <2>2. PICK r \in DayRows : /\ day' = [day EXCEPT ![p.day] = r]
                             /\ r.st # "none" /\ r.label = p.days.label
                             /\ p.op = "updateDay" => r.st = day[p.day].st
    BY <2>1
  <2>3. edit' \in [Editors -> Edits] /\ Carried /\ edit'[e] = NoEdit /\ \A f \in Editors : edit'[f] = NoEdit \/ edit'[f].stale
    BY <1>0, <2>1, LandCarries
  <2>4. p \in Edits /\ LabelPlan(p) /\ p.stale \in BOOLEAN
    BY <1>0 DEF ContentInv, Edits
  <2>5. p.op = "createDay" => day[p.day].st = "none"
    BY <1>0 DEF DrawnFree
  <2>6. \A f \in Editors : edit'[f].op = "createDay" => edit[f].day # p.day /\ edit[f].day \in Days
    <3> SUFFICES ASSUME NEW f \in Editors, edit'[f].op = "createDay" PROVE edit[f].day # p.day /\ edit[f].day \in Days
      OBVIOUS
    <3>1. f # e
      BY <2>3, NoEditIs
    <3>2. edit[f].op = "createDay"
      BY <1>0, <2>3, CarriedSame DEF Same
    <3> QED
      BY <3>1, <3>2, <1>0 DEF DrawnFree, ContentTypes, EditOK
  <2> HIDE DEF p
  <2>7. day' \in [Days -> DayRows] /\ day'[p.day] = r /\ \A x \in Days \ {p.day} : day'[x] = day[x]
    BY <1>0, <2>1, <2>2
  <2>8. Grows
    BY <2>1, <2>2, <2>7 DEF Grows
  <2>9. moved' \subseteq Days /\ twin' \in BOOLEAN
    <3>1. moved \subseteq Days /\ twin \in BOOLEAN
      BY <1>0 DEF ContentTypes
    <3>2. moved' \subseteq Days
      BY <3>1, <2>1
    <3>3. twin' \in BOOLEAN
      BY <3>1, <2>1, <2>4
    <3> QED
      BY <3>2, <3>3
  <2>10. ContentTypes'
    <3>1. item' \in [Items -> ItemRows] /\ program' \in {"none", "live", "archived"}
      BY <1>0, <2>1 DEF ContentTypes
    <3> QED
      BY <3>1, <1>0, <2>3, <2>7, <2>8, <2>9, EditGrows
  <2>11. LabelsDistinct'
    <3>1. CASE twin' = TRUE
      BY <3>1 DEF LabelsDistinct
    <3>2. CASE twin' # TRUE
      <4>1. ~twin /\ ~p.stale
        BY <3>2, <2>1, <2>4
      <4>2. NoDuplicateLabel(p.days.label, p.day)
        BY <4>1, <2>1, <2>4 DEF LabelPlan
      <4>3. \A c, d \in LiveDays : Fold[day[c].label] = Fold[day[d].label] => c = d
        BY <4>1, <1>0 DEF LabelsDistinct
      <4>4. \A d \in LiveDays \ {p.day} : Fold[day[d].label] # Fold[r.label]
        BY <4>2, <2>2 DEF NoDuplicateLabel
      <4>5. ASSUME NEW c \in Days, NEW d \in Days, day'[c].st = "live", day'[d].st = "live",
                   Fold[day'[c].label] = Fold[day'[d].label], c # d
            PROVE  FALSE
        <5>1. CASE c = p.day
          BY <5>1, <4>4, <4>5, <2>7 DEF LiveDays
        <5>2. CASE d = p.day
          BY <5>2, <4>4, <4>5, <2>7 DEF LiveDays
        <5>3. CASE c # p.day /\ d # p.day
          BY <5>3, <4>3, <4>5, <2>7 DEF LiveDays
        <5> QED
          BY <5>1, <5>2, <5>3
      <4> QED
        BY <4>5 DEF LabelsDistinct, LiveDays
    <3> QED
      BY <3>1, <3>2
  <2>12. ItemsOnDays'
    <3> SUFFICES ASSUME program # "archived", NEW d \in Days \ moved', NEW i \in Items, day'[d].st = "live",
                        item[i].st = "live", item[i].day = d
                 PROVE  item[i].start = day'[d].date
      BY <2>1 DEF ItemsOnDays, OnDays
    <3>1. day[d].st # "none"
      BY <1>0, UnsetIsNoDay DEF ItemsStored
    <3>2. day'[d].date = day[d].date /\ d \in Days \ moved
      BY <3>1, <2>1
    <3>3. day[d].st = "live"
      BY <3>1, <2>1, <2>2, <2>5, <2>7
    <3> QED
      BY <3>2, <3>3, <1>0 DEF ItemsOnDays, OnDays
  <2>13. ItemsStored'
    <3>1. \A x \in Items : item[x].day \in Days \cup {Unset}
      BY <1>0, ItemRowIs
    <3> QED
      BY <3>1, <1>0, <2>1, <2>8 DEF ItemsStored, Grows
  <2>14. \A f \in Editors : edit'[f].op = "createDay" => day'[edit[f].day].st = day[edit[f].day].st
    BY <2>6, <2>7
  <2> QED
    BY <2>3, <2>8, <2>10, <2>11, <2>12, <2>13, <2>14, WritesKeep
<1> QED
  BY <1>1, <1>2

\* A new programme holds no item, but for a second of two created at once.
LEMMA CreateProgramKeeps ==
    ASSUME ContentInv, NEW e \in Editors, CreateProgram(e)
    PROVE  ContentInv'
<1>0. /\ ContentTypes /\ edit \in [Editors -> Edits]
      /\ LabelsDistinct /\ ItemsOnDays /\ ItemsStored
  BY DEF ContentInv, ContentTypes
<1>1. CASE Refused(e)
  BY <1>1, RefusedKeeps
<1>2. CASE ~Refused(e)
  <2>1. program = "none" /\ program' = "live" /\ Land(e) /\ UNCHANGED <<day, item, moved, twin>>
    BY <1>2 DEF CreateProgram, dayVars
  <2>2. edit' \in [Editors -> Edits] /\ Carried /\ \A f \in Editors : edit'[f] = NoEdit \/ edit'[f].stale
    BY <1>0, <2>1, LandCarries
  <2>3. Grows
    BY <2>1 DEF Grows
  <2>4. ContentTypes'
    <3>1. day' \in [Days -> DayRows] /\ item' \in [Items -> ItemRows] /\ program' \in {"none", "live", "archived"}
          /\ moved' \subseteq Days /\ twin' \in BOOLEAN
      BY <1>0, <2>1 DEF ContentTypes
    <3> QED
      BY <3>1, <1>0, <2>2, <2>3, EditGrows
  <2>5. LabelsDistinct' /\ ItemsOnDays' /\ ItemsStored'
    BY <1>0, <2>1 DEF LabelsDistinct, LiveDays, ItemsOnDays, OnDays, ItemsStored
  <2>6. \A f \in Editors : edit'[f].op = "createDay" => day'[edit[f].day].st = day[edit[f].day].st
    BY <2>1
  <2> QED
    BY <2>2, <2>3, <2>4, <2>5, <2>6, WritesKeep
<1> QED
  BY <1>1, <1>2

\* An item written on a check that still holds starts on its day's date.
LEMMA WriteItemKeeps ==
    ASSUME ContentInv, NEW e \in Editors, WriteItem(e)
    PROVE  ContentInv'
<1>0. /\ ContentTypes /\ edit \in [Editors -> Edits] /\ item \in [Items -> ItemRows]
      /\ LabelsDistinct /\ ItemsOnDays /\ ItemsStored
  BY DEF ContentInv, ContentTypes
<1> DEFINE p == edit[e]
<1>1. /\ Land(e) /\ day' = day /\ twin' = twin /\ program' = program
      /\ p.op = "writeItem" /\ p.item \in Items /\ p.items \in ItemRows
      /\ moved' = IF p.stale THEN moved \cup ({p.items.day} \ {Unset}) ELSE moved
      /\ \E r \in ItemRows : /\ item' = [item EXCEPT ![p.item] = r]
                             /\ r.st # "none" /\ r.day = p.items.day /\ r.start = p.items.start
  BY <1>0, WriteItemDoes
<1>2. PICK r \in ItemRows : /\ item' = [item EXCEPT ![p.item] = r]
                            /\ r.st # "none" /\ r.day = p.items.day /\ r.start = p.items.start
  BY <1>1
<1>3. edit' \in [Editors -> Edits] /\ Carried /\ \A f \in Editors : edit'[f] = NoEdit \/ edit'[f].stale
  BY <1>0, <1>1, LandCarries
<1>4. FirstPlan(p) /\ OnDayPlan(p) /\ p.stale \in BOOLEAN
  BY <1>0 DEF ContentInv, Edits
<1> HIDE DEF p
<1>5. item' \in [Items -> ItemRows] /\ item'[p.item] = r /\ \A x \in Items \ {p.item} : item'[x] = item[x]
  BY <1>0, <1>1, <1>2
<1>6. p.items.day \in Days \cup {Unset}
  BY <1>1, ItemRowIs
<1>7. Grows
  BY <1>1, <1>2, <1>5 DEF Grows
<1>8. ContentTypes'
  <2>1. day' \in [Days -> DayRows] /\ program' \in {"none", "live", "archived"} /\ twin' \in BOOLEAN
    BY <1>0, <1>1 DEF ContentTypes
  <2>2. moved' \subseteq Days
    BY <1>0, <1>1, <1>6 DEF ContentTypes
  <2> QED
    BY <2>1, <2>2, <1>0, <1>3, <1>5, <1>7, EditGrows
<1>9. LabelsDistinct'
  BY <1>0, <1>1 DEF LabelsDistinct, LiveDays
<1>10. ItemsOnDays'
  <2> SUFFICES ASSUME program # "archived", NEW d \in Days \ moved', NEW i \in Items, day[d].st = "live",
                      item'[i].st = "live", item'[i].day = d
               PROVE  item'[i].start = day[d].date
    BY <1>1 DEF ItemsOnDays, OnDays
  <2>1. d \notin moved
    BY <1>1
  <2>2. CASE i # p.item
    BY <2>1, <2>2, <1>0, <1>5 DEF ItemsOnDays, OnDays
  <2>3. CASE i = p.item
    <3>1. p.items.day = d
      BY <2>3, <1>2, <1>5
    <3>2. ~p.stale
      BY <3>1, <1>1, UnsetIsNoDay
    <3> QED
      BY <2>1, <2>3, <3>1, <3>2, <1>1, <1>2, <1>4, <1>5 DEF OnDayPlan, LiveDays
  <2> QED
    BY <2>2, <2>3
<1>11. ItemsStored'
  <2>1. program # "none"
    BY <1>1, <1>4 DEF FirstPlan
  <2>2. \A i \in Items : item'[i].day # Unset => day[item'[i].day].st # "none"
    BY <1>0, <1>1, <1>2, <1>4, <1>5 DEF ItemsStored, FirstPlan
  <2> QED
    BY <2>1, <2>2, <1>1 DEF ItemsStored
<1>12. \A f \in Editors : edit'[f].op = "createDay" => day'[edit[f].day].st = day[edit[f].day].st
  BY <1>1
<1> QED
  BY <1>3, <1>7, <1>8, <1>9, <1>10, <1>11, <1>12, WritesKeep

\* The full update leaves what its plan was checked for; planned on a read
\* that something has made stale, it counts the days it may have upset.
LEMMA FullUpdateKeeps ==
    ASSUME ContentInv, NEW e \in Editors, FullUpdate(e)
    PROVE  ContentInv'
<1>0. /\ ContentTypes /\ edit \in [Editors -> Edits] /\ day \in [Days -> DayRows] /\ item \in [Items -> ItemRows]
      /\ moved \subseteq Days /\ twin \in BOOLEAN /\ program \in {"none", "live", "archived"}
      /\ LabelsDistinct /\ ItemsOnDays /\ ItemsStored /\ DrawnFree
  BY DEF ContentInv, ContentTypes
<1>1. CASE Refused(e)
  BY <1>1, RefusedKeeps
<1>2. CASE ~Refused(e)
  <2> DEFINE p == edit[e]
             rows == AppliedDays(p)
             its == AppliedItems(p)
  <2>1. /\ Land(e) /\ p.op = "full"
        /\ day' = rows /\ item' = its
        /\ p.item = "createProgram" => program = "none"
        /\ program' = IF p.item = "createProgram" THEN "live" ELSE program
        /\ moved' = moved
              \cup {d \in Days : day[d].st # "none" /\ day'[d].date # day[d].date /\ (p.items = Unset \/ p.stale)}
              \cup (IF p.stale /\ p.items # Unset
                    THEN {p.items[i].day : i \in DOMAIN p.items} \ {Unset} ELSE {})
        /\ twin' = (twin \/ (p.stale /\ DOMAIN p.days # {}))
    BY <1>0, <1>2, FullUpdateDoes
  <2>2. edit' \in [Editors -> Edits] /\ Carried /\ edit'[e] = NoEdit /\ \A f \in Editors : edit'[f] = NoEdit \/ edit'[f].stale
    BY <1>0, <2>1, LandCarries
  <2>3. /\ p \in Edits /\ LabelPlan(p) /\ FirstPlan(p) /\ OnDayPlan(p) /\ p.stale \in BOOLEAN
        /\ p.days \in DayPlans /\ (p.items # Unset => p.items \in ItemPlans)
    BY <1>0, <2>1 DEF ContentInv, ContentTypes, EditOK, Edits
  <2>4. /\ rows \in [Days -> DayRows]
        /\ \A d \in Days :
              /\ d \notin DOMAIN p.days => rows[d] = day[d]
              /\ day[d].st # "none" => rows[d].st # "none"
              /\ d \in DOMAIN p.days => rows[d].st # "none"
              /\ rows[d].st = "live" => day[d].st # "archived"
    BY <1>0, <2>1, AppliedDaysAre
  <2>5. /\ its \in [Items -> ItemRows]
        /\ \A i \in Items :
              /\ p.items = Unset \/ i \notin DOMAIN p.items => its[i] = item[i]
              /\ item[i].st # "none" => its[i].st # "none"
              /\ p.items # Unset /\ i \in DOMAIN p.items =>
                    /\ p.items[i].st = "archived" => its[i].st = "archived" /\ its[i].day = item[i].day
                    /\ p.items[i].st # "archived" => its[i].day = p.items[i].day
    BY <1>0, <2>1, AppliedItemsAre
  <2>6. \A f \in Editors : edit'[f].op = "createDay" =>
           edit[f].day \in Days /\ day[edit[f].day].st = "none" /\ edit[f].day \notin DOMAIN p.days
    <3> SUFFICES ASSUME NEW f \in Editors, edit'[f].op = "createDay"
                 PROVE  edit[f].day \in Days /\ day[edit[f].day].st = "none" /\ edit[f].day \notin DOMAIN p.days
      OBVIOUS
    <3>1. f # e
      BY <2>2, NoEditIs
    <3>2. edit[f].op = "createDay"
      BY <1>0, <2>2, CarriedSame DEF Same
    <3>3. edit[f].day \in Days
      BY <3>2, <1>0 DEF ContentTypes, EditOK
    <3> QED
      BY <3>1, <3>2, <3>3, <1>0, <2>1 DEF DrawnFree
  <2>7. p.items # Unset => \A i \in DOMAIN p.items : i \in Items /\ p.items[i].day \in Days \cup {Unset}
    BY <2>3, ItemRowIs DEF ItemPlans
  <2>8. \A d \in DOMAIN p.days : d \in Days
    BY <2>3 DEF DayPlans
  <2> HIDE DEF p
  <2>9. /\ moved \subseteq moved'
        /\ \A d \in Days \ moved' : day[d].st # "none" /\ (p.items = Unset \/ p.stale) => day'[d].date = day[d].date
        /\ p.stale /\ p.items # Unset => \A i \in DOMAIN p.items : p.items[i].day # Unset => p.items[i].day \in moved'
    BY <2>1
  <2>10. moved' \subseteq Days
    BY <1>0, <2>1, <2>7
  <2>11. twin' \in BOOLEAN
    BY <1>0, <2>1, <2>3
  <2> HIDE DEF rows, its
  <2>12. Grows
    <3>1. program # "none" => program' # "none"
      BY <2>1, <1>0
    <3>2. program = "archived" => program' = "archived"
      BY <2>1, <1>0
    <3> QED
      BY <3>1, <3>2, <2>1, <2>4, <2>5, <2>9 DEF Grows
  <2>13. ContentTypes'
    <3>1. day' \in [Days -> DayRows] /\ item' \in [Items -> ItemRows] /\ program' \in {"none", "live", "archived"}
      BY <1>0, <2>1, <2>4, <2>5
    <3> QED
      BY <3>1, <1>0, <2>2, <2>10, <2>11, <2>12, EditGrows
  <2>14. LabelsDistinct'
    <3>1. CASE twin' = TRUE
      BY <3>1 DEF LabelsDistinct
    <3>2. CASE twin' # TRUE /\ p.stale
      <4>1. ~twin /\ DOMAIN p.days = {}
        BY <3>2, <2>1, <1>0
      <4>2. \A d \in Days : day'[d] = day[d]
        BY <4>1, <2>1, <2>4
      <4> QED
        BY <4>1, <4>2, <1>0 DEF LabelsDistinct, LiveDays
    <3>3. CASE twin' # TRUE /\ ~p.stale
      <4>1. Distinct(AppliedDays(p))
        BY <3>3, <2>1, <2>3 DEF LabelPlan
      <4>2. Distinct(day')
        BY <4>1, <2>1 DEF rows
      <4> QED
        BY <4>2 DEF Distinct, LabelsDistinct, LiveDays
    <3> QED
      BY <3>1, <3>2, <3>3, <2>3
  <2>15. ItemsOnDays'
    <3> SUFFICES ASSUME program' # "archived", NEW d \in Days \ moved', NEW i \in Items, day'[d].st = "live",
                        item'[i].st = "live", item'[i].day = d
                 PROVE  item'[i].start = day'[d].date
      BY DEF ItemsOnDays, OnDays
    <3>1. program # "archived" /\ d \notin moved
      BY <2>12, <2>9 DEF Grows
    <3>2. CASE p.items # Unset /\ ~p.stale
      <4>1. OnDays(AppliedDays(p), AppliedItems(p))
        BY <3>1, <3>2, <2>1, <2>3 DEF OnDayPlan
      <4> QED
        BY <4>1, <3>1, <2>1 DEF OnDays, rows, its
    <3>3. CASE p.items = Unset \/ p.stale
      <4>1. item'[i] = item[i]
        <5>1. CASE p.items = Unset \/ i \notin DOMAIN p.items
          BY <5>1, <2>1, <2>5
        <5>2. CASE p.items # Unset /\ i \in DOMAIN p.items
          <6>1. p.items[i].st # "archived" /\ p.items[i].day = d
            BY <5>2, <2>1, <2>5
          <6>2. d \in moved'
            BY <6>1, <5>2, <3>3, <2>9, UnsetIsNoDay
          <6> QED
            BY <6>2
        <5> QED
          BY <5>1, <5>2
      <4>2. day[d].st # "none"
        BY <4>1, <1>0, UnsetIsNoDay DEF ItemsStored
      <4>3. day[d].st = "live"
        <5>1. day[d] \in DayRows /\ day[d].st # "archived"
          BY <1>0, <2>1, <2>4
        <5> QED
          BY <5>1, <4>2, DayRowIs
      <4>4. day'[d].date = day[d].date
        BY <4>2, <3>3, <2>9
      <4> QED
        BY <4>1, <4>3, <4>4, <3>1, <1>0 DEF ItemsOnDays, OnDays
    <3> QED
      BY <3>2, <3>3, <2>3
  <2>16. ItemsStored'
    <3>1. ASSUME program' = "none", NEW i \in Items PROVE item'[i].st = "none"
      <4>1. program = "none" /\ p.item # "createProgram"
        BY <3>1, <2>1
      <4>2. p.items = Unset \/ DOMAIN p.items = {}
        BY <4>1, <2>1, <2>3 DEF FirstPlan
      <4>3. item'[i] = item[i]
        BY <4>2, <2>1, <2>5
      <4> QED
        BY <4>1, <4>3, <1>0 DEF ItemsStored
    <3>2. ASSUME NEW i \in Items, item'[i].day # Unset PROVE day'[item'[i].day].st # "none"
      <4>1. CASE item'[i].day = item[i].day
        <5>1. item[i].day \in Days /\ day[item[i].day].st # "none"
          BY <4>1, <3>2, <1>0, ItemRowIs DEF ItemsStored
        <5> QED
          BY <5>1, <4>1, <2>1, <2>4
      <4>2. CASE item'[i].day # item[i].day
        <5>1. p.items # Unset /\ i \in DOMAIN p.items /\ item'[i].day = p.items[i].day
          BY <4>2, <2>1, <2>5
        <5>2. p.items[i].day \in Days /\ (day[p.items[i].day].st # "none" \/ p.items[i].day \in DOMAIN p.days)
          BY <5>1, <3>2, <2>1, <2>3, <2>7 DEF FirstPlan
        <5> QED
          BY <5>1, <5>2, <2>1, <2>4
      <4> QED
        BY <4>1, <4>2
    <3> QED
      BY <3>1, <3>2 DEF ItemsStored
  <2>17. \A f \in Editors : edit'[f].op = "createDay" => day'[edit[f].day].st = day[edit[f].day].st
    BY <2>6, <2>1, <2>4
  <2> QED
    BY <2>2, <2>12, <2>13, <2>14, <2>15, <2>16, <2>17, WritesKeep
<1> QED
  BY <1>1, <1>2

\* Nothing is there at first.
LEMMA ContentInitInv == ContentInit => ContentInv
<1> SUFFICES ASSUME ContentInit PROVE ContentInv
  OBVIOUS
<1>1. \A d \in Days : day[d] = Day("none", Unset, Unset) /\ day[d].st = "none"
  BY DEF ContentInit, Day
<1>2. \A i \in Items : item[i] = Item("none", Unset, Unset) /\ item[i].st = "none" /\ item[i].day = Unset
  BY DEF ContentInit, Item
<1>3. \A e \in Editors : edit[e] = NoEdit
  BY DEF ContentInit
<1>4. ContentTypes
  <2>1. day \in [Days -> DayRows] /\ item \in [Items -> ItemRows]
    BY DayRowIs, ItemRowIs DEF ContentInit
  <2>2. edit \in [Editors -> Edits]
    BY NoEditIs DEF ContentInit
  <2>3. \A e \in Editors : EditOK(edit[e]) /\ Stored(edit[e])
    BY <1>3, NoEditIs DEF Stored
  <2> QED
    BY <2>1, <2>2, <2>3 DEF ContentInit, ContentTypes
<1>5. LabelsDistinct /\ ItemsOnDays /\ ItemsStored
  BY <1>1, <1>2 DEF LabelsDistinct, LiveDays, ItemsOnDays, OnDays, ItemsStored
<1>6. DrawnFree
  BY <1>3, NoEditIs DEF DrawnFree
<1>7. \A e \in Editors : LabelPlan(edit[e]) /\ FirstPlan(edit[e]) /\ OnDayPlan(edit[e])
  BY <1>3, NoEditIs DEF LabelPlan, FirstPlan, OnDayPlan
<1> QED
  BY <1>4, <1>5, <1>6, <1>7 DEF ContentInv

\* Every step keeps all of it.
LEMMA ContentNextInv == ContentInv /\ [ContentNext]_contentVars => ContentInv'
<1> SUFFICES ASSUME ContentInv, [ContentNext]_contentVars PROVE ContentInv'
  OBVIOUS
<1>1. CASE ArchiveProgram
  BY <1>1, ProgramArchiveKeeps
<1>2. ASSUME NEW d \in Days, ArchiveDay(d) PROVE ContentInv'
  BY <1>2, ArchiveDayKeeps
<1>3. ASSUME NEW i \in Items, ArchiveItem(i) PROVE ContentInv'
  BY <1>3, ArchiveItemKeeps
<1>4. ASSUME NEW e \in Editors, NEW d \in Days, NEW l \in Labels, NEW t \in Dates,
             CreateDayCheck(e, d, l, t) \/ UpdateDayCheck(e, d, l, t)
      PROVE  ContentInv'
  BY <1>4, DayChecks
<1>5. ASSUME NEW e \in Editors, WriteDay(e) PROVE ContentInv'
  BY <1>5, WriteDayKeeps
<1>6. ASSUME NEW e \in Editors, CreateProgramCheck(e) PROVE ContentInv'
  BY <1>6, ProgramChecks
<1>7. ASSUME NEW e \in Editors, CreateProgram(e) PROVE ContentInv'
  BY <1>7, CreateProgramKeeps
<1>8. ASSUME NEW e \in Editors, NEW i \in Items, NEW d \in Days \cup {Unset}, NEW t \in Dates,
             CreateItemCheck(e, i, d, t) \/ UpdateItemCheck(e, i, d, t)
      PROVE  ContentInv'
  BY <1>8, ItemChecks
<1>9. ASSUME NEW e \in Editors, WriteItem(e) PROVE ContentInv'
  BY <1>9, WriteItemKeeps
<1>10. ASSUME NEW e \in Savers, NEW to \in DayLists, NEW its \in ItemLists \cup {Unset}, FullUpdateCheck(e, to, its)
       PROVE  ContentInv'
  <2>1. e \in Editors
    BY ContentAssumption DEF ContentAssumption
  <2> QED
    BY <1>10, <2>1, FullUpdateChecks
<1>11. ASSUME NEW e \in Savers, FullUpdate(e) PROVE ContentInv'
  <2>1. e \in Editors
    BY ContentAssumption DEF ContentAssumption
  <2> QED
    BY <1>11, <2>1, FullUpdateKeeps
<1>12. CASE UNCHANGED contentVars
  <2>1. UNCHANGED <<day, item, program, edit, moved, twin>>
    BY <1>12 DEF contentVars
  <2>3. ContentTypes' /\ LabelsDistinct' /\ ItemsOnDays' /\ ItemsStored' /\ DrawnFree'
    BY <2>1 DEF ContentInv, ContentTypes, Stored, LabelsDistinct, LiveDays, ItemsOnDays, OnDays, ItemsStored, DrawnFree
  <2>4. ASSUME NEW f \in Editors PROVE (LabelPlan(edit[f]) /\ FirstPlan(edit[f]) /\ OnDayPlan(edit[f]))'
    <3>1. LabelPlan(edit[f]) /\ FirstPlan(edit[f]) /\ OnDayPlan(edit[f])
      BY DEF ContentInv
    <3>2. AppliedDays(edit[f])' = AppliedDays(edit[f]) /\ AppliedItems(edit[f])' = AppliedItems(edit[f])
      BY <2>1 DEF AppliedDays, AppliedItems
    <3>3. LabelPlan(edit[f])'
      BY <2>1, <3>1, <3>2 DEF LabelPlan, NoDuplicateLabel, LiveDays, Distinct
    <3>4. FirstPlan(edit[f])'
      BY <2>1, <3>1 DEF FirstPlan
    <3>5. OnDayPlan(edit[f])'
      BY <2>1, <3>1, <3>2 DEF OnDayPlan, LiveDays, OnDays
    <3> QED
      BY <3>3, <3>4, <3>5
  <2> QED
    BY <2>3, <2>4 DEF ContentInv
<1> QED
  BY <1>1, <1>2, <1>3, <1>4, <1>5, <1>6, <1>7, <1>8, <1>9, <1>10, <1>11, <1>12 DEF ContentNext

\* So the days and items of an event have their types, labels and dates, and
\* the requests under way plan nothing that what they checked would refuse,
\* unless something made them stale.
THEOREM ContentInvariant == ContentSpec => []ContentInv
<1>1. ContentInit => ContentInv
  BY ContentInitInv
<1>2. ContentInv /\ [ContentNext]_contentVars => ContentInv'
  BY ContentNextInv
<1> QED
  BY <1>1, <1>2, PTL DEF ContentSpec

\* The labels of an event's live days are distinct ignoring case, and what a
\* guest is shown under a day starts on its date or on no day's, for any number
\* of days, items and requests (event-day.service.ts, program.service.ts,
\* event-full-update.service.ts).
THEOREM ProgrammeIsKept == ContentSpec => []ProgrammeKept
<1>1. ContentInv => ProgrammeKept
  <2> SUFFICES ASSUME ContentInv PROVE ProgrammeKept
    OBVIOUS
  <2>1. LabelsDistinct /\ ItemsOnDays /\ day \in [Days -> DayRows]
    BY DEF ContentInv, ContentTypes
  <2>2. ASSUME program = "live", NEW d \in LiveDays \ moved, NEW i \in GuestItems(d)
        PROVE  item[i].start = day[d].date \/ (item[i].day = Unset /\ \A c \in LiveDays : day[c].date # item[i].start)
    <3>1. CASE item[i].day = d
      BY <2>1, <2>2, <3>1 DEF ItemsOnDays, OnDays, GuestItems, LiveDays, LiveItems
    <3>2. CASE item[i].day # d
      BY <2>2, <3>2 DEF GuestItems
    <3> QED
      BY <3>1, <3>2
  <2>3. ProgramOnItsDay
    BY <2>2 DEF ProgramOnItsDay
  <2> QED
    BY <2>1, <2>3 DEF ProgrammeKept
<1> QED
  BY <1>1, ContentInvariant, PTL

\* The type invariant of the days, the items, the programme and the requests.
THEOREM ContentTypeCorrect == ContentSpec => []ContentTypeOK
<1>1. ContentInv => ContentTypeOK
  <2> SUFFICES ASSUME ContentInv PROVE ContentTypeOK
    OBVIOUS
  <2>1. ContentTypes
    BY DEF ContentInv
  <2>2. \A e \in Editors : edit[e].op \in {"idle", "createDay", "updateDay", "createProgram", "writeItem", "full"}
    BY <2>1 DEF ContentTypes, Edits
  <2> QED
    BY <2>1, <2>2 DEF ContentTypes, ContentTypeOK
<1> QED
  BY <1>1, ContentInvariant, PTL

-----------------------------------------------------------------------------
(* GuestImport: what is read from a file.                                  *)

\* Some of the first numbers have a greatest.
LEMMA GreatestOf ==
    ASSUME NEW n \in Nat, NEW S \in SUBSET (1..n), S # {}
    PROVE  \E x \in S : \A y \in S : y <= x
<1> DEFINE T == {n - i : i \in S}
<1>1. \A i \in S : i \in Nat /\ n - i \in Nat
  OBVIOUS
<1>2. T \in SUBSET Nat /\ T # {}
  BY <1>1, Zenon
<1>3. PICK t \in T : \A u \in T : t <= u
  BY <1>2, Least
<1>4. PICK x \in S : t = n - x
  BY <1>3
<1>5. \A y \in S : y <= x
  <2> SUFFICES ASSUME NEW y \in S PROVE y <= x
    OBVIOUS
  <2>1. n - x <= n - y
    BY <1>3, <1>4
  <2> QED
    BY <2>1, <1>1
<1> HIDE DEF T
<1> QED
  BY <1>5

\* A file is a sequence of rows, in each of which the contact is blank or typed.
FileOK ==
    /\ Len(file) \in Nat /\ DOMAIN file = 1..Len(file)
    /\ \A i \in DOMAIN file : file[i].contact \in Typed \cup {Blank}

\* What a contact comes to, whatever was typed.
LEMMA ContactIs ==
    ASSUME FileOK, NEW i \in DOMAIN file
    PROVE  Contact(file[i]) \in Emails \cup Phones \cup {NoContact}
BY ImportAssumption DEF FileOK, Contact

\* The day a row is for is one of those listed, or none.
LEMMA DayIs ==
    ASSUME NEW listed \in Seq(EventDays), NEW r
    PROVE  /\ DayOf(r, listed) \in EventDays \cup {NoContact}
           /\ r.day # Blank /\ (\E m \in DOMAIN listed : Label[listed[m]] = r.day) => DayOf(r, listed) # NoContact
<1> DEFINE named == {i \in DOMAIN listed : Label[listed[i]] = r.day}
           last == CHOOSE i \in named : \A j \in named : j <= i
<1>1. Len(listed) \in Nat /\ DOMAIN listed = 1..Len(listed) /\ \A i \in DOMAIN listed : listed[i] \in EventDays
  OBVIOUS
<1>2. NoContact \notin EventDays
  BY ImportAssumption
<1>3. CASE r.day = Blank
  BY <1>1, <1>3 DEF DayOf
<1>4. CASE r.day # Blank /\ named = {}
  BY <1>4 DEF DayOf
<1>5. CASE r.day # Blank /\ named # {}
  <2>1. named \in SUBSET (1..Len(listed))
    BY <1>1
  <2>2. \E i \in named : \A j \in named : j <= i
    BY <2>1, <1>1, <1>5, GreatestOf
  <2>3. last \in named
    BY <2>2, Zenon
  <2>4. DayOf(r, listed) = listed[last]
    BY <1>5 DEF DayOf
  <2> QED
    BY <2>1, <2>3, <2>4, <1>1, <1>2
<1> QED
  BY <1>3, <1>4, <1>5

-----------------------------------------------------------------------------
(* GuestImport: the rows of a file, one after the other.                   *)

FirstDesk == Desk("rows", eventDays, mails)
Pass(d, i) == IF i \in Rows THEN NextRow(d, i) ELSE d
IsPass(f, n) == f = [i \in 0..n |-> IF i = 0 THEN FirstDesk ELSE Pass(f[i - 1], i)]

\* There is a function that takes the rows one by one, however many there are:
\* a shortest file with none has a function for all its rows but the last.
LEMMA PassExists == \A n \in Nat : \E f : IsPass(f, n)
<1> DEFINE Bad == {n \in Nat : ~\E f : IsPass(f, n)}
<1>1. CASE Bad = {}
  BY <1>1, Zenon
<1>2. CASE Bad # {}
  <2>1. PICK m \in Bad : \A k \in Bad : m <= k
    BY <1>2, Least
  <2>2. m \in Nat /\ ~\E f : IsPass(f, m)
    BY <2>1
  <2>3. CASE m = 0
    <3> DEFINE f == [i \in 0..0 |-> FirstDesk]
    <3>1. IsPass(f, 0)
      <4>1. \A i \in 0..0 : (IF i = 0 THEN FirstDesk ELSE Pass(f[i - 1], i)) = FirstDesk
        OBVIOUS
      <4> HIDE DEF Pass, FirstDesk
      <4> QED
        BY <4>1 DEF IsPass
    <3> QED
      BY <3>1, <2>3, <2>2
  <2>4. CASE m # 0
    <3>1. m - 1 \in Nat /\ m - 1 \notin Bad
      BY <2>1, <2>2, <2>4
    <3>2. PICK g : IsPass(g, m - 1)
      BY <3>1
    <3> DEFINE f == [i \in 0..m |-> IF i = m THEN Pass(g[m - 1], m) ELSE g[i]]
    <3>3. \A i \in 0..(m - 1) : g[i] = IF i = 0 THEN FirstDesk ELSE Pass(g[i - 1], i)
      BY <3>2 DEF IsPass
    <3>4. ASSUME NEW i \in 0..m PROVE f[i] = IF i = 0 THEN FirstDesk ELSE Pass(f[i - 1], i)
      <4>1. CASE i = m
        <5>1. f[m - 1] = g[m - 1] /\ f[m] = Pass(g[m - 1], m)
          BY <2>2, <2>4
        <5> QED
          BY <5>1, <4>1, <2>4
      <4>2. CASE i # m /\ i = 0
        BY <4>2, <3>3, <2>2, <2>4
      <4>3. CASE i # m /\ i # 0
        <5>1. i \in 0..(m - 1) /\ i - 1 \in 0..m /\ i - 1 # m
          BY <4>3, <2>2
        <5>2. f[i] = g[i] /\ f[i - 1] = g[i - 1]
          BY <5>1, <4>3
        <5> QED
          BY <5>1, <5>2, <3>3, <4>3
      <4> QED
        BY <4>1, <4>2, <4>3
    <3>5. f = [i \in 0..m |-> f[i]]
      OBVIOUS
    <3>6. IsPass(f, m)
      <4> HIDE DEF f
      <4> QED
        BY <3>4, <3>5 DEF IsPass
    <3> QED
      BY <3>6, <2>2
  <2> QED
    BY <2>3, <2>4
<1> QED
  BY <1>1, <1>2

\* So each row is taken with what the ones before it came to.
LEMMA ValidatedIs ==
    ASSUME Len(file) \in Nat
    PROVE  /\ Validated[0] = FirstDesk
           /\ \A i \in 1..Len(file) : Validated[i] = Pass(Validated[i - 1], i)
<1>1. PICK f : IsPass(f, Len(file))
  BY PassExists
<1>2. Validated = [i \in 0..Len(file) |-> IF i = 0 THEN FirstDesk ELSE Pass(Validated[i - 1], i)]
  BY <1>1 DEF Validated, IsPass, Pass, FirstDesk
<1>3. ASSUME NEW i \in 0..Len(file) PROVE Validated[i] = IF i = 0 THEN FirstDesk ELSE Pass(Validated[i - 1], i)
  BY <1>2
<1> QED
  BY <1>3

-----------------------------------------------------------------------------
(* GuestImport: the inductive invariant.                                   *)

\* What the file comes to by itself, by the days and the guests read.
FirstBy(listed, known) ==
    {i \in Rows :
        /\ Sound(file[i], listed) /\ Contact(file[i]) \notin known
        /\ \A j \in Rows : j < i /\ Contact(file[j]) = Contact(file[i]) => ~Sound(file[j], listed)}

\* The contacts taken by the first n rows: those of the rows that could be a
\* guest, the repeated ones included.
SeenBy(listed, known, n) ==
    {Contact(file[i]) : i \in {j \in Rows : j <= n /\ Sound(file[j], listed) /\ Contact(file[j]) \notin known}}

ImportedRows ==
    [n : Nat, who : Emails \cup Phones, day : EventDays, plusOnes : {PlusOnes(file[i]) : i \in DOMAIN file}]
Desks ==
    [step : {"rows", "imported", "refused"}, days : Seq(EventDays), known : SUBSET Emails,
     seen : SUBSET (Emails \cup Phones), valid : Seq(ImportedRows), failures : SUBSET Nat]

\* What the first n rows of the file have come to.
JudgedTo(d, n) ==
    /\ d \in Desks
    /\ d.seen = SeenBy(d.days, d.known, n)
    /\ \A i \in DOMAIN d.valid : d.valid[i].n \in FirstBy(d.days, d.known) /\ d.valid[i].n <= n
    /\ \A k \in FirstBy(d.days, d.known) : k <= n => \E i \in DOMAIN d.valid : d.valid[i].n = k
    /\ \A i, j \in DOMAIN d.valid : i < j => d.valid[i].n < d.valid[j].n
    /\ d.failures = {i \in Rows \ FirstBy(d.days, d.known) : i <= n}

ImportInv ==
    /\ FileOK /\ emailOnly \in BOOLEAN
    /\ eventDays \in Seq(EventDays)
    /\ mails \subseteq Emails /\ hand \in Emails \cup {Blank}
    /\ desk.step = "idle" => desk = Desk("idle", <<>>, {})
    /\ desk.step # "idle" => JudgedTo(desk, Len(file))

\* Before the first row nothing has come of the file.
LEMMA NothingJudged ==
    ASSUME FileOK, NEW listed \in Seq(EventDays), NEW known \in SUBSET Emails
    PROVE  JudgedTo(Desk("rows", listed, known), 0)
<1> DEFINE d == Desk("rows", listed, known)
<1>1. d \in Desks /\ d.days = listed /\ d.known = known /\ d.seen = {} /\ d.valid = <<>> /\ d.failures = {}
  BY DEF Desk, Desks
<1>2. \A i \in Rows : i \in Nat /\ ~(i <= 0)
  BY DEF FileOK, Rows
<1>3. SeenBy(listed, known, 0) = {}
  BY <1>2 DEF SeenBy
<1>4. \A k \in FirstBy(listed, known) : ~(k <= 0)
  BY <1>2 DEF FirstBy
<1>5. {i \in Rows \ FirstBy(listed, known) : i <= 0} = {}
  BY <1>2
<1>6. DOMAIN d.valid = {}
  BY <1>1
<1>7. JudgedTo(d, 0)
  <2> HIDE DEF d
  <2> QED
    BY <1>1, <1>3, <1>4, <1>5, <1>6 DEF JudgedTo
<1> QED
  BY <1>7

\* The next row, whose contact is taken if a row before it could be a guest
\* with the same, whether or not that one was the first to.
LEMMA RowJudged ==
    ASSUME FileOK, NEW d, NEW n \in Nat, n + 1 \in 1..Len(file), JudgedTo(d, n)
    PROVE  JudgedTo(Pass(d, n + 1), n + 1) /\ Pass(d, n + 1).days = d.days /\ Pass(d, n + 1).known = d.known
<1> DEFINE k == n + 1
           F == FirstBy(d.days, d.known)
           c == Contact(file[k])
           e == Pass(d, k)
<1>0. k \in DOMAIN file /\ k \in Nat /\ n < k /\ Rows \subseteq DOMAIN file /\ (\A i \in DOMAIN file : i \in Nat) /\ F \subseteq Rows
  BY DEF FileOK, Rows, FirstBy
<1>1. \A i \in Rows : i <= k <=> i <= n \/ i = k
  BY <1>0
<1>2. d \in Desks /\ d.days \in Seq(EventDays) /\ d.known \in SUBSET Emails /\ d.seen \in SUBSET (Emails \cup Phones)
      /\ d.valid \in Seq(ImportedRows) /\ d.failures \in SUBSET Nat
  BY DEF JudgedTo, Desks
<1>3. CASE k \notin Rows
  <2>1. e = d
    BY <1>3 DEF Pass
  <2>2. SeenBy(d.days, d.known, k) = SeenBy(d.days, d.known, n)
    <3>1. {j \in Rows : j <= k /\ Sound(file[j], d.days) /\ Contact(file[j]) \notin d.known}
            = {j \in Rows : j <= n /\ Sound(file[j], d.days) /\ Contact(file[j]) \notin d.known}
      BY <1>1, <1>3
    <3> QED
      BY <3>1, Zenon DEF SeenBy
  <2>3. {i \in Rows \ F : i <= k} = {i \in Rows \ F : i <= n}
    BY <1>1, <1>3
  <2>4. \A i \in F : i <= k <=> i <= n
    BY <1>0, <1>1, <1>3
  <2>5. \A i \in DOMAIN d.valid : d.valid[i].n \in F /\ d.valid[i].n <= n
    BY DEF JudgedTo
  <2>6. \A i \in DOMAIN d.valid : d.valid[i].n \in F /\ d.valid[i].n <= k
    BY <2>5, <2>4
  <2>7. JudgedTo(d, k)
    <3> HIDE DEF k
    <3> QED
      BY <2>2, <2>3, <2>4, <2>6 DEF JudgedTo
  <2> QED
    BY <2>1, <2>7
<1>4. CASE k \in Rows
  <2>1. c \in Emails \cup Phones \cup {NoContact}
    BY <1>0, ContactIs
  <2>2. DayOf(file[k], d.days) \in EventDays \cup {NoContact}
    BY <1>2, DayIs
  <2> DEFINE ok == Sound(file[k], d.days) /\ c \notin d.known
             S(m) == {j \in Rows : j <= m /\ Sound(file[j], d.days) /\ Contact(file[j]) \notin d.known}
  <2>3. k \in F <=> ok /\ c \notin d.seen
    <3>1. k \in F <=> ok /\ \A j \in Rows : j < k /\ Contact(file[j]) = c => ~Sound(file[j], d.days)
      BY <1>4 DEF FirstBy
    <3>2. ASSUME c \notin d.known
          PROVE  c \in d.seen <=> \E j \in Rows : j < k /\ Contact(file[j]) = c /\ Sound(file[j], d.days)
      <4>1. d.seen = SeenBy(d.days, d.known, n)
        BY DEF JudgedTo
      <4>2. \A j \in Rows : j < k <=> j <= n
        BY <1>0
      <4> HIDE DEF k
      <4> QED
        BY <4>1, <4>2, <3>2 DEF SeenBy
    <3> QED
      BY <3>1, <3>2
  <2>4. SeenBy(d.days, d.known, k) = IF ok THEN d.seen \cup {c} ELSE d.seen
    <3>1. d.seen = {Contact(file[i]) : i \in S(n)}
      BY Zenon DEF JudgedTo, SeenBy
    <3>2. S(k) = IF ok THEN S(n) \cup {k} ELSE S(n)
      BY <1>1, <1>4
    <3>3. SeenBy(d.days, d.known, k) = {Contact(file[i]) : i \in S(k)}
      BY Zenon DEF SeenBy
    <3> HIDE DEF S, k, ok
    <3> QED
      BY <3>1, <3>2, <3>3
  <2>5. {i \in Rows \ F : i <= k} = IF k \in F THEN d.failures ELSE d.failures \cup {k}
    <3>1. d.failures = {i \in Rows \ F : i <= n}
      BY DEF JudgedTo
    <3> HIDE DEF F
    <3> QED
      BY <3>1, <1>1, <1>4
  <2>6. \A i \in F : i <= k <=> i <= n \/ i = k
    BY <1>0, <1>1
  <2>7. \A i \in DOMAIN d.valid : d.valid[i].n \in F /\ d.valid[i].n <= n /\ d.valid[i].n \in Nat
    BY <1>0 DEF JudgedTo
  <2>8. \A i \in F : i <= n => \E j \in DOMAIN d.valid : d.valid[j].n = i
    BY DEF JudgedTo
  <2>9. \A i, j \in DOMAIN d.valid : i < j => d.valid[i].n < d.valid[j].n
    BY DEF JudgedTo
  <2>10. e = IF k \in F THEN Accepts(d, k) ELSE Fails(d, k)
    BY <1>4, <2>3 DEF Pass, NextRow
  <2>11. CASE k \notin F
    <3>1. e = [d EXCEPT !.failures = d.failures \cup {k}]
      BY <2>10, <2>11 DEF Fails
    <3>2. /\ e \in Desks /\ e.days = d.days /\ e.known = d.known /\ e.seen = d.seen /\ e.valid = d.valid
          /\ e.failures = d.failures \cup {k}
      <4> HIDE DEF e, k
      <4> QED
        BY <3>1, <1>2, <1>0 DEF Desks
    <3>3. SeenBy(d.days, d.known, k) = d.seen
      <4>1. ok => c \in d.seen
        BY <2>3, <2>11
      <4> HIDE DEF ok, c
      <4> QED
        BY <4>1, <2>4
    <3>4. \A i \in DOMAIN d.valid : d.valid[i].n \in F /\ d.valid[i].n <= k
      BY <2>6, <2>7
    <3>5. \A i \in F : i <= k => \E j \in DOMAIN d.valid : d.valid[j].n = i
      BY <2>6, <2>8, <2>11
    <3>6. {i \in Rows \ F : i <= k} = d.failures \cup {k}
      BY <2>5, <2>11
    <3>7. JudgedTo(e, k)
      <4> HIDE DEF e, k
      <4> QED
        BY <3>2, <3>3, <3>4, <3>5, <3>6, <2>9 DEF JudgedTo
    <3> QED
      BY <3>2, <3>7
  <2>12. CASE k \in F
    <3> DEFINE g == [n |-> k, who |-> c, day |-> DayOf(file[k], d.days), plusOnes |-> PlusOnes(file[k])]
               v == Append(d.valid, g)
    <3>1. ok /\ c \notin d.seen
      BY <2>3, <2>12
    <3>2. e = [d EXCEPT !.seen = d.seen \cup {c}, !.valid = v]
      BY <2>10, <2>12 DEF Accepts
    <3>3. c \in Emails \cup Phones /\ DayOf(file[k], d.days) \in EventDays
      BY <3>1, <2>1, <2>2 DEF Sound
    <3>4. g \in ImportedRows /\ g.n = k
      BY <3>3, <1>0 DEF ImportedRows
    <3> HIDE DEF g
    <3>5. v \in Seq(ImportedRows)
      BY <3>4, <1>2
    <3>6. /\ DOMAIN v = DOMAIN d.valid \cup {Len(d.valid) + 1} /\ v[Len(d.valid) + 1] = g
          /\ \A i \in DOMAIN d.valid : v[i] = d.valid[i] /\ i \in 1..Len(d.valid)
          /\ Len(d.valid) \in Nat
      BY <3>4, <1>2
    <3> HIDE DEF v
    <3>7. /\ e \in Desks /\ e.days = d.days /\ e.known = d.known /\ e.seen = d.seen \cup {c} /\ e.valid = v
          /\ e.failures = d.failures
      <4> HIDE DEF e, k, c
      <4> QED
        BY <3>2, <3>3, <3>5, <1>2 DEF Desks
    <3>8. SeenBy(d.days, d.known, k) = d.seen \cup {c}
      BY <2>4, <3>1
    <3>9. \A i \in DOMAIN v : v[i].n \in F /\ v[i].n <= k
      BY <3>6, <3>4, <2>7, <2>6, <2>12
    <3>10. \A i \in F : i <= k => \E j \in DOMAIN v : v[j].n = i
      BY <2>6, <2>8, <3>6, <3>4
    <3>11. \A i, j \in DOMAIN v : i < j => v[i].n < v[j].n
      <4> SUFFICES ASSUME NEW i \in DOMAIN v, NEW j \in DOMAIN v, i < j PROVE v[i].n < v[j].n
        OBVIOUS
      <4>1. i \in DOMAIN d.valid
        BY <3>6
      <4>2. CASE j \in DOMAIN d.valid
        BY <4>1, <4>2, <3>6, <2>9
      <4>3. CASE j \notin DOMAIN d.valid
        <5>1. v[j].n = k /\ v[i].n = d.valid[i].n
          BY <4>3, <4>1, <3>6, <3>4
        <5> QED
          BY <5>1, <4>1, <2>7
      <4> QED
        BY <4>2, <4>3
    <3>12. {i \in Rows \ F : i <= k} = d.failures
      BY <2>5, <2>12
    <3>13. JudgedTo(e, k)
      <4> HIDE DEF e, k
      <4> QED
        BY <3>7, <3>8, <3>9, <3>10, <3>11, <3>12 DEF JudgedTo
    <3> QED
      BY <3>7, <3>13
  <2> QED
    BY <2>11, <2>12
<1> QED
  BY <1>3, <1>4

\* So the whole file is judged: there is no first row at which it is not.
LEMMA FileJudged ==
    ASSUME FileOK, eventDays \in Seq(EventDays), mails \in SUBSET Emails
    PROVE  JudgedTo(Validated[Len(file)], Len(file)) /\ Validated[Len(file)].step = "rows"
<1> DEFINE N == Len(file)
           V(i) == Validated[i]
           Good(i) == JudgedTo(V(i), i) /\ V(i).step = "rows"
           Bad == {i \in 0..N : ~Good(i)}
<1>0. N \in Nat
  BY DEF FileOK
<1>1. V(0) = FirstDesk /\ \A i \in 1..N : V(i) = Pass(V(i - 1), i)
  BY <1>0, ValidatedIs
<1>2. Good(0)
  <2>1. FirstDesk.step = "rows"
    BY DEF FirstDesk, Desk
  <2> QED
    BY <1>1, <2>1, NothingJudged DEF FirstDesk
<1>3. CASE Bad = {}
  <2>1. N \in 0..N
    BY <1>0
  <2> HIDE DEF Good
  <2>2. Good(N)
    BY <1>3, <2>1
  <2> QED
    BY <2>2 DEF Good
<1>4. CASE Bad # {}
  <2>1. Bad \in SUBSET Nat
    BY <1>0
  <2>2. PICK m \in Bad : \A i \in Bad : m <= i
    BY <2>1, <1>4, Least
  <2>3. m \in 0..N /\ ~Good(m) /\ m # 0
    BY <2>2, <1>2
  <2>4. m - 1 \in 0..N /\ m - 1 \in Nat /\ m \in 1..N /\ (m - 1) + 1 = m
    BY <2>3, <1>0
  <2>5. Good(m - 1)
    <3> HIDE DEF Good
    <3>1. m - 1 \notin Bad
      BY <2>2, <2>4
    <3> QED
      BY <3>1, <2>4
  <2>6. JudgedTo(Pass(V(m - 1), m), m)
    <3>1. JudgedTo(V(m - 1), m - 1) /\ (m - 1) + 1 \in 1..Len(file)
      BY <2>5, <2>4
    <3>2. JudgedTo(Pass(V(m - 1), (m - 1) + 1), (m - 1) + 1)
      BY <3>1, <2>4, RowJudged
    <3> QED
      BY <3>2, <2>4
  <2>7. Pass(V(m - 1), m).step = "rows"
    <3>1. V(m - 1) \in Desks /\ V(m - 1).step = "rows"
      BY <2>5 DEF JudgedTo
    <3> HIDE DEF V
    <3> QED
      BY <3>1 DEF Pass, NextRow, Fails, Accepts, Desks
  <2>8. V(m) = Pass(V(m - 1), m)
    BY <1>1, <2>4
  <2> QED
    BY <2>3, <2>6, <2>7, <2>8
<1> QED
  BY <1>3, <1>4

\* What was made of the file stays as it is while the desk and the file do.
LEMMA JudgedStill ==
    ASSUME NEW d, JudgedTo(d, Len(file)), desk' = d, UNCHANGED <<file, emailOnly>>
    PROVE  JudgedTo(desk, Len(file))'
<1>1. Rows' = Rows
  BY DEF Rows
<1>2. FirstBy(desk.days, desk.known)' = FirstBy(d.days, d.known)
  BY <1>1 DEF FirstBy, Sound
<1>3. SeenBy(desk.days, desk.known, Len(file))' = SeenBy(d.days, d.known, Len(file))
  BY <1>1 DEF SeenBy, Sound
<1>4. Desks' = Desks
  BY DEF Desks, ImportedRows
<1> QED
  BY <1>1, <1>2, <1>3, <1>4 DEF JudgedTo

\* Any file an import may be given.
LEMMA FilesAreOK == ImportInit => FileOK /\ eventDays \in Seq(EventDays)
<1> SUFFICES ASSUME ImportInit PROVE FileOK /\ eventDays \in Seq(EventDays)
  OBVIOUS
<1>1. eventDays \in Seq(EventDays)
  <2>1. Cardinality(EventDays) \in Nat
    BY ImportAssumption, FS_CardinalityType
  <2>2. PICK n \in 0..Cardinality(EventDays) : eventDays \in [1..n -> EventDays]
    BY DEF ImportInit
  <2>3. n \in Nat
    BY <2>1, <2>2
  <2> QED
    BY <2>2, <2>3
<1>2. CASE file \in Files
  <2>1. PICK n \in 0..MaxFile : file \in [1..n -> Cells]
    BY <1>2 DEF Files
  <2>2. n \in Nat
    BY <2>1, ImportAssumption
  <2>3. file \in Seq(Cells)
    BY <2>1, <2>2
  <2>4. Len(file) \in Nat /\ DOMAIN file = 1..Len(file) /\ \A i \in DOMAIN file : file[i] \in Cells
    BY <2>3
  <2> QED
    BY <2>4, <1>1, ImportAssumption DEF FileOK
<1>3. CASE file = TemplateOf(eventDays, emailOnly)
  <2>1. emailOnly \in BOOLEAN
    BY DEF ImportInit
  <2>2. \A i \in 1..3 : Examples[emailOnly][i] \in Typed
    BY <2>1, ExamplesAssumption
  <2>3. /\ Len(file) = 3 /\ DOMAIN file = 1..3
        /\ \A i \in 1..3 : file[i].contact = Examples[emailOnly][i]
    BY <1>3 DEF TemplateOf, FileRow
  <2> QED
    BY <2>2, <2>3, <1>1 DEF FileOK
<1>4. file \in Files \cup {TemplateOf(eventDays, emailOnly)}
  BY DEF ImportInit
<1>5. file \in Files \/ file = TemplateOf(eventDays, emailOnly)
  BY <1>4
<1> QED
  BY <1>2, <1>3, <1>5

LEMMA ImportInitInv == ImportInit => ImportInv
<1> SUFFICES ASSUME ImportInit PROVE ImportInv
  OBVIOUS
<1>1. desk.step = "idle"
  BY DEF ImportInit, Desk
<1> QED
  BY <1>1, FilesAreOK DEF ImportInit, ImportInv

\* Every step keeps what the file came to: the days and the guests may change
\* under an import, and what it goes by is what it read.
LEMMA ImportNextInv == ImportInv /\ [ImportNext]_importVars => ImportInv'
<1> SUFFICES ASSUME ImportInv, [ImportNext]_importVars PROVE ImportInv'
  OBVIOUS
<1>0. /\ FileOK /\ emailOnly \in BOOLEAN /\ eventDays \in Seq(EventDays)
      /\ mails \subseteq Emails /\ hand \in Emails \cup {Blank}
      /\ desk.step = "idle" => desk = Desk("idle", <<>>, {})
      /\ desk.step # "idle" => JudgedTo(desk, Len(file))
  BY DEF ImportInv
<1>a. ASSUME file' = file PROVE FileOK'
  BY <1>0, <1>a DEF FileOK
<1>b. ASSUME UNCHANGED <<file, emailOnly, desk>>, eventDays' \in Seq(EventDays), mails' \subseteq Emails,
             hand' \in Emails \cup {Blank}
      PROVE  ImportInv'
  <2>1. desk'.step = "idle" => desk' = Desk("idle", <<>>, {})
    BY <1>0, <1>b
  <2>2. ASSUME desk'.step # "idle" PROVE JudgedTo(desk, Len(file))'
    <3>1. PICK d : d = desk
      OBVIOUS
    <3> QED
      BY <3>1, <2>2, <1>0, <1>b, JudgedStill
  <2> QED
    BY <2>1, <2>2, <1>0, <1>a, <1>b DEF ImportInv
<1>c. ASSUME NEW d, JudgedTo(d, Len(file)), desk' = d, UNCHANGED <<file, emailOnly, eventDays>>, mails' \subseteq Emails,
             UNCHANGED hand
      PROVE  ImportInv'
  <2>1. JudgedTo(desk, Len(file))'
    BY <1>c, JudgedStill
  <2>2. desk'.step # "idle"
    BY <1>c DEF JudgedTo, Desks
  <2> QED
    BY <2>1, <2>2, <1>0, <1>a, <1>c DEF ImportInv
<1>1. ASSUME ImportRead PROVE ImportInv'
  <2>1. PICK d : d = Validated[Len(file)]
    OBVIOUS
  <2>2. JudgedTo(d, Len(file))
    BY <2>1, <1>0, FileJudged
  <2> QED
    BY <2>1, <2>2, <1>0, <1>1, <1>c DEF ImportRead
<1>2. ASSUME ImportWrite PROVE ImportInv'
  <2>1. JudgedTo(desk, Len(file))
    BY <1>0, <1>2 DEF ImportWrite
  <2>2. ASSUME NEW s \in {"imported", "refused"} PROVE JudgedTo([desk EXCEPT !.step = s], Len(file))
    <3>1. PICK d : d = [desk EXCEPT !.step = s]
      OBVIOUS
    <3>2. /\ d \in Desks /\ d.days = desk.days /\ d.known = desk.known /\ d.seen = desk.seen
          /\ d.valid = desk.valid /\ d.failures = desk.failures
      BY <2>1, <3>1 DEF JudgedTo, Desks
    <3>3. JudgedTo(d, Len(file))
      BY <2>1, <3>2 DEF JudgedTo
    <3> QED
      BY <3>1, <3>3
  <2>3. PICK s \in {"imported", "refused"} : desk' = [desk EXCEPT !.step = s]
    BY <1>2 DEF ImportWrite
  <2>4. mails' \subseteq Emails
    BY <1>2, <1>0 DEF ImportWrite, Imported
  <2>5. PICK d : d = [desk EXCEPT !.step = s]
    OBVIOUS
  <2> QED
    BY <2>2, <2>3, <2>4, <2>5, <1>2, <1>c DEF ImportWrite
<1>3. ASSUME CreateWithInvite PROVE ImportInv'
  BY <1>0, <1>3, <1>b DEF CreateWithInvite
<1>4. ASSUME ArchiveEventDay PROVE ImportInv'
  <2>1. eventDays # <<>> /\ Tail(eventDays) \in Seq(EventDays)
    BY <1>0, <1>4 DEF ArchiveEventDay
  <2> QED
    BY <2>1, <1>0, <1>4, <1>b DEF ArchiveEventDay
<1>5. ASSUME NEW c \in Typed, AddRead(c) PROVE ImportInv'
  BY <1>0, <1>5, <1>b DEF AddRead
<1>6. ASSUME NEW e \in Emails, ArchiveMail(e) PROVE ImportInv'
  BY <1>0, <1>6, <1>b DEF ArchiveMail
<1>7. ASSUME UNCHANGED importVars PROVE ImportInv'
  BY <1>0, <1>7, <1>b DEF importVars
<1> QED
  BY <1>1, <1>2, <1>3, <1>4, <1>5, <1>6, <1>7 DEF ImportNext

\* Whatever the file, and whatever becomes of the days and the guests meanwhile
\* (guest-import.engine.ts).
THEOREM ImportInvariant == ImportSpec => []ImportInv
BY ImportInitInv, ImportNextInv, PTL DEF ImportSpec

\* The types, of any file (guest-import.engine.ts).
THEOREM ImportTypeCorrect == ImportSpec => []ImportTypeOK
<1>1. ImportInv => ImportTypeOK
  <2> SUFFICES ASSUME ImportInv PROVE ImportTypeOK
    OBVIOUS
  <2>1. CASE desk.step = "idle"
    <3>1. desk = Desk("idle", <<>>, {})
      BY <2>1 DEF ImportInv
    <3>2. desk.known = {} /\ desk.seen = {}
      BY <3>1 DEF Desk
    <3> QED
      BY <2>1, <3>2 DEF ImportInv, ImportTypeOK
  <2>2. CASE desk.step # "idle"
    BY <2>2 DEF ImportInv, ImportTypeOK, JudgedTo, Desks
  <2> QED
    BY <2>1, <2>2
<1> QED
  BY <1>1, ImportInvariant, PTL

\* The invariant judges the rows as the property does.
LEMMA RowsOnce == ImportInv => EachRowOnce
<1> SUFFICES ASSUME ImportInv, desk.step # "idle"
             PROVE  /\ {desk.valid[i].n : i \in DOMAIN desk.valid} = FirstOfEach
                    /\ \A i, j \in DOMAIN desk.valid : i < j => desk.valid[i].n < desk.valid[j].n
                    /\ desk.failures = Rows \ FirstOfEach
  BY DEF EachRowOnce
<1>1. JudgedTo(desk, Len(file)) /\ FileOK
  BY DEF ImportInv
<1>2. FirstOfEach = FirstBy(desk.days, desk.known)
  BY DEF FirstOfEach, FirstBy
<1>3. \A i \in Rows : i <= Len(file)
  BY <1>1 DEF FileOK, Rows
<1>4. FirstOfEach \subseteq Rows
  BY DEF FirstOfEach
<1> HIDE DEF FirstOfEach
<1>5. \A i \in DOMAIN desk.valid : desk.valid[i].n \in FirstOfEach
  BY <1>1, <1>2 DEF JudgedTo
<1>6. \A k \in FirstOfEach : \E i \in DOMAIN desk.valid : desk.valid[i].n = k
  BY <1>1, <1>2, <1>3, <1>4 DEF JudgedTo
<1>7. desk.failures = Rows \ FirstOfEach
  BY <1>1, <1>2, <1>3 DEF JudgedTo
<1> QED
  BY <1>1, <1>5, <1>6, <1>7 DEF JudgedTo

\* A row of the template could be a guest: its day is the label of one of the
\* days it was made for.
LEMMA TemplateRows ==
    ASSUME NEW listed \in Seq(EventDays), listed # <<>>, emailOnly \in BOOLEAN, file = TemplateOf(listed, emailOnly)
    PROVE  /\ DOMAIN file = 1..3
           /\ \A i \in 1..3 : Sound(file[i], listed) /\ Contact(file[i]) = Who[file[i].contact]
           /\ \A i, j \in 1..3 : Contact(file[i]) = Contact(file[j]) => i = j
<1>1. Len(listed) \in Nat \ {0} /\ DOMAIN listed = 1..Len(listed) /\ \A m \in DOMAIN listed : listed[m] \in EventDays
  OBVIOUS
<1>2. /\ DOMAIN file = 1..3
      /\ \A i \in 1..3 : /\ file[i].contact = Examples[emailOnly][i]
                         /\ file[i].day \in {DayName(1, listed), DayName(2, listed)}
                         /\ file[i].plusOnes \in {0, 1}
  BY DEF TemplateOf, FileRow
<1>3. ASSUME NEW i \in {1, 2} PROVE \E m \in DOMAIN listed : DayName(i, listed) = Label[listed[m]]
  BY <1>1 DEF DayName
<1>4. ASSUME NEW i \in 1..3
      PROVE  /\ Contact(file[i]) = Who[Examples[emailOnly][i]] /\ Contact(file[i]) = Who[file[i].contact]
             /\ Contact(file[i]) \in Emails \cup Phones /\ (emailOnly => Contact(file[i]) \in Emails)
  <2>1. Examples[emailOnly][i] \in Typed /\ Who[Examples[emailOnly][i]] \in (IF emailOnly THEN Emails ELSE Emails \cup Phones)
    BY ExamplesAssumption
  <2>2. file[i].contact # Blank
    BY <2>1, <1>2, ImportAssumption
  <2> QED
    BY <2>1, <2>2, <1>2 DEF Contact
<1>5. ASSUME NEW i \in 1..3 PROVE Sound(file[i], listed)
  <2>1. PICK m \in DOMAIN listed : file[i].day = Label[listed[m]]
    BY <1>2, <1>3
  <2>2. file[i].day # Blank
    BY <2>1, <1>1, ImportAssumption
  <2>3. DayOf(file[i], listed) # NoContact
    BY <2>1, <2>2, DayIs
  <2>4. PlusOnes(file[i]) <= MaxPlusOnes
    BY <1>2, ImportAssumption DEF PlusOnes
  <2>5. Contact(file[i]) # NoContact
    BY <1>4, ImportAssumption
  <2> QED
    BY <1>4, <2>3, <2>4, <2>5 DEF Sound
<1>6. ASSUME NEW i \in 1..3, NEW j \in 1..3, Contact(file[i]) = Contact(file[j]) PROVE i = j
  BY <1>4, <1>6, ExamplesAssumption
<1> QED
  BY <1>2, <1>4, <1>5, <1>6

LEMMA TemplateTaken == ImportInv => TemplateImports
<1> SUFFICES ASSUME ImportInv, file = TemplateOf(desk.days, emailOnly), desk.days # <<>>, desk.step # "idle",
                    \A i \in 1..3 : Who[file[i].contact] \notin desk.known
             PROVE  desk.failures = {}
  BY DEF TemplateImports
<1>1. JudgedTo(desk, Len(file)) /\ emailOnly \in BOOLEAN /\ desk.days \in Seq(EventDays)
  BY DEF ImportInv, JudgedTo, Desks
<1>2. PICK listed : listed = desk.days
  OBVIOUS
<1>3. /\ DOMAIN file = 1..3
      /\ \A i \in 1..3 : Sound(file[i], desk.days) /\ Contact(file[i]) = Who[file[i].contact]
      /\ \A i, j \in 1..3 : Contact(file[i]) = Contact(file[j]) => i = j
  BY <1>1, <1>2, TemplateRows
<1>4. Rows \subseteq FirstBy(desk.days, desk.known)
  <2> SUFFICES ASSUME NEW i \in Rows PROVE i \in FirstBy(desk.days, desk.known)
    OBVIOUS
  <2>1. i \in 1..3 /\ \A j \in Rows : j \in 1..3
    BY <1>3 DEF Rows
  <2>2. \A j \in Rows : j < i => Contact(file[j]) # Contact(file[i])
    BY <2>1, <1>3
  <2> QED
    BY <2>1, <2>2, <1>3 DEF FirstBy
<1> QED
  BY <1>1, <1>4 DEF JudgedTo

\* Each row of a file is one guest or one line of the report, whatever the file
\* and however the days and the guests change (guest-import.engine.ts).
THEOREM EachRowIsKept == ImportSpec => []ImportKept
<1>1. ImportInv => ImportKept
  BY RowsOnce, TemplateTaken DEF ImportKept
<1> QED
  BY <1>1, ImportInvariant, PTL

-----------------------------------------------------------------------------
(* The organiser's modules together.                                       *)

\* Of each of its modules the whole is a behaviour like any other, so that
\* what holds of a module alone holds of it here.
LEMMA OrganiserParts ==
    OrganiserSpec =>
        /\ StatusSpec
        /\ CreationSpec
        /\ ContentSpec
        /\ VendorsSpec
        /\ PayoutSpec
        /\ ImportSpec
        /\ LimitsSpec
<1>1. OrganiserInit =>
        /\ StatusInit
        /\ CreationInit
        /\ ContentInit
        /\ VendorsInit
        /\ PayoutInit
        /\ ImportInit
        /\ LimitsInit
  BY DEF OrganiserInit
<1>2. [OrganiserNext]_organiserVars => [StatusNext]_statusVars
  BY DEF OrganiserNext, organiserVars, plannedVars, tradeVars, listVars
<1>3. [OrganiserNext]_organiserVars => [CreationNext]_creationVars
  BY DEF OrganiserNext, organiserVars, plannedVars, tradeVars, listVars
<1>4. [OrganiserNext]_organiserVars => [ContentNext]_contentVars
  BY DEF OrganiserNext, organiserVars, plannedVars, tradeVars, listVars
<1>5. [OrganiserNext]_organiserVars => [VendorsNext]_vendorVars
  BY DEF OrganiserNext, organiserVars, plannedVars, tradeVars, listVars
<1>6. [OrganiserNext]_organiserVars => [PayoutNext]_payoutVars
  BY DEF OrganiserNext, organiserVars, plannedVars, tradeVars, listVars
<1>7. [OrganiserNext]_organiserVars => [ImportNext]_importVars
  BY DEF OrganiserNext, organiserVars, plannedVars, tradeVars, listVars
<1>8. [OrganiserNext]_organiserVars => [LimitsNext]_limitVars
  BY DEF OrganiserNext, organiserVars, plannedVars, tradeVars, listVars
<1> QED
  BY <1>1, <1>2, <1>3, <1>4, <1>5, <1>6, <1>7, <1>8, PTL
     DEF OrganiserSpec, StatusSpec, CreationSpec, ContentSpec, VendorsSpec, PayoutSpec, ImportSpec, LimitsSpec

\* Every module keeps its types, for every value of the constants, whatever
\* requests run in it (the services of src/src/modules that organisers call).
THEOREM OrganiserTypesHold == OrganiserSpec => []OrganiserTypeOK
<1>1. OrganiserInit => scene \in Scenes
  BY DEF OrganiserInit
<1>2. scene \in Scenes /\ [OrganiserNext]_organiserVars => (scene \in Scenes)'
  BY DEF OrganiserNext, organiserVars
<1>3. scene \in Scenes /\ StatusTypeOK /\ CreationTypeOK /\ ContentTypeOK
        /\ VendorsTypeOK /\ PayoutTypeOK /\ ImportTypeOK /\ LimitsTypeOK
      => OrganiserTypeOK
  BY DEF OrganiserTypeOK
<1> QED
  BY <1>1, <1>2, <1>3, OrganiserParts,
     StatusTypeCorrect, CreationTypeCorrect, ContentTypeCorrect, VendorsTypeCorrect,
     PayoutTypeCorrect, ImportTypeCorrect, LimitsTypeCorrect, PTL
     DEF OrganiserSpec
=============================================================================
