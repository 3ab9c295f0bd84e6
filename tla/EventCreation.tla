--------------------------- MODULE EventCreation ---------------------------
(***************************************************************************)
(* The events of one tenant: created directly (event.service.ts, create)   *)
(* or from the wizard's draft (event-draft.service.ts, materialize),       *)
(* archived and restored, against the plan's limit of active events; and   *)
(* who is assigned to them (event-assignment.repository.ts).               *)
(*                                                                         *)
(* A session is one request being served; a member may have several.  No   *)
(* lock is held: the count of events, the member's assignments and the     *)
(* insert are steps of their own, and the draft is deleted after the       *)
(* insert has committed.  A session may end anywhere (Stop).   The other   *)
(* rules on an event's fields (name, host, cover, deadline) and the plan's *)
(* yes-or-no capabilities refuse a request and change nothing: Stop.       *)
(***************************************************************************)
EXTENDS Naturals, FiniteSets

CONSTANTS
    Events,     \* Event ids
    Members,    \* EVENT_ADMINs of the tenant
    Sessions,   \* requests that can be in progress at once
    PlanLimits, \* values of the plan's maxEvents in a run
    MaxSaves,   \* saves of a draft in a run
    Null        \* SQL NULL

ASSUME CreationAssumption ==
    /\ IsFiniteSet(Events)
    /\ PlanLimits \subseteq Nat
    /\ MaxSaves \in Nat
    /\ Null \notin Nat \cup Events \cup Members

VARIABLES
    row,        \* Event: "none", "live" or "archived"
    passed,     \* events that hold or have held an Event Pass
    creator,    \* Event.createdByUserId
    assigned,   \* EventAssignment: the events of each member
    limit,      \* maxEvents of the tenant's effective tier
    draft,      \* EventDraft: the member's one draft (the row's id, the save it holds), or Null
    saves,      \* how many saves there have been
    session,    \* what each request is doing
    from,       \* history: the save an event was made from, Null if created directly
    torn,       \* history: saves that two sessions, or one that then stopped, were making events from
    over,       \* history: the limit dropped, or an event was added on a count grown since
    asked,      \* history: members whose assignments an administrator has set
    settled     \* history: events whose creator's list was as their insert read it, and was since changed by no administrator and no insert on a stale read

creationVars == <<row, passed, creator, assigned, limit, draft, saves, session, from, torn, over, asked, settled>>
draftVars == <<draft, saves, torn>>
planVars == <<limit, over>>
rowVars == <<row, passed, creator, from>>
lockVars == <<assigned, asked, settled>>

\* A request: what it does, for whom, on which event, and what it has read:
\* the draft's save, the count of active events and whether the member is locked.
Session(op, m, e, save, count, locked) ==
    [op |-> op, by |-> m, on |-> e, save |-> save, count |-> count, locked |-> locked]
NoSession == Session("idle", Null, Null, Null, 0, FALSE)

\* An event that has ever held a pass does not count.
ActiveEvents == {e \in Events : row[e] = "live"} \ passed
CountActive == Cardinality(ActiveEvents)

\* assertEventCreatable: what exists is counted before the insert.
Creatable == CountActive < limit

\* assertEventRestorable: an event that has ever held a pass is not held to the
\* limit, since it does not count.
Restorable(e) == e \in passed \/ CountActive < limit

\* isCreatorLocked: a member with no assignments sees every event of the
\* tenant, one with any sees those alone.
Locked(m) == assigned[m] # {}
CanOpen(m, e) == Locked(m) => e \in assigned[m]

CreationInit ==
    /\ row = [e \in Events |-> "none"] /\ passed = {}
    /\ creator = [e \in Events |-> Null] /\ from = [e \in Events |-> Null]
    /\ assigned = [m \in Members |-> {}] /\ asked = {} /\ settled = {}
    /\ limit \in PlanLimits /\ over = FALSE
    /\ draft = [m \in Members |-> Null] /\ saves = 0 /\ torn = {}
    /\ session = [s \in Sessions |-> NoSession]

Busy(s, op) == session[s].op = op
Become(s, r) == session' = [session EXCEPT ![s] = r]

------------------------------------------------------------------------------
\* The wizard's draft.

\* An upsert: the row a member already has keeps its id.
SaveDraft(m) ==
    /\ saves < MaxSaves
    /\ saves' = saves + 1
    /\ draft' = [draft EXCEPT ![m] =
                    [id |-> IF draft[m] = Null THEN saves + 1 ELSE draft[m].id, save |-> saves + 1]]
    /\ UNCHANGED <<torn, planVars, rowVars, lockVars, session>>

DiscardDraft(m) ==
    /\ draft[m] # Null
    /\ draft' = [draft EXCEPT ![m] = Null]
    /\ UNCHANGED <<saves, torn, planVars, rowVars, lockVars, session>>

\* materialize reads the draft; nothing claims it.
DraftRead(s, m) ==
    /\ Busy(s, "idle") /\ draft[m] # Null
    /\ Become(s, Session("draft", m, Null, draft[m], 0, FALSE))
    /\ torn' = IF \E t \in Sessions : session[t].save # Null /\ session[t].save.save = draft[m].save
               THEN torn \cup {draft[m].save} ELSE torn
    /\ UNCHANGED <<draft, saves, planVars, rowVars, lockVars>>

\* The draft goes by its row's id, whatever has been saved in it since.
DraftDelete(s) ==
    /\ Busy(s, "delete")
    /\ LET m == session[s].by
       IN  draft' = IF draft[m] # Null /\ draft[m].id = session[s].save.id
                    THEN [draft EXCEPT ![m] = Null] ELSE draft
    /\ Become(s, NoSession)
    /\ UNCHANGED <<saves, torn, planVars, rowVars, lockVars>>

------------------------------------------------------------------------------
\* Creating an event.

\* The plan's limit, on the direct path and on the wizard's: assertEventCreatable.
CreateRead(s, m) ==
    /\ Busy(s, "idle") /\ Creatable
    /\ Become(s, Session("create", m, Null, Null, CountActive, FALSE))
    /\ UNCHANGED <<draftVars, planVars, rowVars, lockVars>>

DraftCount(s) ==
    /\ Busy(s, "draft") /\ Creatable
    /\ Become(s, [session[s] EXCEPT !.op = "create", !.count = CountActive])
    /\ UNCHANGED <<draftVars, planVars, rowVars, lockVars>>

LockRead(s) ==
    /\ Busy(s, "create")
    /\ Become(s, [session[s] EXCEPT !.op = "insert", !.locked = Locked(session[s].by)])
    /\ UNCHANGED <<draftVars, planVars, rowVars, lockVars>>

\* What stays settled after an insert: it settles its own event if the list was
\* as it read it; one whose member has been unlocked since locks the member
\* again, to that event alone.
SettledWith(e, j) ==
    IF j.locked = Locked(j.by) THEN settled \cup {e}
    ELSE {f \in settled : j.locked => creator[f] # j.by}

\* An insert that assigns nobody.
NewEventUnassigned(s, e) ==
    LET j == session[s]
    IN  /\ row[e] = "none"
        /\ row' = [row EXCEPT ![e] = "live"]
        /\ creator' = [creator EXCEPT ![e] = j.by]
        /\ settled' = SettledWith(e, j)
        /\ over' = (over \/ CountActive > j.count)
        /\ UNCHANGED <<draftVars, limit, passed, asked, assigned>>

\* The row an insert leaves, whichever way it was asked for; a member who was
\* found locked is assigned to it in the same transaction.
NewEvent(s, e) ==
    LET j == session[s]
    IN  /\ row[e] = "none"
        /\ row' = [row EXCEPT ![e] = "live"]
        /\ creator' = [creator EXCEPT ![e] = j.by]
        /\ assigned' = IF j.locked THEN [assigned EXCEPT ![j.by] = @ \cup {e}] ELSE assigned
        /\ settled' = SettledWith(e, j)
        /\ over' = (over \/ CountActive > j.count)
        /\ UNCHANGED <<draftVars, limit, passed, asked>>

\* The event and its Memory Hub.
Create(s, e) ==
    /\ Busy(s, "insert") /\ session[s].save = Null
    /\ NewEvent(s, e)
    /\ Become(s, NoSession)
    /\ UNCHANGED from

\* The event, its hub, its days and the rest of the draft, in one transaction.
Materialize(s, e) ==
    /\ Busy(s, "insert") /\ session[s].save # Null
    /\ NewEvent(s, e)
    /\ from' = [from EXCEPT ![e] = session[s].save.save]
    /\ Become(s, [session[s] EXCEPT !.op = "delete"])

\* A refusal, an error or a restart.  Stopped after its insert, a materialize
\* leaves its draft behind.
Stop(s) ==
    /\ ~Busy(s, "idle")
    /\ torn' = IF Busy(s, "delete") THEN torn \cup {session[s].save.save} ELSE torn
    /\ Become(s, NoSession)
    /\ UNCHANGED <<draft, saves, planVars, rowVars, lockVars>>

------------------------------------------------------------------------------
\* Archive and restore, the plan and the pass, the assignments.

Archive(e) ==
    /\ row[e] = "live"
    /\ row' = [row EXCEPT ![e] = "archived"]
    /\ UNCHANGED <<draftVars, planVars, passed, creator, from, lockVars, session>>

\* A restore that does not look at the plan.
RestoreAnyway(s, e) ==
    /\ Busy(s, "idle") /\ row[e] = "archived"
    /\ Become(s, Session("restore", Null, e, Null, CountActive, FALSE))
    /\ UNCHANGED <<draftVars, planVars, rowVars, lockVars>>

\* Restoring makes the event active again.
RestoreRead(s, e) ==
    /\ Busy(s, "idle") /\ row[e] = "archived"
    /\ Restorable(e)
    /\ Become(s, Session("restore", Null, e, Null, CountActive, FALSE))
    /\ UNCHANGED <<draftVars, planVars, rowVars, lockVars>>

Restore(s) ==
    /\ Busy(s, "restore")
    /\ LET e == session[s].on
       IN  /\ row' = [row EXCEPT ![e] = "live"]
           /\ over' = (over \/ (row[e] # "live" /\ e \notin passed /\ CountActive > session[s].count))
    /\ Become(s, NoSession)
    /\ UNCHANGED <<draftVars, limit, passed, creator, from, lockVars>>

\* The webhook grants the pass, whatever has become of the event since the
\* checkout.
BuyPass(e) ==
    /\ row[e] # "none" /\ e \notin passed
    /\ passed' = passed \cup {e}
    /\ UNCHANGED <<draftVars, planVars, row, creator, from, lockVars, session>>

\* An upgrade, a lapse, or the super admin's change of the tier's settings.
ChangePlan ==
    /\ limit' \in PlanLimits \ {limit}
    /\ over' = (over \/ limit' < limit)
    /\ UNCHANGED <<draftVars, rowVars, lockVars, session>>

\* The administrator replaces a member's whole list; the last one goes only
\* when that is confirmed.
ReplaceForUser(m, S) ==
    /\ S # assigned[m] /\ \A e \in S : row[e] # "none"
    /\ assigned' = [assigned EXCEPT ![m] = S]
    /\ asked' = asked \cup {m}
    /\ settled' = {e \in settled : creator[e] # m}
    /\ UNCHANGED <<draftVars, planVars, rowVars, session>>

CreationNext ==
    \/ \E m \in Members : SaveDraft(m) \/ DiscardDraft(m)
    \/ \E m \in Members, S \in SUBSET Events : ReplaceForUser(m, S)
    \/ \E e \in Events : Archive(e) \/ BuyPass(e)
    \/ ChangePlan
    \/ \E s \in Sessions :
          \/ \E m \in Members : DraftRead(s, m) \/ CreateRead(s, m)
          \/ DraftCount(s) \/ LockRead(s) \/ DraftDelete(s) \/ Restore(s) \/ Stop(s)
          \/ \E e \in Events : Create(s, e) \/ Materialize(s, e) \/ RestoreRead(s, e)

CreationSpec == CreationInit /\ [][CreationNext]_creationVars

------------------------------------------------------------------------------
Drafts == [id : 1..MaxSaves, save : 1..MaxSaves]

CreationTypeOK ==
    /\ row \in [Events -> {"none", "live", "archived"}] /\ passed \subseteq Events
    /\ creator \in [Events -> Members \cup {Null}]
    /\ from \in [Events -> (1..MaxSaves) \cup {Null}]
    /\ assigned \in [Members -> SUBSET Events]
    /\ asked \subseteq Members /\ settled \subseteq Events
    /\ limit \in PlanLimits /\ over \in BOOLEAN
    /\ draft \in [Members -> Drafts \cup {Null}]
    /\ saves \in 0..MaxSaves /\ torn \subseteq 1..MaxSaves
    /\ session \in [Sessions ->
          [op : {"idle", "draft", "create", "insert", "delete", "restore"},
           by : Members \cup {Null}, on : Events \cup {Null}, save : Drafts \cup {Null},
           count : 0..Cardinality(Events), locked : BOOLEAN]]

\* The plan's limit holds over creating, archiving, restoring and buying passes,
\* as long as it is not lowered and no event is added on a count grown since.
ActiveWithinLimit == over \/ CountActive <= limit

\* A save of the draft becomes one event at most, unless two requests were at
\* it together or one stopped between its insert and its delete.
OneEventPerSave ==
    \A e, f \in Events : from[e] # Null /\ from[e] = from[f] /\ from[e] \notin torn => e = f

\* A member whom nobody assigned is never narrowed by what it creates, and a
\* locked one can open what it created.
AccessAsGiven ==
    /\ \A m \in Members \ asked : ~Locked(m)
    /\ \A e \in settled : CanOpen(creator[e], e)

\* A saved draft becomes one event, which its creator can open and no other
\* member is narrowed by (event-draft.service.ts, event.service.ts).
CreatedAsAsked == OneEventPerSave /\ AccessAsGiven
=============================================================================
