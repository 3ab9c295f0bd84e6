-------------------------------- MODULE Team --------------------------------
(***************************************************************************)
(* The people of one workspace (user.service.ts, user-invite.service.ts,   *)
(* tenant.service.ts): their roles, their suspension one by one or all     *)
(* together, the events an event admin is held to, and the invitations     *)
(* they join by.  A request reads the member first; only the write, and    *)
(* the count of the other admins, are under the tenant's lock.             *)
(*                                                                         *)
(* An event admin assigned to no event sees every event, so an empty list  *)
(* is the widest one.  Anything here but an invitation may also be done by *)
(* the platform's own admin, who is no member.  Names, and the accounts'   *)
(* other halves (SignIn), are left out.                                    *)
(***************************************************************************)
EXTENDS Naturals, FiniteSets

CONSTANTS
    Members,    \* email addresses
    Founder,    \* whoever registered the workspace
    Events,     \* its events
    Invites,    \* the invitations there may be
    TeamRequests    \* requests that read before they write

ASSUME TeamAssumption == Founder \in Members

VARIABLES
    member,     \* User rows; works: EventAssignment, role "elsewhere": another workspace's
    live,       \* events that are not archived
    invite,     \* TeamInvite rows
    suspended,  \* Tenant.subscriptionStatus
    task,       \* what each request has read; fresh: nobody wrote to it since
    wide,       \* history: members somebody let see every event
    stale       \* history: a request wrote over what changed since it read it

teamVars == <<member, live, invite, suspended, task, wide, stale>>

Member(role, active, works) == [role |-> role, active |-> active, works |-> works]
Nobody == Member("none", FALSE, {})
TeamInvite(m, role, works, state) == [email |-> m, role |-> role, works |-> works, state |-> state]
Open(i) == invite[i].state = "open"
NoTask == [op |-> "idle", of |-> {}, role |-> "none", was |-> "none", works |-> {}, by |-> {}, fresh |-> TRUE]
Working(op, M) == [NoTask EXCEPT !.op = op, !.of = M]

Begins(r, t) == task[r] = NoTask /\ task' = [task EXCEPT ![r] = t]

\* r ends; what it wrote to the members M is no longer what the others read.
Done(r, M) ==
    task' = [q \in TeamRequests |->
               IF q = r THEN NoTask
               ELSE [task[q] EXCEPT !.fresh = @ /\ (task[q].op = "RESTORE" => M = {}) /\ task[q].of \cap M = {}]]

Wrote(M) ==
    task' = [q \in TeamRequests |->
               [task[q] EXCEPT !.fresh = @ /\ (task[q].op = "RESTORE" => M = {}) /\ task[q].of \cap M = {}]]

TeamInit ==
    /\ member = [m \in Members |-> IF m = Founder THEN Member("TENANT_ADMIN", TRUE, {}) ELSE Nobody]
    /\ live = Events
    /\ invite = [i \in Invites |-> TeamInvite(Founder, "none", {}, "none")]
    /\ suspended = FALSE
    /\ task = [r \in TeamRequests |-> NoTask]
    /\ wide = {Founder} /\ stale = FALSE

------------------------------------------------------------------------------
\* authenticate and requireRole: who is let in.

Administers(m) == member[m].role = "TENANT_ADMIN" /\ member[m].active

HasAccount(m) == member[m].role # "none"

EventComesOrGoes(e) ==
    /\ live' = IF e \in live THEN live \ {e} ELSE live \cup {e}
    /\ UNCHANGED <<member, invite, suspended, task, wide, stale>>

\* Another workspace is registered with this address.
Register(m) ==
    /\ ~HasAccount(m) /\ member' = [member EXCEPT ![m] = Member("elsewhere", TRUE, {})]
    /\ UNCHANGED <<live, invite, suspended, task, wide, stale>>

Create(m, role) ==
    /\ ~HasAccount(m) /\ member' = [member EXCEPT ![m] = Member(role, TRUE, {})]
    /\ wide' = wide \cup {m} /\ Wrote({m})
    /\ UNCHANGED <<live, invite, suspended, stale>>

------------------------------------------------------------------------------
\* update: the read, then the new role with the count of the other admins.

\* countOtherActiveWithRole, under the lock.
OtherAdmins(m) == {o \in Members \ {m} : Administers(o)}

Here(m) == member[m].role \in {"TENANT_ADMIN", "EVENT_ADMIN"}

UpdateRead(r, m, role) ==
    /\ Here(m) /\ member[m].active
    /\ Begins(r, [Working("ROLE", {m}) EXCEPT !.role = role, !.was = member[m].role])
    /\ UNCHANGED <<member, live, invite, suspended, wide, stale>>

Update(r, m) ==
    LET t == task[r]
        changes == t.role # t.was
    IN  /\ t.op = "ROLE" /\ t.of = {m}
        /\ IF changes /\ t.was = "TENANT_ADMIN" /\ OtherAdmins(m) = {}
           THEN Done(r, {}) /\ UNCHANGED <<member, wide, stale>>
           ELSE /\ member' = [member EXCEPT ![m].role = t.role,
                                 ![m].works = IF changes /\ t.role # "EVENT_ADMIN" THEN {} ELSE @]
                /\ wide' = IF t.role = "TENANT_ADMIN" THEN wide \cup {m} ELSE wide
                /\ stale' = (stale \/ ~t.fresh)
                /\ Done(r, IF member'[m] = member[m] THEN {} ELSE {m})
        /\ UNCHANGED <<live, invite, suspended>>

\* setAssignments: only for an event admin, and not to an empty list unless
\* the request says so; then the list is replaced.
AssignRead(r, m, works, confirmed) ==
    /\ member[m].role = "EVENT_ADMIN" /\ works \subseteq live \cup member[m].works
    /\ works # {} \/ member[m].works = {} \/ confirmed
    /\ Begins(r, [Working("ASSIGN", {m}) EXCEPT !.works = works,
                                             !.by = IF confirmed THEN {m} ELSE {}])
    /\ UNCHANGED <<member, live, invite, suspended, wide, stale>>

ReplaceForUser(r, m) ==
    LET t == task[r]
    IN  /\ t.op = "ASSIGN" /\ t.of = {m}
        /\ member' = [member EXCEPT ![m].works = t.works]
        /\ wide' = IF t.works = {} THEN wide \cup t.by ELSE wide \ {m}
        /\ stale' = (stale \/ ~t.fresh)
        /\ Done(r, IF member[m].works = t.works THEN {} ELSE {m})
        /\ UNCHANGED <<live, invite, suspended>>

------------------------------------------------------------------------------
\* archive and reactivate of one member.

ArchiveMemberRead(r, m) ==
    /\ Here(m) /\ member[m].active
    /\ Begins(r, [Working("ARCHIVE", {m}) EXCEPT !.was = member[m].role])
    /\ UNCHANGED <<member, live, invite, suspended, wide, stale>>

ArchiveMember(r, m) ==
    LET t == task[r]
    IN  /\ t.op = "ARCHIVE" /\ t.of = {m}
        /\ IF t.was = "TENANT_ADMIN" /\ OtherAdmins(m) = {}
           THEN Done(r, {}) /\ UNCHANGED <<member, stale>>
           ELSE /\ member' = [member EXCEPT ![m].active = FALSE]
                /\ stale' = (stale \/ ~t.fresh)
                /\ Done(r, IF member[m].active THEN {m} ELSE {})
        /\ UNCHANGED <<live, invite, suspended, wide>>

Reactivate(m) ==
    /\ Here(m) /\ ~member[m].active
    /\ member' = [member EXCEPT ![m].active = TRUE] /\ Wrote({m})
    /\ UNCHANGED <<live, invite, suspended, wide, stale>>

------------------------------------------------------------------------------
\* suspend and reactivate of the workspace: the members are listed, then
\* written in one transaction with the workspace.

SuspendWorkspaceRead(r) ==
    /\ Begins(r, Working("SUSPEND", {m \in Members : Here(m) /\ member[m].active}))
    /\ UNCHANGED <<member, live, invite, suspended, wide, stale>>

SuspendWorkspace(r) ==
    /\ task[r].op = "SUSPEND"
    /\ member' = [m \in Members |-> [member[m] EXCEPT !.active = @ /\ m \notin task[r].of]]
    /\ suspended' = TRUE /\ Done(r, {m \in task[r].of : member[m].active})
    /\ UNCHANGED <<live, invite, wide, stale>>

RestoreWorkspaceRead(r) ==
    /\ Begins(r, Working("RESTORE", {m \in Members : Here(m) /\ ~member[m].active}))
    /\ UNCHANGED <<member, live, invite, suspended, wide, stale>>

RestoreWorkspace(r) ==
    /\ task[r].op = "RESTORE"
    /\ member' = [m \in Members |-> [member[m] EXCEPT !.active = @ \/ m \in task[r].of]]
    /\ suspended' = FALSE /\ stale' = (stale \/ ~task[r].fresh)
    /\ Done(r, {m \in task[r].of : ~member[m].active})
    /\ UNCHANGED <<live, invite, wide>>

------------------------------------------------------------------------------
\* Invitations.  At most one is open for an address; an expired one still is.

Awaited(m) == {i \in Invites : invite[i].state \in {"open", "expired"} /\ invite[i].email = m}

CreateInvite(i, m, role, works) ==
    /\ \E p \in Members : Administers(p)
    /\ invite[i].state = "none" /\ works \subseteq live /\ (role # "EVENT_ADMIN" => works = {})
    /\ ~(HasAccount(m) /\ member[m].active) /\ Awaited(m) = {}
    /\ invite' = [invite EXCEPT ![i] = TeamInvite(m, role, works, "open")]
    /\ UNCHANGED <<member, live, suspended, task, wide, stale>>

Resend(i) ==
    /\ \E p \in Members : Administers(p)
    /\ invite[i].state = "expired" /\ ~(HasAccount(invite[i].email) /\ member[invite[i].email].active)
    /\ invite' = [invite EXCEPT ![i].state = "open"]
    /\ UNCHANGED <<member, live, suspended, task, wide, stale>>

InviteExpires(i) ==
    /\ Open(i) /\ invite' = [invite EXCEPT ![i].state = "expired"]
    /\ UNCHANGED <<member, live, suspended, task, wide, stale>>

\* Of an invitation accepted meanwhile, revoking changes nothing that counts.
RevokeInvite(i) ==
    /\ \E p \in Members : Administers(p)
    /\ invite[i].state \in {"open", "expired"}
    /\ invite' = [invite EXCEPT ![i].state = "revoked"]
    /\ UNCHANGED <<member, live, suspended, task, wide, stale>>

LinkWorksOrHasEnded(i) == Open(i) /\ ~HasAccount(invite[i].email)

\* loadInviteForToken, the address's account and the events that are left.
LinkWorks(i) ==
    /\ Open(i) /\ ~HasAccount(invite[i].email)
    /\ invite[i].works # {} => invite[i].works \cap live # {}

AcceptRead(r, i) ==
    /\ LinkWorks(i)
    /\ Begins(r, [NoTask EXCEPT !.op = "ACCEPT", !.by = {i}, !.works = invite[i].works \cap live])
    /\ UNCHANGED <<member, live, invite, suspended, wide, stale>>

\* The transaction: the invitation, if open, is taken and the member created.
AcceptInvite(r, i) ==
    LET m == invite[i].email
    IN  /\ task[r].op = "ACCEPT" /\ task[r].by = {i}
        /\ IF Open(i) /\ ~HasAccount(m)
           THEN /\ invite' = [invite EXCEPT ![i].state = "accepted"]
                /\ member' = [member EXCEPT ![m] = Member(invite[i].role, TRUE, task[r].works)]
                /\ wide' = IF invite[i].works = {} THEN wide \cup {m} ELSE wide
                /\ Done(r, {m})
           ELSE Done(r, {}) /\ UNCHANGED <<invite, member, wide>>
        /\ UNCHANGED <<live, suspended, stale>>

Stops(r) ==
    /\ task[r] # NoTask /\ Done(r, {})
    /\ UNCHANGED <<member, live, invite, suspended, wide, stale>>

Roles == {"TENANT_ADMIN", "EVENT_ADMIN"}

TeamNext ==
    \/ \E e \in Events : EventComesOrGoes(e)
    \/ \E m \in Members : Register(m) \/ Reactivate(m) \/ \E role \in Roles : Create(m, role)
    \/ \E r \in TeamRequests, m \in Members :
          \/ ArchiveMemberRead(r, m) \/ Update(r, m) \/ ArchiveMember(r, m) \/ ReplaceForUser(r, m)
          \/ \E role \in Roles : UpdateRead(r, m, role)
          \/ \E works \in SUBSET Events, confirmed \in BOOLEAN : AssignRead(r, m, works, confirmed)
    \/ \E r \in TeamRequests : \/ SuspendWorkspaceRead(r) \/ SuspendWorkspace(r) \/ Stops(r)
                              \/ RestoreWorkspaceRead(r) \/ RestoreWorkspace(r)
    \/ \E i \in Invites :
          \/ Resend(i) \/ InviteExpires(i) \/ RevokeInvite(i)
          \/ \E r \in TeamRequests : AcceptRead(r, i) \/ AcceptInvite(r, i)
          \/ \E m \in Members, role \in Roles, works \in SUBSET Events : CreateInvite(i, m, role, works)

TeamSpec == TeamInit /\ [][TeamNext]_teamVars

------------------------------------------------------------------------------
TeamTypeOK ==
    /\ member \in [Members -> [role : Roles \cup {"none", "elsewhere"}, active : BOOLEAN, works : SUBSET Events]]
    /\ live \subseteq Events /\ suspended \in BOOLEAN /\ stale \in BOOLEAN /\ wide \subseteq Members
    /\ invite \in [Invites -> [email : Members, role : Roles \cup {"none"}, works : SUBSET Events,
                               state : {"none", "open", "expired", "revoked", "accepted"}]]
    /\ task \in [TeamRequests -> [op : {"idle", "ROLE", "ASSIGN", "ARCHIVE", "SUSPEND", "RESTORE", "ACCEPT"},
                              of : SUBSET Members, role : Roles \cup {"none"}, was : Roles \cup {"none"},
                              works : SUBSET Events, by : SUBSET (Members \cup Invites), fresh : BOOLEAN]]

\* The workspace keeps an admin who can get in, however its admins suspend and
\* demote each other at once: each is refused to be the last, under the lock.
\* It has none only while the platform has suspended it, or after a request
\* that judged a member by what it had read and was overtaken.
AdminsRemain == suspended \/ stale \/ \E m \in Members : Administers(m)

\* An event admin held to some events is never let see all of them but by
\* somebody who said so: not by accepting an invitation whose events are gone,
\* not by their events being archived, and not by a change of role or list,
\* unless one request overtook another.  Nobody else is held to any.
NarrowUntilConfirmed ==
    stale \/ \A m \in Members : /\ member[m].role = "EVENT_ADMIN" /\ member[m].works = {} => m \in wide
                                /\ member[m].role # "EVENT_ADMIN" => member[m].works = {}
\* A workspace keeps an admin, and who is held to some events stays held
\* (user.service.ts, user-invite.service.ts).
RolesKept == AdminsRemain /\ NarrowUntilConfirmed
=============================================================================
