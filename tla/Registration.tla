---------------------------- MODULE Registration ----------------------------
(***************************************************************************)
(* Who is on the guest list of ONE event, and how many seats they take:    *)
(* public registration (event-public.service.ts), a guest's answer         *)
(* (rsvp.service.ts, submit), and the organiser's own additions, archives  *)
(* and restores (guest.service.ts), which all change the same rows.        *)
(*                                                                         *)
(* A worker is one request being served.  Transactions run at READ         *)
(* COMMITTED: what a request reads before it holds the event's row lock is *)
(* a step of its own, and so is the moment its DELETE picks its rows.  The *)
(* event lock is held from the step that takes it until the commit.  An    *)
(* email address stands for itself; names, phones, questions and ticket    *)
(* purchases (see TicketPurchase) are left out.  A guest has one invite.   *)
(***************************************************************************)
EXTENDS Integers, FiniteSets

CONSTANTS
    Guests,     \* Guest row ids of primary guests
    Plus,       \* Guest row ids of plus-ones
    Emails,     \* normalised email addresses
    Days,       \* live event days
    Workers,    \* requests that can be in progress at once
    Ceiling,    \* MAX_GUESTS_PER_EVENT
    Caps,       \* values of Event.registrationCap in a run
    Limits,     \* values of the plan's guest limit in a run
    Passes,     \* guest caps of the event's pass in a run, 0 without one
    MaxPlus,    \* MAX_PLUS_ONES_ALLOWED
    Allowances, \* plus-one allowances the organiser sets in a run
    Audiences,  \* values of "the event is PUBLIC" in a run
    Organiser,  \* the organiser's operations in a run
    Doors,      \* phases of the event a run goes through after "open"
    None        \* SQL NULL

ASSUME ConstantsAssumption ==
    /\ IsFiniteSet(Guests) /\ IsFiniteSet(Plus)
    /\ Guests \cap Plus = {}
    /\ Ceiling \in Nat /\ MaxPlus \in Nat
    /\ Caps \subseteq Nat \cup {None}
    /\ Limits \subseteq Nat \cup {None} /\ Passes \subseteq Nat
    /\ Allowances \subseteq 0..MaxPlus /\ Audiences \subseteq BOOLEAN
    /\ Organiser \subseteq {"add", "archive", "restore", "invite", "settings"}
    /\ Doors \subseteq {"open", "replies", "closed"}
    /\ None \notin Nat \cup Emails \cup Guests \cup Plus \cup Workers

VARIABLES
    row,        \* Guest: "none", "live" or "archived", primary guests and plus-ones
    host,       \* Guest.hostGuestId
    selfReg,    \* Guest.selfRegisteredAt is set
    email,      \* Guest.email of primary guests
    allowed,    \* Guest.plusOnesAllowed
    inviteLive, \* ~Invite.isArchived
    answer,     \* Invite.status; Invite.used is "no longer PENDING"
    attends,    \* Attendance rows of each guest's invite
    public,     \* Event.visibility = PUBLIC
    door,       \* what the event's status and dates let in
    cap,        \* Event.registrationCap
    limit,      \* the guest limit of the tenant's plan
    passCap,    \* the guest cap of the event's pass while it is active, or 0
    allowance,  \* Event.registrationPlusOnesAllowed
    lock,       \* the worker holding the event's row lock, or None
    job,        \* what each worker is doing
    stale       \* history: a request has committed what it decided from a stale read

listVars == <<row, host, selfReg, email, allowed, inviteLive, answer, attends>>
eventVars == <<public, door, cap, limit, passCap, allowance>>
vars == <<listVars, eventVars, lock, job, stale>>

People == Guests \cup Plus

Idle == [step |-> "idle", kind |-> "none", who |-> None, mail |-> None, attending |-> FALSE,
         n |-> 0, days |-> {}, edit |-> FALSE, plus |-> {}, held |-> 0,
         cap |-> None, limit |-> None, allow |-> 0, del |-> {}, behind |-> {},
         gone |-> FALSE, shut |-> FALSE, pass |-> 0, count |-> 0]

\* resolveGuestLimit: the larger of the plan's limit and the pass's cap.
LimitOf(l, p) == IF l # None /\ p > l THEN p ELSE l

Jobs == [step : {"idle", "lock", "count", "clear", "commit"},
         kind : {"none", "register", "submit", "add", "restore"},
         who : People \cup {None},
         mail : Emails \cup {None},
         attending : BOOLEAN,
         n : 0..MaxPlus,
         days : SUBSET Days,
         edit : BOOLEAN,
         plus : SUBSET Plus,
         held : Nat,
         cap : Caps \cup {None},
         limit : Limits \cup Passes \cup {None},
         allow : 0..MaxPlus,
         del : SUBSET Days,
         behind : SUBSET Workers,
         gone : BOOLEAN,
         shut : BOOLEAN,
         pass : Passes \cup {0},
         count : 0..Cardinality(Guests)]

-----------------------------------------------------------------------------
(* Counting.                                                               *)

Live(S) == {x \in S : row[x] = "live"}
Unused(S) == {x \in S : row[x] = "none"}

PlusOnesOf(g) == {p \in Live(Plus) : host[p] = g}

\* countSeats.
PrimaryGuests == Cardinality(Live(Guests))
TotalGuests == Cardinality(Live(People))
RegisteredSeats ==
    Cardinality({g \in Live(Guests) : selfReg[g] /\ inviteLive[g] /\ answer[g] # "DECLINED"})
      + Cardinality({p \in Live(Plus) : row[host[p]] = "live" /\ selfReg[host[p]]})

Within(n, bound) == bound # None => n <= bound

\* isFull and assertPartyFits, for a party of `party` seats.
PartyFitsPrimariesOnly(party, c, l) ==
    /\ Within(RegisteredSeats + 1, c)
    /\ Within(PrimaryGuests + 1, l)
    /\ TotalGuests + party <= Ceiling
PartyFits(party, c, l) ==
    /\ Within(RegisteredSeats + party, c)
    /\ Within(PrimaryGuests + 1, l)
    /\ TotalGuests + party <= Ceiling

\* assertGuestsCreatable, held to the limit l.
GuestsCreatableAny(n, l) == Within(n, l)
GuestsCreatable(n, l) ==
    /\ Within(PrimaryGuests + n, l)
    /\ TotalGuests + n <= Ceiling

\* The partial unique index: no other live guest has this email.
EmailFree(m, g) == \A x \in Live(Guests) \ {g} : m = None \/ email[x] # m

\* The plus-ones an answer may name without the ceiling being asked.
Unasked(j) == IF j.edit THEN Cardinality(j.plus) ELSE 0

\* The seats a guest's last answer holds.
SeatsHeldBelow(g) == Cardinality(PlusOnesOf(g)) - (IF answer[g] = "DECLINED" THEN 1 ELSE 0)
SeatsHeld(g) == IF answer[g] # "DECLINED" THEN 1 + Cardinality(PlusOnesOf(g)) ELSE 0

\* What a submission by j asks for, in seats of the cap.
Wanted(j) == IF j.attending THEN 1 + j.n ELSE 0

\* The cap applies to the answer of j, and j asks for more than it holds.
CapApplies(j) == selfReg[j.who] /\ j.cap # None /\ Wanted(j) > j.held

SeatsLeft(j) == RegisteredSeats - j.held + Wanted(j) <= j.cap

\* The ceiling check of submit, after its own archive.
PlusOnesFitAlways(j) == j.n <= Ceiling
PlusOnesFit(j) ==
    \/ j.n <= Unasked(j)
    \/ TotalGuests - Cardinality(j.plus \cap Live(Plus)) + j.n <= Ceiling

\* The plus-ones an edit archives: those it read.
ReplacedNever(j) == {}
Replaced(j) == IF j.edit THEN j.plus ELSE {}

\* An answer worked out from plus-ones, days or a status that have changed
\* since, or a restore of a guest who was live when it was read.
Stale(j) ==
    \/ j.kind = "submit" /\ \/ j.plus # PlusOnesOf(j.who)
                            \/ j.edit # (answer[j.who] # "PENDING")
                            \/ (j.held = 0) # (answer[j.who] = "DECLINED")
                            \/ attends[j.who] \ j.del # {}
    \/ j.kind = "restore" /\ ~j.gone /\ row[j.who] = "archived"

LockFree(w) == lock \in {None, w}

Leave(w) == [v \in Workers |->
                IF v = w THEN Idle ELSE [job[v] EXCEPT !.behind = @ \ {w}]]
Unlock(w) == IF lock = w THEN None ELSE lock

Init ==
    /\ row = [x \in People |-> "none"]
    /\ host = [p \in Plus |-> None]
    /\ selfReg = [g \in Guests |-> FALSE]
    /\ email = [g \in Guests |-> None]
    /\ allowed = [g \in Guests |-> 0]
    /\ inviteLive = [x \in People |-> FALSE]
    /\ answer = [g \in Guests |-> "PENDING"]
    /\ attends = [g \in Guests |-> {}]
    /\ public \in Audiences
    /\ door = "open"
    /\ cap \in Caps
    /\ limit \in Limits
    /\ passCap \in Passes
    /\ allowance \in Allowances
    /\ lock = None
    /\ job = [w \in Workers |-> Idle]
    /\ stale = FALSE

-----------------------------------------------------------------------------
(* Public registration.                                                    *)

\* register reads the event, its rules and the plan's limit, unlocked, and
\* refuses what the form alone can show.
RegisterRead(w, m, n, D) ==
    /\ job[w] = Idle
    /\ public /\ door = "open"
    /\ n <= allowance
    /\ D # {}
    /\ job' = [job EXCEPT ![w] = [Idle EXCEPT
                  !.step = "lock", !.kind = "register", !.mail = m, !.n = n, !.days = D,
                  !.cap = cap, !.limit = LimitOf(limit, passCap), !.allow = allowance]]
    /\ UNCHANGED <<listVars, eventVars, lock, stale>>

\* Under the event lock: the address is new and the party fits, so the guest,
\* their ACCEPTED invite, their days and their plus-ones are created.
RegisterCommit(w, g, P) ==
    LET j == job[w] IN
    /\ j.step = "lock" /\ j.kind = "register"
    /\ lock = None
    /\ EmailFree(j.mail, None)
    /\ PartyFits(1 + j.n, j.cap, j.limit)
    /\ row[g] = "none"
    /\ Cardinality(P) = j.n
    /\ row' = [x \in People |-> IF x \in {g} \cup P THEN "live" ELSE row[x]]
    /\ inviteLive' = [x \in People |-> x \in {g} \cup P \/ inviteLive[x]]
    /\ host' = [p \in Plus |-> IF p \in P THEN g ELSE host[p]]
    /\ selfReg' = [selfReg EXCEPT ![g] = TRUE]
    /\ email' = [email EXCEPT ![g] = j.mail]
    /\ allowed' = [allowed EXCEPT ![g] = j.allow]
    /\ answer' = [answer EXCEPT ![g] = "ACCEPTED"]
    /\ attends' = [attends EXCEPT ![g] = j.days]
    /\ job' = Leave(w)
    /\ UNCHANGED <<eventVars, lock, stale>>

\* The address is on the list already, or there is no room, or the closing
\* date passed meanwhile: nothing is written.
RegisterRefused(w) ==
    LET j == job[w] IN
    /\ j.step = "lock" /\ j.kind = "register"
    /\ lock = None
    /\ \/ ~EmailFree(j.mail, None)
       \/ ~PartyFits(1 + j.n, j.cap, j.limit)
       \/ door # "open"
    /\ job' = Leave(w)
    /\ UNCHANGED <<listVars, eventVars, lock, stale>>

-----------------------------------------------------------------------------
(* A guest's answer.                                                       *)

\* submit reads the invite, its guest, their plus-ones and the event, once.
\* Neither an archived invite nor an archived guest is refused.
SubmitRead(w, g, attending, n, D, m) ==
    /\ job[w] = Idle
    /\ row[g] # "none"
    /\ door # "closed"
    /\ n <= (IF attending THEN allowed[g] ELSE 0)
    /\ attending \/ D = {}
    /\ m = None \/ (m # email[g] /\ EmailFree(m, g))
    /\ LET j == [Idle EXCEPT
                  !.kind = "submit", !.who = g, !.mail = m, !.attending = attending,
                  !.n = n, !.days = D, !.edit = (answer[g] # "PENDING"),
                  !.plus = PlusOnesOf(g), !.cap = cap,
                  !.held = SeatsHeld(g)]
       IN job' = [job EXCEPT ![w] = [j EXCEPT !.step = IF CapApplies(j) THEN "lock" ELSE "clear"]]
    /\ UNCHANGED <<listVars, eventVars, lock, stale>>

\* A registrant asking for more seats takes the event lock and is counted
\* against the cap read above.
SubmitLock(w) ==
    LET j == job[w] IN
    /\ j.step = "lock" /\ j.kind = "submit"
    /\ lock = None
    /\ SeatsLeft(j)
    /\ lock' = w
    /\ job' = [job EXCEPT ![w].step = "clear"]
    /\ UNCHANGED <<listVars, eventVars, stale>>

SubmitFull(w) ==
    LET j == job[w] IN
    /\ j.step = "lock" /\ j.kind = "submit"
    /\ lock = None
    /\ ~SeatsLeft(j)
    /\ job' = Leave(w)
    /\ UNCHANGED <<listVars, eventVars, lock, stale>>

\* An edit's DELETE picks the attendance rows there are now.  Rows another
\* transaction is deleting make it wait for that one; it does not look again
\* for the rows that one inserts.
SubmitClear(w) ==
    LET j == job[w]
        del == IF j.edit THEN attends[j.who] ELSE {}
    IN
    /\ j.step = "clear"
    /\ job' = [job EXCEPT ![w].step = "commit", ![w].del = del,
                  ![w].behind = {v \in Workers \ {w} :
                      job[v].step = "commit" /\ job[v].who = j.who /\ job[v].del \cap del # {}}]
    /\ UNCHANGED <<listVars, eventVars, lock, stale>>

\* Naming plus-ones inserts guests, which takes a share of the event's row.
\* The ceiling is counted, the replaced plus-ones archived and the new ones
\* created, with an attendance row per day that must not be there yet.
SubmitCommit(w, P) ==
    LET j == job[w]
        g == j.who
        kept == attends[g] \ j.del
    IN
    /\ j.step = "commit"
    /\ j.behind = {}
    /\ j.n > 0 => LockFree(w)
    /\ Cardinality(P) = j.n
    /\ PlusOnesFit(j)
    /\ kept \cap j.days = {}
    /\ row[g] = "live" => EmailFree(j.mail, g)
    /\ row' = [x \in People |-> IF x \in P THEN "live"
                                ELSE IF x \in Replaced(j) THEN "archived" ELSE row[x]]
    /\ inviteLive' = [x \in People |-> x \in P \/ (x \notin Replaced(j) /\ inviteLive[x])]
    /\ host' = [p \in Plus |-> IF p \in P THEN g ELSE host[p]]
    /\ email' = [email EXCEPT ![g] = IF j.mail # None THEN j.mail ELSE @]
    /\ answer' = [answer EXCEPT ![g] = IF j.attending THEN "ACCEPTED" ELSE "DECLINED"]
    /\ attends' = [attends EXCEPT ![g] = kept \cup j.days]
    /\ job' = [v \in Workers |->
                  IF v # w /\ job[v].who = g
                  THEN [Leave(w)[v] EXCEPT !.del = @ \ j.del] ELSE Leave(w)[v]]
    /\ lock' = Unlock(w)
    /\ stale' = (stale \/ Stale(j))
    /\ UNCHANGED <<selfReg, allowed, eventVars>>

\* The event is full, or a unique index refuses the email or a day.
SubmitRefused(w) ==
    LET j == job[w] IN
    /\ j.step = "commit"
    /\ j.behind = {}
    /\ j.n > 0 => LockFree(w)
    /\ \/ ~PlusOnesFit(j)
       \/ (attends[j.who] \ j.del) \cap j.days # {}
       \/ row[j.who] = "live" /\ ~EmailFree(j.mail, j.who)
    /\ job' = Leave(w)
    /\ lock' = Unlock(w)
    /\ UNCHANGED <<listVars, eventVars, stale>>

\* A transaction times out, the process dies, or Postgres ends a deadlock
\* (an answer waiting for the event's row while the holder of that row waits
\* for the answer's attendance rows): everything is rolled back.
Abort(w) ==
    /\ job[w] # Idle
    /\ job' = Leave(w)
    /\ lock' = Unlock(w)
    /\ UNCHANGED <<listVars, eventVars, stale>>

-----------------------------------------------------------------------------
(* The organiser.                                                          *)

\* create and importGuests read the event, its visibility and its pass, and
\* refuse an address on the list; only a private event has a list to fill in.
AddRead(w, c, m, k) ==
    /\ "add" \in Organiser
    /\ job[w] = Idle
    /\ ~public
    /\ c > 0
    /\ m # None => c = 1
    /\ EmailFree(m, None)
    /\ job' = [job EXCEPT ![w] = [Idle EXCEPT !.step = "lock", !.kind = "add", !.mail = m,
                                             !.allow = k, !.pass = passCap, !.count = c]]
    /\ UNCHANGED <<listVars, eventVars, lock, stale>>

\* An addition or a restore takes the event lock, and only then reads the
\* plan, which no event lock holds still.
PlanRead(w) ==
    LET j == job[w] IN
    /\ j.step = "lock" /\ j.kind \in {"add", "restore"}
    /\ lock = None
    /\ lock' = w
    /\ job' = [job EXCEPT ![w] = [j EXCEPT !.step = "count", !.limit = LimitOf(limit, j.pass)]]
    /\ UNCHANGED <<listVars, eventVars, stale>>

\* The guests are counted, and written.
AddCommit(w, S) ==
    LET j == job[w] IN
    /\ j.step = "count" /\ j.kind = "add"
    /\ lock = w
    /\ S \subseteq Unused(Guests) /\ Cardinality(S) = j.count
    /\ EmailFree(j.mail, None)
    /\ GuestsCreatable(j.count, j.limit)
    /\ row' = [x \in People |-> IF x \in S THEN "live" ELSE row[x]]
    /\ inviteLive' = [x \in People |-> x \in S \/ inviteLive[x]]
    /\ email' = [g \in Guests |-> IF g \in S THEN j.mail ELSE email[g]]
    /\ allowed' = [g \in Guests |-> IF g \in S THEN j.allow ELSE allowed[g]]
    /\ job' = Leave(w)
    /\ lock' = Unlock(w)
    /\ UNCHANGED <<host, selfReg, answer, attends, eventVars, stale>>

AddRefused(w) ==
    LET j == job[w] IN
    /\ j.step = "count" /\ j.kind = "add"
    /\ lock = w
    /\ ~EmailFree(j.mail, None) \/ ~GuestsCreatable(j.count, j.limit)
    /\ job' = Leave(w)
    /\ lock' = Unlock(w)
    /\ UNCHANGED <<listVars, eventVars, stale>>

\* archive: the guest and their invite, not their plus-ones.
ArchiveGuest(x) ==
    /\ "archive" \in Organiser
    /\ row[x] = "live"
    /\ row' = [row EXCEPT ![x] = "archived"]
    /\ inviteLive' = [inviteLive EXCEPT ![x] = FALSE]
    /\ UNCHANGED <<host, selfReg, email, allowed, answer, attends, eventVars, lock, job, stale>>

\* reactivate reads the guest, archived or not, the event's pass and the
\* guest's archived invites.
RestoreRead(w, x) ==
    /\ "restore" \in Organiser
    /\ job[w] = Idle
    /\ row[x] # "none"
    /\ job' = [job EXCEPT ![w] = [Idle EXCEPT !.step = "lock", !.kind = "restore", !.who = x,
                                             !.gone = (row[x] = "archived"), !.shut = ~inviteLive[x],
                                             !.pass = passCap]]
    /\ UNCHANGED <<listVars, eventVars, lock, stale>>

\* A guest read as archived is held to what adding one is; a plus-one only
\* to the ceiling.
Restorable(j) ==
    j.gone => IF j.who \in Plus THEN TotalGuests + 1 <= Ceiling ELSE GuestsCreatable(1, j.limit)

RestoreCommit(w) ==
    LET j == job[w] IN
    /\ j.step = "count" /\ j.kind = "restore"
    /\ lock = w
    /\ Restorable(j)
    /\ j.who \in Guests => EmailFree(email[j.who], j.who)
    /\ row' = [row EXCEPT ![j.who] = "live"]
    /\ inviteLive' = [inviteLive EXCEPT ![j.who] = @ \/ j.shut]
    /\ job' = Leave(w)
    /\ lock' = Unlock(w)
    /\ stale' = (stale \/ Stale(j))
    /\ UNCHANGED <<host, selfReg, email, allowed, answer, attends, eventVars>>

RestoreRefused(w) ==
    LET j == job[w] IN
    /\ j.step = "count" /\ j.kind = "restore"
    /\ lock = w
    /\ \/ ~Restorable(j)
       \/ j.who \in Guests /\ ~EmailFree(email[j.who], j.who)
    /\ job' = Leave(w)
    /\ lock' = Unlock(w)
    /\ UNCHANGED <<listVars, eventVars, stale>>

\* inviteService archives or brings back an invite without its guest.
FlipInvite(x) ==
    /\ "invite" \in Organiser
    /\ row[x] # "none"
    /\ inviteLive' = [inviteLive EXCEPT ![x] = ~@]
    /\ UNCHANGED <<row, host, selfReg, email, allowed, answer, attends, eventVars, lock, job, stale>>

\* guestService.update changes a guest's plus-one allowance and email.
UpdateGuest(g, k, m) ==
    /\ "settings" \in Organiser
    /\ row[g] = "live"
    /\ m = email[g] \/ EmailFree(m, g)
    /\ allowed' = [allowed EXCEPT ![g] = k]
    /\ email' = [email EXCEPT ![g] = m]
    /\ UNCHANGED <<row, host, selfReg, inviteLive, answer, attends, eventVars, lock, job, stale>>

\* The event's settings, its plan, its pass, its visibility and its dates.  An
\* UPDATE of the event waits for the row lock; the plan, the pass and the clock
\* do not.  A new cap is never past the limit in force.
SetEvent(c, a, b) ==
    /\ "settings" \in Organiser
    /\ lock = None
    /\ c # cap /\ c # None => Within(c, LimitOf(limit, passCap))
    /\ cap' = c /\ allowance' = a /\ public' = b
    /\ UNCHANGED <<listVars, door, limit, passCap, lock, job, stale>>

SetPlan(l) ==
    /\ limit' = l
    /\ UNCHANGED <<listVars, public, door, cap, passCap, allowance, lock, job, stale>>

\* The pass is bought, or the last of the days it covers has gone by.
SetPass(p) ==
    /\ passCap' = p
    /\ UNCHANGED <<listVars, public, door, cap, limit, allowance, lock, job, stale>>

SetDoor(d) ==
    /\ door' = d
    /\ UNCHANGED <<listVars, public, cap, limit, passCap, allowance, lock, job, stale>>

-----------------------------------------------------------------------------

Next ==
    \/ \E w \in Workers, m \in Emails, n \in 0..MaxPlus, D \in SUBSET Days : RegisterRead(w, m, n, D)
    \/ \E w \in Workers, g \in Guests, P \in SUBSET Unused(Plus) : RegisterCommit(w, g, P)
    \/ \E w \in Workers : RegisterRefused(w)
    \/ \E w \in Workers, g \in Guests, t \in BOOLEAN, n \in 0..MaxPlus, D \in SUBSET Days,
          m \in Emails \cup {None} : SubmitRead(w, g, t, n, D, m)
    \/ \E w \in Workers : SubmitLock(w)
    \/ \E w \in Workers : SubmitFull(w)
    \/ \E w \in Workers : SubmitClear(w)
    \/ \E w \in Workers, P \in SUBSET Unused(Plus) : SubmitCommit(w, P)
    \/ \E w \in Workers : SubmitRefused(w)
    \/ \E w \in Workers : Abort(w)
    \/ \E w \in Workers, c \in 0..Cardinality(Guests), m \in Emails \cup {None}, k \in Allowances :
          AddRead(w, c, m, k)
    \/ \E w \in Workers : PlanRead(w)
    \/ \E w \in Workers, S \in SUBSET Guests : AddCommit(w, S)
    \/ \E w \in Workers : AddRefused(w)
    \/ \E x \in People : ArchiveGuest(x)
    \/ \E w \in Workers, x \in People : RestoreRead(w, x)
    \/ \E w \in Workers : RestoreCommit(w)
    \/ \E w \in Workers : RestoreRefused(w)
    \/ \E x \in People : FlipInvite(x)
    \/ \E g \in Guests, k \in Allowances, m \in Emails \cup {None} : UpdateGuest(g, k, m)
    \/ \E c \in Caps, a \in Allowances, b \in Audiences : SetEvent(c, a, b)
    \/ \E l \in Limits : SetPlan(l)
    \/ \E p \in Passes : SetPass(p)
    \/ \E d \in Doors : SetDoor(d)

Spec == Init /\ [][Next]_vars

-----------------------------------------------------------------------------
(* Properties.                                                             *)

\* The type of every variable.
TypeOK ==
    /\ row \in [People -> {"none", "live", "archived"}]
    /\ host \in [Plus -> Guests \cup {None}]
    /\ selfReg \in [Guests -> BOOLEAN]
    /\ email \in [Guests -> Emails \cup {None}]
    /\ allowed \in [Guests -> 0..MaxPlus]
    /\ inviteLive \in [People -> BOOLEAN]
    /\ answer \in [Guests -> {"PENDING", "ACCEPTED", "DECLINED"}]
    /\ attends \in [Guests -> SUBSET Days]
    /\ public \in BOOLEAN /\ door \in {"open", "replies", "closed"}
    /\ cap \in Caps /\ limit \in Limits /\ passCap \in Passes /\ allowance \in 0..MaxPlus
    /\ lock \in Workers \cup {None}
    /\ job \in [Workers -> Jobs]
    /\ stale \in BOOLEAN

\* The request of w commits in this step.
Commits(w, kind) ==
    /\ job[w].kind = kind
    /\ job'[w] = Idle
    /\ <<listVars>>' # <<listVars>>

\* Nobody who registers, or answers, takes the registered seats past the cap
\* they were held to, however registrations and answers interleave.
CapStep ==
    \A w \in Workers :
        (Commits(w, "register") \/ Commits(w, "submit"))
           /\ RegisteredSeats' > RegisteredSeats /\ job[w].cap # None
        => RegisteredSeats' <= job[w].cap
CapKept == [][CapStep]_vars
CapKeptIfFresh == [][~stale' => CapStep]_vars

\* No event ever has more than MAX_GUESTS_PER_EVENT live guests, plus-ones
\* included, whichever way they come onto the list.
CeilingKept == TotalGuests <= Ceiling
CeilingKeptIfFresh == ~stale => CeilingKept

\* Whatever adds primary guests, a registration, an addition, an import or a
\* restore, is one request, and it takes them no further than the limit that
\* request has read: before the lock when registering, else the pass before the
\* lock and the plan under it, so not always the limit in force.
PlanStep ==
    PrimaryGuests' > PrimaryGuests =>
        \E w \in Workers :
            job[w] # Idle /\ job'[w] = Idle /\ Within(PrimaryGuests', job[w].limit)
PlanKeptIfFresh == [][~stale' => PlanStep]_vars

\* A committed answer is the whole of the guest's answer: the plus-ones and
\* the days they have afterwards are the ones it named.
AnswerStep ==
    \A w \in Workers, g \in Guests :
        Commits(w, "submit") /\ job[w].who = g =>
            /\ Cardinality(PlusOnesOf(g)') = job[w].n
            /\ attends'[g] = job[w].days
AnswerReplacesIfFresh == [][~stale' => AnswerStep]_vars
=============================================================================
