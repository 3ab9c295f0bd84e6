----------------------------- MODULE Reminders ------------------------------
(***************************************************************************)
(* Invitations and reminders of one event (invite-dispatch.service.ts,     *)
(* invite-reminder.util.ts, invite.repository.ts) and what limits them     *)
(* (event-email-limit.util.ts, sms-tier-enforcement.util.ts).              *)
(*                                                                         *)
(* A request reads, claims what it is about to send, then sends, and may   *)
(* stop anywhere.  The event is private, published and open for answers.   *)
(* The cooldown and the window of the emails are both 24 hours: here a day *)
(* passes for all at once, when no request is under way.  Texts are        *)
(* counted by the month, which does not end.  Invites are numbered as they *)
(* were created.                                                           *)
(***************************************************************************)
EXTENDS Naturals, FiniteSets, FiniteSetsExt

CONSTANTS
    Guests,
    MaxLetters,     \* invites there are
    Holder,         \* the guest of each
    ByText,         \* those delivered by SMS
    Senders,        \* requests at once
    EmailLimit,     \* EVENT_EMAILS_PER_DAY
    TextQuota,      \* texts the plan gives
    Texts           \* none of Guests

ASSUME RemindersAssumption ==
    /\ MaxLetters \in Nat /\ EmailLimit \in Nat /\ TextQuota \in Nat
    /\ Holder \in [1..MaxLetters -> Guests] /\ ByText \subseteq 1..MaxLetters
    /\ Texts \notin Guests

VARIABLES
    letter,     \* Invite rows
    latest,     \* the invite of each guest that was delivered last, or 0
    posted,     \* EventEmailClaim: emails claimed this day
    texts,      \* SmsSendLog rows
    job,        \* what each request is doing
    reached,    \* history: reminders of each guest the sender was told went this day
    mailed,     \* history: emails that went out this day, whatever the answer
    blurred,    \* history: guests about whom two requests read different things, or whose
                \* log row is missing; and Texts, if a check of the quota missed one
    again       \* history: guests a reminder reached after one of the day whose sender
                \* had been told that it went

reminderVars == <<letter, latest, posted, texts, job, reached, mailed, blurred, again>>

Letters == 1..MaxLetters

\* reminded is lastRemindedAt: "never", "today" or "before".
NewLetter == [answered |-> FALSE, live |-> TRUE, delivered |-> FALSE, reminded |-> "never"]

Live == {i \in Letters : letter[i].live}
Of(g) == {i \in Live : Holder[i] = g}
Emailed(S) == S \ ByText

\* pick: the invites chosen, later those claimed.  before: their lastRemindedAt
\* as read.  todo: texts still to send.  ok: those the message reached.
Job(op, step, pick, before) ==
    [op |-> op, step |-> step, pick |-> pick, before |-> before, todo |-> {}, ok |-> {}]
NoJob == Job("none", "idle", {}, <<>>)
Does(r, j) == job' = [job EXCEPT ![r] = j]

RemindersInit ==
    /\ letter = [i \in Letters |-> NewLetter] /\ latest = [g \in Guests |-> 0]
    /\ posted = 0 /\ texts = 0 /\ job = [r \in Senders |-> NoJob]
    /\ reached = [g \in Guests |-> 0] /\ mailed = 0 /\ blurred = {} /\ again = {}

------------------------------------------------------------------------------
\* The guests, and the passing of a day.

Reply(i) ==
    /\ i \in Live /\ ~letter[i].answered
    /\ letter' = [letter EXCEPT ![i].answered = TRUE]
    /\ UNCHANGED <<latest, posted, texts, job, reached, mailed, blurred, again>>

\* A change in which invites a guest has, while a reminder has read them and
\* claimed nothing yet: the next reminder may choose another of them.
Blurs(S) == IF \E r \in Senders : job[r].op = "REMINDER" /\ job[r].step = "claim"
            THEN {Holder[i] : i \in S} ELSE {}

\* An archived invite is not read again: nor is that its guest was reminded.
ArchiveOrRestore(i) ==
    /\ letter' = [letter EXCEPT ![i].live = ~@]
    /\ blurred' = blurred \cup Blurs({i}) \cup (IF letter[i].reminded = "today" THEN {Holder[i]} ELSE {})
    /\ UNCHANGED <<latest, posted, texts, job, reached, mailed, again>>

DayEnds ==
    /\ \A r \in Senders : job[r] = NoJob
    /\ posted > 0 \/ \E i \in Letters : letter[i].reminded = "today"
    /\ letter' = [i \in Letters |-> [letter[i] EXCEPT !.reminded = IF @ = "today" THEN "before" ELSE @]]
    /\ posted' = 0 /\ mailed' = 0 /\ reached' = [g \in Guests |-> 0]
    /\ UNCHANGED <<latest, texts, job, blurred, again>>

------------------------------------------------------------------------------
\* What limits them.

\* assertSmsSendable: read before the texts are sent; they are logged after.
TextsAllow(S) == S \cap ByText # {} => texts + Cardinality(S \cap ByText) <= TextQuota

Overlaps(S) == IF S \cap ByText # {} /\ \E r \in Senders : job[r].pick \cap ByText # {} THEN {Texts} ELSE {}

\* claimEventEmails, under the event's row lock: all or nothing.
EmailsAllow(S) == posted + Cardinality(Emailed(S)) <= EmailLimit

------------------------------------------------------------------------------
\* sendBulk, and resend, of one invite, which goes the same way.

SendRead(r, S) ==
    /\ job[r] = NoJob /\ S # {} /\ S \subseteq Live /\ TextsAllow(S)
    /\ Does(r, Job("INVITE", "emails", S, <<>>))
    /\ blurred' = blurred \cup Overlaps(S)
    /\ UNCHANGED <<letter, latest, posted, texts, reached, mailed, again>>

ResendRead(r, i) == SendRead(r, {i})

\* For reminders too: refused, they give back what they claimed.
ClaimEmails(r) ==
    LET j == job[r]
    IN  /\ j.step = "emails"
        /\ IF EmailsAllow(j.pick)
           THEN posted' = posted + Cardinality(Emailed(j.pick)) /\ Does(r, [j EXCEPT !.step = "batch"])
           ELSE UNCHANGED posted /\ Does(r, [j EXCEPT !.step = "end"])
        /\ UNCHANGED <<letter, latest, texts, reached, mailed, blurred, again>>

\* A reminder of these invites reaches their guests.
Repeats(op, S) ==
    again' = again \cup (IF op = "INVITE" THEN {} ELSE {Holder[i] : i \in {k \in S : reached[Holder[k]] > 0}})

\* dispatchMany: first every email.  Some go, and the answer says so of some of
\* those: a call that times out or breaks off is an email not sent, to the sender.
SendEmails(r, went, ok) ==
    LET j == job[r]
    IN  /\ j.step = "batch" /\ went \subseteq Emailed(j.pick) /\ ok \subseteq went
        /\ mailed' = mailed + Cardinality(went)
        /\ reached' = [g \in Guests |-> IF j.op = "INVITE" THEN reached[g]
                                        ELSE reached[g] + Cardinality({i \in ok : Holder[i] = g})]
        /\ Repeats(j.op, went)
        /\ Does(r, [j EXCEPT !.step = "mark", !.ok = ok, !.todo = j.pick \cap ByText])
        /\ UNCHANGED <<letter, latest, posted, texts, blurred>>

\* Deliveries of one statement have one time; the later invite goes first then.
Delivers(op, S) ==
    IF op = "REMINDER" THEN UNCHANGED <<letter, latest>>
    ELSE /\ letter' = [i \in Letters |-> IF i \in S THEN [letter[i] EXCEPT !.delivered = TRUE] ELSE letter[i]]
         /\ latest' = [g \in Guests |-> LET D == {i \in S : Holder[i] = g}
                                         IN  IF D = {} THEN latest[g] ELSE Max(D)]

MarkDelivered(r) ==
    LET j == job[r]
    IN  /\ j.step = "mark"
        /\ Delivers(j.op, j.ok)
        /\ blurred' = IF j.op = "INVITE" THEN blurred \cup Blurs(j.ok) ELSE blurred
        /\ Does(r, [j EXCEPT !.step = "text"])
        /\ UNCHANGED <<posted, texts, reached, mailed, again>>

\* dispatchOne, one text after another: not sent, or sent and not answered, which
\* is the same to the sender; sent, marked and logged; or sent and marked with no
\* log row, which ends the request.
SendText(r, i) ==
    LET j == job[r]
        gone(row) ==
            /\ Delivers(j.op, {i}) /\ Repeats(j.op, {i})
            /\ reached' = IF j.op = "INVITE" THEN reached ELSE [reached EXCEPT ![Holder[i]] = @ + 1]
            /\ texts' = IF row THEN texts + 1 ELSE texts
            /\ blurred' = blurred \cup (IF row THEN {} ELSE {Texts, Holder[i]})
                                   \cup (IF j.op = "INVITE" THEN Blurs({i}) ELSE {})
    IN  /\ j.step = "text" /\ i \in j.todo
        /\ \/ /\ Does(r, [j EXCEPT !.todo = @ \ {i}]) /\ UNCHANGED <<letter, latest, texts, reached, blurred>>
              /\ UNCHANGED again \/ Repeats(j.op, {i})
           \/ gone(TRUE) /\ Does(r, [j EXCEPT !.todo = @ \ {i}, !.ok = @ \cup {i}])
           \/ gone(FALSE) /\ Does(r, [j EXCEPT !.step = "end"])
        /\ UNCHANGED <<posted, mailed>>

------------------------------------------------------------------------------
\* remindBulk.

\* classifyGuestForReminder, over every live invite of the guest.
Remindable(g) ==
    /\ \A i \in Of(g) : ~letter[i].answered /\ letter[i].reminded # "today"
    /\ \E i \in Of(g) : letter[i].delivered

\* The invite last delivered; of those that are left, if it is archived.
Target(g) == IF latest[g] \in Of(g) THEN latest[g] ELSE Max({i \in Of(g) : letter[i].delivered})

RemindRead(r, G) ==
    LET S == {Target(g) : g \in {h \in G : Remindable(h)}}
    IN  /\ job[r] = NoJob /\ S # {} /\ TextsAllow(S)
        /\ Does(r, Job("REMINDER", "claim", S, [i \in S |-> letter[i].reminded]))
        /\ blurred' = blurred \cup Overlaps(S)
        /\ UNCHANGED <<letter, latest, posted, texts, reached, mailed, again>>

\* A claim that does not ask when the last reminder went.
ClaimableAnyway(i) == letter[i].live /\ ~letter[i].answered

\* claimReminders: one conditional write.
Claimable(i) == letter[i].live /\ ~letter[i].answered /\ letter[i].reminded # "today"

ClaimReminders(r) ==
    LET j == job[r]  S == {i \in j.pick : Claimable(i)}
    IN  /\ j.step = "claim"
        /\ letter' = [i \in Letters |-> IF i \in S THEN [letter[i] EXCEPT !.reminded = "today"] ELSE letter[i]]
        /\ Does(r, [j EXCEPT !.step = "emails", !.pick = S])
        /\ UNCHANGED <<latest, posted, texts, reached, mailed, blurred, again>>

\* The end of either; releaseReminderClaims gives back what did not reach its
\* guest.  Nobody claims those in between, so each is still this claim's own.
EndJob(r) ==
    LET j == job[r]
    IN  /\ j.step = "end" \/ (j.step = "text" /\ j.todo = {})
        /\ letter' = [i \in Letters |-> IF j.op = "REMINDER" /\ i \in j.pick \ j.ok
                                        THEN [letter[i] EXCEPT !.reminded = j.before[i]] ELSE letter[i]]
        /\ Does(r, NoJob)
        /\ UNCHANGED <<latest, posted, texts, reached, mailed, blurred, again>>

\* A crash between two texts' sending and logging is SendText without a row.
StopJob(r) ==
    /\ job[r] # NoJob /\ Does(r, NoJob)
    /\ UNCHANGED <<letter, latest, posted, texts, reached, mailed, blurred, again>>

RemindersNext ==
    \/ DayEnds
    \/ \E i \in Letters : Reply(i) \/ ArchiveOrRestore(i)
    \/ \E r \in Senders :
          \/ ClaimEmails(r) \/ MarkDelivered(r) \/ ClaimReminders(r) \/ EndJob(r) \/ StopJob(r)
          \/ \E S \in SUBSET Letters : SendRead(r, S) \/ \E ok \in SUBSET S : SendEmails(r, S, ok)
          \/ \E i \in Letters : ResendRead(r, i) \/ SendText(r, i)
          \/ \E G \in SUBSET Guests : RemindRead(r, G)

RemindersSpec == RemindersInit /\ [][RemindersNext]_reminderVars

------------------------------------------------------------------------------
RemindersTypeOK ==
    /\ letter \in [Letters -> [answered : BOOLEAN, live : BOOLEAN, delivered : BOOLEAN,
                               reminded : {"never", "today", "before"}]]
    /\ latest \in [Guests -> 0..MaxLetters]
    /\ posted \in 0..EmailLimit /\ texts \in Nat /\ mailed \in Nat
    /\ reached \in [Guests -> Nat] /\ blurred \subseteq Guests \cup {Texts} /\ again \subseteq Guests
    /\ \A r \in Senders :
          /\ job[r].step \in {"idle", "claim", "emails", "batch", "mark", "text", "end"}
          /\ job[r].pick \subseteq Letters /\ job[r].todo \subseteq job[r].pick

\* However requests race, fail half way or stop: in one day a guest is reminded
\* once at most of whom the sender is told that the reminder went, and no reminder
\* reaches the guest after that one, so that only a lost answer makes a second;
\* no more emails go out than the limit, whatever the answers; and no more texts
\* are logged than the plan gives.  The reminders are per guest and the claim per
\* invite, so they hold unless the guest's invites changed between two reads
\* or the one the reminder went with was archived;
\* the texts unless two checks of the quota overlapped; and both unless a log
\* row of a text could not be written.
WithinTheDay ==
    /\ \A g \in Guests : (reached[g] <= 1 /\ g \notin again) \/ g \in blurred
    /\ mailed <= posted
    /\ texts <= TextQuota \/ Texts \in blurred
=============================================================================
