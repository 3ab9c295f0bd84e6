----------------------------- MODULE InvitePage -----------------------------
(***************************************************************************)
(* The page behind one guest's invitation link (rsvp.service.ts): what     *)
(* validate shows, what submit makes of a form, and what the organiser     *)
(* changes under it: the days and questions of the event, the guest's      *)
(* contact, name and allowance, and the channel of the invite.             *)
(*                                                                         *)
(* A request reads without a lock and writes when its transaction commits, *)
(* so a second form, or an edit of the guest, may be saved in between.  An *)
(* email, a phone or a name is there or not: a form with one that is       *)
(* malformed, outside the event's domains or another guest's is refused    *)
(* and left out, as is one of the wrong shape.  A contact that is set is a *)
(* new one.  The seats an answer takes are in Registration, and the ticket *)
(* it may reserve in TicketPurchase.                                       *)
(***************************************************************************)
EXTENDS Integers, FiniteSets

CONSTANTS
    Offered,     \* the days of the event the invite offers
    Asked,       \* the questions of the event
    Words,       \* what a question may be answered with
    Unanswered,  \* a question with no answer
    Tabs,        \* requests that can be in progress at once
    MaxForms,    \* forms read in a behaviour
    MaxParty     \* plus-ones, allowed or named

ASSUME PageAssumption ==
    MaxForms \in Nat /\ MaxParty \in Nat /\ Unanswered \notin Words

VARIABLES
    guest,      \* Guest: an email, a phone and a name are known; plusOnesAllowed
    link,       \* Invite: deliveryMethod, status, used
    admits,     \* the event's status and dates, and the invite's, let an answer in
    texts,      \* the sms feature is on
    running,    \* the offered days that are not archived
    question,   \* RsvpField: not there, asked or archived; isRequired; the answers of its type
    attended,   \* Attendance: the days chosen
    reply,      \* RsvpResponse: the answer to each question
    party,      \* the live plus-ones, by the form that named them
    forms,      \* forms read so far
    visit,      \* what each request in progress has read and is to write
    current,    \* history: the forms in progress that have read what is asked now
    overtaken,  \* history: a contact was written by a request that had read another, or another channel
    moved,      \* history: the organiser changed the contact or the channel
    reworked    \* history: more is asked, or less allowed, than of the guest's last answer

answerVars == <<link, attended, reply, party>>
askedVars == <<admits, running, question>>
historyVars == <<overtaken, moved, reworked>>
pageVars == <<guest, answerVars, askedVars, texts, forms, visit, current, historyVars>>

Intents == {"keep", "remove", "set"}
Channels == {"EMAIL", "SMS"}
NoVisit == [kind |-> "none"]

-----------------------------------------------------------------------------
(* What the page shows, and the form filled in from it.                    *)

Shown == {q \in Asked : question[q].st = "asked"}

\* The days chosen that are still on the invitation.
DaysChosen == attended
DaysShown == attended \cap running

\* What validate fills the form in with: the days that are still there, and
\* every answer given, to a question that is still asked or not.
Prefilled ==
    [attending |-> link.status # "DECLINED", email |-> "keep", phone |-> "keep", name |-> FALSE,
     days |-> DaysShown, plus |-> Cardinality(party), answers |-> reply]

\* The same form, with the questions alone that are still asked.
PrefilledAsked ==
    [Prefilled EXCEPT !.answers = [q \in Asked |-> IF q \in Shown THEN reply[q] ELSE Unanswered]]

\* One part of a form is changed before it is sent.
Changed(f) ==
    {[f EXCEPT !.email = e, !.phone = p] : e, p \in Intents}
      \cup {[f EXCEPT !.attending = a, !.days = D] : a \in BOOLEAN, D \in SUBSET Offered}
      \cup {[f EXCEPT !.answers[q] = w] : q \in Asked, w \in Words \cup {Unanswered}}
      \cup {[f EXCEPT !.name = n, !.plus = k] : n \in BOOLEAN, k \in 0..MaxParty}
Filled == Changed(Prefilled) \cup Changed(PrefilledAsked)

-----------------------------------------------------------------------------
(* What a form is refused for.                                             *)

\* A contact after contactIntent: kept, removed or set.
Resolved(has, intent) == intent = "set" \/ (intent = "keep" /\ has)

\* One contact is kept, and with texts off the email.
ContactRefused(f) ==
    LET email == Resolved(guest.email, f.email)
    IN  \/ ~texts /\ guest.email /\ ~email
        \/ ~email /\ ~Resolved(guest.phone, f.phone)

NameMissing(f) == f.attending /\ ~guest.named /\ ~f.name

\* A required question left blank by one who comes, or an answer that is not
\* of its question's type.
AnswerRefused(f) ==
    \E q \in Shown : IF f.answers[q] = Unanswered THEN f.attending /\ question[q].required
                     ELSE f.answers[q] \notin question[q].takes

\* An answer to a question that is no longer asked.
AnswerUnknown(f) == \E q \in Asked \ Shown : f.answers[q] # Unanswered

DayRefused(f) == f.attending /\ ~(f.days \subseteq running)
PartyRefused(f) == f.attending /\ f.plus > guest.allowed

Accepts(f) ==
    /\ admits
    /\ ~ContactRefused(f) /\ ~NameMissing(f) /\ ~AnswerRefused(f)
    /\ ~DayRefused(f) /\ ~PartyRefused(f) /\ ~AnswerUnknown(f)

\* The invite is sent to the contact that is left.
Kept(f) == link.channel
Rerouted(f) ==
    CASE link.channel = "SMS" /\ ~Resolved(guest.phone, f.phone) -> "EMAIL"
      [] link.channel = "EMAIL" /\ ~Resolved(guest.email, f.email) -> "SMS"
      [] OTHER -> link.channel

-----------------------------------------------------------------------------
(* Requests in progress.                                                   *)

Contact == [email |-> guest.email, phone |-> guest.phone]

\* A form writes a contact that is not the one it read.
Writes(intent, has) == intent = "set" \/ (intent = "remove" /\ has)
WritesContact(v) == Writes(v.form.email, v.was.email) \/ Writes(v.form.phone, v.was.phone)
Written(intent, had, has) == IF Writes(intent, had) THEN intent = "set" ELSE has

\* The invite is written only if it moves to another channel.
MovedAnyway(v) == v.channel
Moved(v) == IF v.channel = "as it is" THEN link.channel ELSE v.channel

\* submit reads the invite with all it needs, once, and judges the form by it.
ReadForm(t, f) ==
    /\ visit[t] = NoVisit /\ forms < MaxForms
    /\ Accepts(f)
    /\ forms' = forms + 1
    /\ visit' = [visit EXCEPT ![t] =
           [kind |-> "form", id |-> forms + 1, form |-> f, was |-> Contact, via |-> link.channel,
            channel |-> IF Rerouted(f) = link.channel THEN "as it is" ELSE Rerouted(f),
            edit |-> link.used, old |-> party]]
    /\ current' = current \cup {t}
    /\ UNCHANGED <<guest, answerVars, askedVars, texts, historyVars>>

\* The answer takes the place of the one that is there when an edit commits,
\* and of the plus-ones it had read; a first answer finds no row of its own
\* days and questions, or the unique indexes refuse it.
SaveForm(t) ==
    LET v == visit[t]
        f == v.form
        days == IF f.attending THEN f.days ELSE {}
        said == {q \in Asked : f.answers[q] # Unanswered}
    IN
    /\ v.kind = "form"
    /\ v.edit \/ (days \cap attended = {} /\ \A q \in said : reply[q] = Unanswered)
    /\ attended' = days \cup (IF v.edit THEN {} ELSE attended)
    /\ reply' = [q \in Asked |-> IF q \in said \/ v.edit THEN f.answers[q] ELSE reply[q]]
    /\ party' = (IF v.edit THEN party \ v.old ELSE party)
                  \cup (IF f.attending THEN {v.id} \X (1..f.plus) ELSE {})
    /\ guest' = [guest EXCEPT !.email = Written(f.email, v.was.email, @),
                              !.phone = Written(f.phone, v.was.phone, @), !.named = @ \/ f.name]
    /\ link' = [channel |-> Moved(v),
                status |-> IF f.attending THEN "ACCEPTED" ELSE "DECLINED", used |-> TRUE]
    /\ overtaken' = (overtaken \/ (WritesContact(v) /\ <<Contact, link.channel>> # <<v.was, v.via>>))
    /\ reworked' = (t \notin current)
    /\ current' = {}
    /\ visit' = [visit EXCEPT ![t] = NoVisit]
    /\ UNCHANGED <<askedVars, texts, forms, moved>>

\* A unique index, a deadlock or the time limit ends it: nothing is written.
VisitFails(t) ==
    /\ visit[t] # NoVisit
    /\ visit' = [visit EXCEPT ![t] = NoVisit]
    /\ current' = current \ {t}
    /\ UNCHANGED <<guest, answerVars, askedVars, texts, forms, historyVars>>

-----------------------------------------------------------------------------
(* The organiser.                                                          *)

\* guestService.update reads the guest and judges the contact a change leaves.
EditRead(t, email, phone) ==
    LET left == [email |-> Resolved(guest.email, email), phone |-> Resolved(guest.phone, phone)] IN
    /\ visit[t] = NoVisit /\ {email, phone} # {"keep"}
    /\ left.email \/ (texts /\ left.phone)
    /\ visit' = [visit EXCEPT ![t] = [kind |-> "edit", email |-> email, phone |-> phone, was |-> Contact]]
    /\ UNCHANGED <<guest, answerVars, askedVars, texts, forms, current, historyVars>>

\* Only what was sent is written; the invite is left as it is.
EditCommit(t) ==
    LET v == visit[t] IN
    /\ v.kind = "edit"
    /\ guest' = [guest EXCEPT !.email = Resolved(@, v.email), !.phone = Resolved(@, v.phone)]
    /\ moved' = TRUE
    /\ overtaken' = (overtaken \/ Contact # v.was)
    /\ visit' = [visit EXCEPT ![t] = NoVisit]
    /\ UNCHANGED <<answerVars, askedVars, texts, forms, current, reworked>>

\* More is asked from now on, or less allowed.
Reworks(more) ==
    /\ reworked' = (reworked \/ more)
    /\ current' = IF more THEN {} ELSE current

\* The same update, of the name and the allowance: neither is ever refused.
SetGuest(named, allowed) ==
    /\ guest' = [guest EXCEPT !.named = named, !.allowed = allowed]
    /\ Reworks((guest.named /\ ~named) \/ allowed < guest.allowed)
    /\ UNCHANGED <<answerVars, askedVars, texts, forms, visit, overtaken, moved>>

\* inviteRepository.update: any channel and any status are taken.
SetInvite(channel, status) ==
    /\ link' = [link EXCEPT !.channel = channel, !.status = status]
    /\ moved' = (moved \/ channel # link.channel)
    /\ Reworks(status # link.status)
    /\ UNCHANGED <<guest, attended, reply, party, askedVars, texts, forms, visit, overtaken>>

\* A day is archived for good; the attendance of it stays.
ArchiveDay(d) ==
    /\ running' = running \ {d}
    /\ UNCHANGED <<guest, answerVars, admits, question, texts, forms, visit, current, historyVars>>

\* A question is added, or its type, its choices or its being required changes.
SetQuestion(q, required, takes) ==
    /\ question[q].st # "archived"
    /\ question' = [question EXCEPT ![q] = [st |-> "asked", required |-> required, takes |-> takes]]
    /\ Reworks((required /\ ~question[q].required) \/ ~(question[q].takes \subseteq takes))
    /\ UNCHANGED <<guest, answerVars, admits, running, texts, forms, visit, overtaken, moved>>

ArchiveQuestion(q) ==
    /\ question[q].st = "asked"
    /\ question' = [question EXCEPT ![q].st = "archived"]
    /\ UNCHANGED <<guest, answerVars, admits, running, texts, forms, visit, current, historyVars>>

\* The event is archived, over or cancelled, the deadline passes or is put off,
\* the invite expires or not.
SetDoors ==
    /\ admits' = ~admits
    /\ UNCHANGED <<guest, answerVars, running, question, texts, forms, visit, current, historyVars>>

-----------------------------------------------------------------------------

\* The organiser gives a guest one contact, and the channel is the contact's;
\* a guest with a phone alone may be from before the texts were off.
PageInit ==
    /\ \E mail, named \in BOOLEAN, allowed \in 0..MaxParty :
          /\ guest = [email |-> mail, phone |-> ~mail, named |-> named, allowed |-> allowed]
          /\ link = [channel |-> IF mail THEN "EMAIL" ELSE "SMS", status |-> "PENDING", used |-> FALSE]
    /\ admits = TRUE /\ texts \in BOOLEAN
    /\ running = Offered
    /\ question = [q \in Asked |-> [st |-> "none", required |-> FALSE, takes |-> Words]]
    /\ attended = {}
    /\ reply = [q \in Asked |-> Unanswered]
    /\ party = {} /\ forms = 0
    /\ visit = [t \in Tabs |-> NoVisit] /\ current = {}
    /\ overtaken = FALSE /\ moved = FALSE /\ reworked = FALSE

PageNext ==
    \/ \E t \in Tabs : SaveForm(t) \/ VisitFails(t) \/ EditCommit(t)
    \/ \E t \in Tabs, f \in Filled : ReadForm(t, f)
    \/ \E t \in Tabs, email, phone \in Intents : EditRead(t, email, phone)
    \/ \E named \in BOOLEAN, allowed \in 0..MaxParty : SetGuest(named, allowed)
    \/ \E c \in Channels : SetInvite(c, link.status)
    \/ \E s \in {"PENDING", "ACCEPTED", "DECLINED"} : SetInvite(link.channel, s)
    \/ \E d \in Offered : ArchiveDay(d)
    \/ \E q \in Asked, required \in BOOLEAN, takes \in SUBSET Words : SetQuestion(q, required, takes)
    \/ \E q \in Asked : ArchiveQuestion(q)
    \/ SetDoors

PageSpec == PageInit /\ [][PageNext]_pageVars

-----------------------------------------------------------------------------
(* Properties.                                                             *)

\* The type of every variable.
PageTypeOK ==
    /\ guest \in [email : BOOLEAN, phone : BOOLEAN, named : BOOLEAN, allowed : 0..MaxParty]
    /\ link \in [channel : Channels, status : {"PENDING", "ACCEPTED", "DECLINED"}, used : BOOLEAN]
    /\ admits \in BOOLEAN /\ texts \in BOOLEAN
    /\ running \subseteq Offered /\ attended \subseteq Offered
    /\ question \in [Asked -> [st : {"none", "asked", "archived"}, required : BOOLEAN, takes : SUBSET Words]]
    /\ reply \in [Asked -> Words \cup {Unanswered}]
    /\ party \subseteq (1..MaxForms) \X (1..MaxParty)
    /\ forms \in 0..MaxForms
    /\ \A t \in Tabs : visit[t].kind \in {"none", "form", "edit"}
    /\ current \subseteq {t \in Tabs : visit[t].kind = "form"}
    /\ overtaken \in BOOLEAN /\ moved \in BOOLEAN /\ reworked \in BOOLEAN

\* contactFor: the contact the next invitation or reminder is sent to is there.
HasContact == IF link.channel = "EMAIL" THEN guest.email ELSE guest.phone

\* "A guest can never be left unreachable" (rsvp.service.ts:537): whatever
\* forms and edits of theirs are saved, in whatever order, a guest keeps an
\* email or a phone, and the one their invite is sent to, unless one was saved
\* over a contact or a channel it had not read (a contact that came back after
\* the invite moved is not the one that was read); an organiser's change of the
\* contact does not move the invite, and its channel is set whatever the contact.
StillReachable ==
    overtaken \/ ((guest.email \/ guest.phone) /\ (moved \/ HasContact))

\* A guest who has answered gave an answer to a question that is archived now.
Orphaned == \E q \in Asked \ Shown : reply[q] # Unanswered

\* The page of a guest who has answered can be sent back with the questions it
\* shows, however days and questions were archived and forms were saved
\* meanwhile, as long as no more is asked and no less allowed than when the
\* answer was read, and no two crossed; with all that validate fills in, it is
\* refused for the answer to an archived question (rsvp.service.ts:398, 801),
\* and for nothing else.
ResendsAsShown ==
    admits /\ link.used /\ ~reworked /\ ~overtaken =>
        /\ Accepts(PrefilledAsked)
        /\ Accepts(Prefilled) <=> ~Orphaned
=============================================================================
