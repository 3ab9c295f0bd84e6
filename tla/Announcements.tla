--------------------------- MODULE Announcements ----------------------------
(***************************************************************************)
(* What the guests of one published event are told by email: announcements *)
(* and, once, that it is cancelled (announcement.service.ts,               *)
(* announcement-audience.util.ts), while invitations are still being sent. *)
(* Each guest has one invite, and audiences of one day are left out.       *)
(***************************************************************************)
EXTENDS Naturals, FiniteSets

CONSTANTS
    Invitees,       \* the guests
    Reachable,      \* those with an email address
    Speakers,       \* requests at once
    PostsPerDay     \* ANNOUNCEMENTS_PER_EVENT_PER_DAY

ASSUME AnnouncementsAssumption == Reachable \subseteq Invitees /\ PostsPerDay \in Nat

VARIABLES
    standing,   \* Event.status
    guest,      \* Guest rows, each with its invite
    posts,      \* announcements of the last 24 hours
    speech,     \* what each request is doing
    heard,      \* history: guests told that the event is cancelled
    listed,     \* history: those the organiser was told were not
    strays,     \* history: guests who came under the notice after it was addressed
    underway,   \* history: guests with a message on its way when it was cancelled
    afterNotice \* history: guests sent a message once they had the notice

announcementVars == <<standing, guest, posts, speech, heard, listed, strays, underway, afterNotice>>

Audiences == {"EVERYONE", "ATTENDING", "NOT_REPLIED", "NOT_ATTENDING"}
Answers == {"PENDING", "ACCEPTED", "DECLINED"}

Speech(op, step, to) == [op |-> op, step |-> step, to |-> to]
Silent == Speech("none", "idle", {})
Says(s, j) == speech' = [speech EXCEPT ![s] = j]
Refused(s) == Says(s, Silent)

AnnouncementsInit ==
    /\ standing = "PUBLISHED" /\ posts = 0 /\ heard = {} /\ listed = {} /\ strays = {}
    /\ underway = {} /\ afterNotice = {}
    /\ guest \in [Invitees -> [delivered : {FALSE}, live : {TRUE}, answer : {"PENDING"}]]
    /\ speech = [s \in Speakers |-> Silent]

------------------------------------------------------------------------------
\* Who is in an audience.

InAudience(answer, audience) ==
    CASE audience = "EVERYONE" -> answer # "DECLINED"
      [] audience = "ATTENDING" -> answer = "ACCEPTED"
      [] audience = "NOT_REPLIED" -> answer = "PENDING"
      [] audience = "NOT_ATTENDING" -> answer = "DECLINED"

\* toAudienceCandidates and selectAudience, with or without an address.
Selection(audience) ==
    {g \in Invitees : guest[g].live /\ guest[g].delivered /\ InAudience(guest[g].answer, audience)}

------------------------------------------------------------------------------
\* The guests, and invitations on their way (invite-dispatch.service.ts).

Answer(g, a) ==
    /\ standing = "PUBLISHED" /\ guest[g].live /\ guest[g].delivered
    /\ guest' = [guest EXCEPT ![g].answer = a]
    /\ UNCHANGED <<standing, posts, speech, heard, listed, strays, underway, afterNotice>>

NoticeAddressed == standing = "CANCELLED" /\ \A s \in Speakers : speech[s].step # "audience"
Strays(g) == strays' = IF NoticeAddressed THEN strays \cup {g} ELSE strays

HideOrShow(g) ==
    /\ guest' = [guest EXCEPT ![g].live = ~@] /\ Strays(g)
    /\ UNCHANGED <<standing, posts, speech, heard, listed, underway, afterNotice>>

Invite(s, g) ==
    /\ speech[s] = Silent /\ standing = "PUBLISHED" /\ guest[g].live
    /\ Says(s, Speech("INVITE", "mark", {g}))
    /\ UNCHANGED <<standing, guest, posts, heard, listed, strays, underway, afterNotice>>

\* Sent, with nothing read again, and then marked.
Invited(s, g) ==
    /\ speech[s] = Speech("INVITE", "mark", {g})
    /\ guest' = [guest EXCEPT ![g].delivered = TRUE] /\ Strays(g) /\ Says(s, Silent)
    /\ afterNotice' = afterNotice \cup ({g} \cap heard)
    /\ UNCHANGED <<standing, posts, heard, listed, underway>>

------------------------------------------------------------------------------
\* send: an audience is read; then, under the event's lock, its status again
\* and the day's announcements; then the emails go.

DayOver ==
    /\ posts > 0 /\ posts' = 0
    /\ UNCHANGED <<standing, guest, speech, heard, listed, strays, underway, afterNotice>>

AnnounceRead(s, a) ==
    /\ speech[s] = Silent /\ standing # "CANCELLED" /\ Selection(a) \cap Reachable # {}
    /\ Says(s, Speech("ANNOUNCE", "claim", Selection(a) \cap Reachable))
    /\ UNCHANGED <<standing, guest, posts, heard, listed, strays, underway, afterNotice>>

AnnounceClaim(s) ==
    /\ speech[s].step = "claim"
    /\ IF standing # "CANCELLED" /\ posts < PostsPerDay
       THEN posts' = posts + 1 /\ Says(s, [speech[s] EXCEPT !.step = "deliver"])
       ELSE UNCHANGED posts /\ Refused(s)
    /\ UNCHANGED <<standing, guest, heard, listed, strays, underway, afterNotice>>

\* Nothing is read again.  Which of the emails went, and their rows, change
\* nothing here.
AnnounceDeliver(s) ==
    /\ speech[s].step = "deliver" /\ Says(s, Silent)
    /\ afterNotice' = afterNotice \cup (speech[s].to \cap heard)
    /\ UNCHANGED <<standing, guest, posts, heard, listed, strays, underway>>

------------------------------------------------------------------------------
\* cancelEvent.

CancelEvent(s) ==
    /\ speech[s] = Silent /\ standing = "PUBLISHED"
    /\ standing' = "CANCELLED" /\ Says(s, Speech("CANCEL", "audience", {}))
    /\ underway' = UNION {speech[t].to : t \in {u \in Speakers : speech[u].step \in {"mark", "deliver"}}}
    /\ UNCHANGED <<guest, posts, heard, listed, strays, afterNotice>>

\* Unread, the answer says to use the guest list: all of them.
NoticeAudience(s) ==
    /\ speech[s].step = "audience"
    /\ \/ Says(s, Speech("CANCEL", "notice", Selection("EVERYONE"))) /\ UNCHANGED listed
       \/ Refused(s) /\ listed' = Invitees
    /\ UNCHANGED <<standing, guest, posts, heard, strays, underway, afterNotice>>

\* notifyCancellation: those of whom the answer says so are told, and the others
\* listed, whom the notice may have reached with the answer lost; all are listed
\* if it could not be recorded or sent at all.
Notify(s, went, ok) ==
    LET to == speech[s].to
    IN  /\ speech[s].step = "notice" /\ went \subseteq to \cap Reachable /\ ok \subseteq went
        /\ heard' = heard \cup went /\ listed' = listed \cup (to \ ok)
        /\ Says(s, Silent)
        /\ UNCHANGED <<standing, guest, posts, strays, underway, afterNotice>>

\* A request that dies: no one was told, and nobody knows.
Hush(s) ==
    /\ speech[s] # Silent /\ Says(s, Silent)
    /\ strays' = IF speech[s].op = "CANCEL" THEN Invitees ELSE strays
    /\ UNCHANGED <<standing, guest, posts, heard, listed, underway, afterNotice>>

AnnouncementsNext ==
    \/ DayOver
    \/ \E g \in Invitees : HideOrShow(g) \/ \E a \in {"ACCEPTED", "DECLINED"} : Answer(g, a)
    \/ \E s \in Speakers :
          \/ AnnounceClaim(s) \/ AnnounceDeliver(s) \/ CancelEvent(s) \/ NoticeAudience(s) \/ Hush(s)
          \/ \E g \in Invitees : Invite(s, g) \/ Invited(s, g)
          \/ \E a \in Audiences : AnnounceRead(s, a)
          \/ \E went \in SUBSET Invitees : \E ok \in SUBSET went : Notify(s, went, ok)

AnnouncementsSpec == AnnouncementsInit /\ [][AnnouncementsNext]_announcementVars

------------------------------------------------------------------------------
AnnouncementsTypeOK ==
    /\ standing \in {"PUBLISHED", "CANCELLED"}
    /\ guest \in [Invitees -> [delivered : BOOLEAN, live : BOOLEAN, answer : Answers]]
    /\ posts \in 0..PostsPerDay
    /\ speech \in [Speakers -> [op : {"none", "INVITE", "ANNOUNCE", "CANCEL"},
                                step : {"idle", "mark", "claim", "deliver", "audience", "notice"},
                                to : SUBSET Invitees]]
    /\ heard \subseteq Invitees /\ listed \subseteq Invitees /\ strays \subseteq Invitees
    /\ underway \subseteq Invitees /\ afterNotice \subseteq Invitees

\* When a cancellation is over, nobody who holds an invitation and did not
\* decline it is forgotten: they were told, or the organiser was told they were
\* not.  Out of its reach are those whose invitation went out, or who were
\* restored, after the notice was addressed, and a server that died meanwhile.
\* Nobody is told who was not called off: the event is cancelled for good.  And
\* the notice is the last that those who have it are sent, but for the messages
\* that were past their last look at the event when it was cancelled.
CancelledLast ==
    /\ heard \cup listed # {} => standing = "CANCELLED"
    /\ standing = "CANCELLED" /\ (\A s \in Speakers : speech[s].op # "CANCEL") =>
          Selection("EVERYONE") \subseteq heard \cup listed \cup strays
    /\ afterNotice \subseteq underway
=============================================================================
