------------------------------ MODULE Feedback ------------------------------
(***************************************************************************)
(* What happens around one event's feedback (feedback.service.ts,          *)
(* feedback-admin.service.ts, feedback-request.service.ts,                 *)
(* consent.service.ts): its organisers are asked for it once, and give     *)
(* permissions with it; a photo of the album may be shown publicly if its  *)
(* guest and the organisers both agree.                                    *)
(*                                                                         *)
(* Permissions are an append-only log; what is granted is the last record  *)
(* of a subject.  Saves of the feedback hold the event's row; a guest's    *)
(* request reads what is granted and appends, holding nothing.  The event  *)
(* is one that has taken place, its album live.                            *)
(***************************************************************************)
EXTENDS Naturals, Sequences, FiniteSets, SequencesExt

CONSTANTS
    Pictures,     \* photos guests uploaded to the event's folder
    Requests,     \* requests of guests about their photos, at once
    Organisers,   \* organisers saving the feedback at once
    Servers,      \* processes that sweep
    MaxRecords    \* records there may come to be

ASSUME FeedbackAssumption == MaxRecords \in Nat /\ IsFiniteSet(Pictures) /\ "event" \notin Pictures

VARIABLES
    picture,    \* each photo's row: "none", "waiting", "approved" or "hidden"
    consents,   \* ConsentRecord rows, in the order of seq
    asking,     \* what each guest's request is about to record
    told,       \* history: what each photo's guest was told last
    crossed,    \* history: photos two requests about which overlapped
    given,      \* the EventFeedback row exists
    editor,     \* what each organiser's save is doing
    requested,  \* the FeedbackRequestClaim row exists
    asker,      \* what each server's sweep is doing
    asked       \* history: how often the organisers were asked

feedbackVars == <<picture, consents, asking, told, crossed, given, editor, requested, asker, asked>>

Granted == "GRANTED"
Withdrawn == "WITHDRAWN"
EventWide == "event"    \* the subject of the permissions that are about no photo

ConsentRecord(by, about, yes) == [by |-> by, about |-> about, action |-> IF yes THEN Granted ELSE Withdrawn]

\* A fold in which a permission once given stays given.
EverGranted(log, by, about) == \E n \in DOMAIN log : log[n] = ConsentRecord(by, about, TRUE)

\* foldConsentStates: the last record about a subject decides.
IsGranted(log, by, about) ==
    \E n \in DOMAIN log :
        /\ log[n] = ConsentRecord(by, about, TRUE)
        /\ \A k \in (n + 1)..Len(log) : ~(log[k].by = by /\ log[k].about = about)

Selected(log) == {p \in Pictures : IsGranted(log, "organiser", p)}
IsApproved(p) == picture[p] = "approved"
Eligible(log) == {p \in Pictures : IsApproved(p) /\ IsGranted(log, "guest", p)}

\* What the super admin is given to use; the list only once there is feedback.
Shareable == IF given THEN Eligible(consents) \cap Selected(consents) ELSE {}

Request(step, about, want, was) == [step |-> step, about |-> about, want |-> want, was |-> was]
NoRequest == Request("idle", EventWide, FALSE, FALSE)
Edit(step, log) == [step |-> step, log |-> log]
NoEdit == Edit("idle", <<>>)

FeedbackInit ==
    /\ picture = [p \in Pictures |-> "none"] /\ consents = <<>>
    /\ asking = [r \in Requests |-> NoRequest]
    /\ told = [p \in Pictures |-> FALSE] /\ crossed = {}
    /\ given = FALSE /\ editor = [o \in Organisers |-> NoEdit]
    /\ requested = FALSE /\ asker = [w \in Servers |-> "idle"] /\ asked = 0

albumSide == <<picture, asking, told, crossed>>
organiserSide == <<given, editor>>
sweepSide == <<requested, asker, asked>>

------------------------------------------------------------------------------
\* The guests' photos, and what they allow.

\* A new photo, its permission in the same transaction.
AddPicture(p, share) ==
    /\ picture[p] = "none" /\ (share => Len(consents) < MaxRecords)
    /\ picture' = [picture EXCEPT ![p] = "waiting"]
    /\ consents' = IF share THEN Append(consents, ConsentRecord("guest", p, TRUE)) ELSE consents
    /\ told' = [told EXCEPT ![p] = share]
    /\ UNCHANGED <<asking, crossed, organiserSide, sweepSide>>

\* Approved; rejected, archived or the album archived; and back.
CuratePicture(p) ==
    /\ picture[p] # "none"
    /\ picture' = [picture EXCEPT ![p] = IF @ = "approved" THEN "hidden" ELSE "approved"]
    /\ UNCHANGED <<consents, asking, told, crossed, organiserSide, sweepSide>>

SharingRead(r, p, want) ==
    /\ asking[r] = NoRequest /\ picture[p] # "none"
    /\ asking' = [asking EXCEPT ![r] = Request("write", p, want, IsGranted(consents, "guest", p))]
    /\ crossed' = IF \E q \in Requests : asking[q].about = p THEN crossed \cup {p} ELSE crossed
    /\ UNCHANGED <<picture, told, consents, organiserSide, sweepSide>>

\* Recorded if it is a change of what was read; answered in either case.
SharingWrite(r) ==
    LET q == asking[r]
    IN  /\ q # NoRequest
        /\ q.want # q.was => Len(consents) < MaxRecords
        /\ consents' = IF q.want # q.was THEN Append(consents, ConsentRecord("guest", q.about, q.want)) ELSE consents
        /\ told' = [told EXCEPT ![q.about] = q.want]
        /\ asking' = [asking EXCEPT ![r] = NoRequest]
        /\ UNCHANGED <<picture, crossed, organiserSide, sweepSide>>

------------------------------------------------------------------------------
\* The organisers' feedback.

\* withEventFeedbackLock, and the read of what is granted.
FeedbackRead(o) ==
    /\ editor[o] = NoEdit /\ \A x \in Organisers : editor[x] = NoEdit
    /\ editor' = [editor EXCEPT ![o] = Edit("write", consents)]
    /\ UNCHANGED <<given, albumSide, consents, sweepSide>>

\* A record for each subject whose permission is to be another than was read.
Changes(o, permission, photos) ==
    LET log == editor[o].log
    IN  {ConsentRecord("organiser", EventWide, y) : y \in permission \ {IsGranted(log, "organiser", EventWide)}}
        \cup {ConsentRecord("organiser", p, TRUE) : p \in photos \ Selected(log)}
        \cup {ConsentRecord("organiser", p, FALSE) : p \in Selected(log) \ photos}

\* The rest of the transaction.  The photos are read now: one that is added
\* must be eligible, by the permissions read before.
SaveFeedback(o, permission, photos) ==
    LET log == editor[o].log
        changes == Changes(o, permission, photos)
    IN  /\ editor[o].step = "write"
        /\ photos \ Selected(log) \subseteq Eligible(log)
        /\ Len(consents) + Cardinality(changes) <= MaxRecords
        /\ consents' = consents \o SetToSeq(changes)
        /\ given' = TRUE /\ editor' = [editor EXCEPT ![o] = NoEdit]
        /\ UNCHANGED <<albumSide, sweepSide>>

\* No score yet, a photo that is not eligible, a logo that is not acceptable.
SaveRefused(o) ==
    /\ editor[o] # NoEdit /\ editor' = [editor EXCEPT ![o] = NoEdit]
    /\ UNCHANGED <<given, albumSide, consents, sweepSide>>

------------------------------------------------------------------------------
\* The request for feedback.

RequestList(w) ==
    /\ asker[w] = "idle" /\ ~given /\ ~requested
    /\ asker' = [asker EXCEPT ![w] = "listed"]
    /\ UNCHANGED <<requested, asked, albumSide, consents, organiserSide>>

\* The claim is unique; the emails follow it.  Feedback given since the list
\* was read is not looked for.
RequestClaim(w) ==
    /\ asker[w] = "listed"
    /\ asker' = [asker EXCEPT ![w] = IF requested THEN "idle" ELSE "sending"]
    /\ requested' = TRUE
    /\ UNCHANGED <<asked, albumSide, consents, organiserSide>>

\* Sent, or the server stopped first.
RequestSend(w) ==
    /\ asker[w] = "sending" /\ asker' = [asker EXCEPT ![w] = "idle"]
    /\ asked' \in {asked, asked + 1}
    /\ UNCHANGED <<requested, albumSide, consents, organiserSide>>

FeedbackNext ==
    \/ \E p \in Pictures : CuratePicture(p) \/ \E share \in BOOLEAN : AddPicture(p, share)
    \/ \E r \in Requests :
          SharingWrite(r) \/ \E p \in Pictures, want \in BOOLEAN : SharingRead(r, p, want)
    \/ \E o \in Organisers :
          \/ FeedbackRead(o) \/ SaveRefused(o)
          \/ \E photos \in SUBSET Pictures, permission \in {{}, {TRUE}, {FALSE}} :
                SaveFeedback(o, permission, photos)
    \/ \E w \in Servers : RequestList(w) \/ RequestClaim(w) \/ RequestSend(w)

FeedbackSpec == FeedbackInit /\ [][FeedbackNext]_feedbackVars
------------------------------------------------------------------------------
FeedbackTypeOK ==
    /\ picture \in [Pictures -> {"none", "waiting", "approved", "hidden"}]
    /\ Len(consents) <= MaxRecords
    /\ \A n \in DOMAIN consents : consents[n].action \in {Granted, Withdrawn}
    /\ crossed \subseteq Pictures /\ told \in [Pictures -> BOOLEAN]
    /\ \A r \in Requests : asking[r].step \in {"idle", "write"}
    /\ \A o \in Organisers : editor[o].step \in {"idle", "write"}
    /\ asker \in [Servers -> {"idle", "listed", "sending"}]
    /\ given \in BOOLEAN /\ requested \in BOOLEAN /\ asked \in Nat

\* A photo is given out to be shown publicly only if the last thing its guest
\* was told is that it is shared, whatever the organisers had selected before;
\* unless two requests about it overlapped, when the one that changed nothing
\* may be answered last.
SharedByBoth == \A p \in Shareable : told[p] \/ p \in crossed

\* Organisers saving at once record no change of a permission twice, and the
\* sweeps of all servers ask for feedback at most once, ever.
OneChangeOneRecord ==
    /\ \A n, k \in DOMAIN consents :
          (/\ n < k /\ consents[n].by = "organiser" /\ consents[n] = consents[k]) =>
              \E m \in n..k : /\ consents[m].by = "organiser" /\ consents[m].about = consents[n].about
                              /\ consents[m].action # consents[n].action
    /\ asked <= 1

\* What is public is what both sides last agreed to, and the record of how they
\* came to it tells each change once.
ConsentKept == SharedByBoth /\ OneChangeOneRecord
=============================================================================
