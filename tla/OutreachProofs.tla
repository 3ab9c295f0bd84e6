--------------------------- MODULE OutreachProofs ---------------------------
(***************************************************************************)
(* Theorems about Feedback and MediaRetention, for every number of photos, *)
(* requests, organisers, servers and archivings.                           *)
(***************************************************************************)
EXTENDS Feedback, MediaRetention, Integers, FiniteSetTheorems, SequenceTheorems, TLAPS

-----------------------------------------------------------------------------
(* Feedback: the log of permissions.                                       *)

Subjects == Pictures \cup {EventWide}
Records == [by : {"guest", "organiser"}, about : Subjects, action : {Granted, Withdrawn}]

\* new is log with more records after it.
Extended(log, new) == Len(log) <= Len(new) /\ \A n \in 1..Len(log) : new[n] = log[n]

\* A record by somebody about something.
IsOf(rec, by, about) == rec.by = by /\ rec.about = about

LEMMA RecordsMade ==
    ASSUME NEW by \in {"guest", "organiser"}, NEW about \in Subjects
    PROVE  /\ \A yes \in BOOLEAN :
                 LET rec == ConsentRecord(by, about, yes)
                 IN  rec \in Records /\ IsOf(rec, by, about) /\ (rec.action = Granted <=> yes)
           /\ \A rec \in Records :
                 IsOf(rec, by, about) =>
                     (rec = ConsentRecord(by, about, TRUE) <=> rec.action = Granted)
BY DEF ConsentRecord, Records, IsOf, Granted, Withdrawn

\* What is granted does not change by records about something else.
LEMMA GrantStays ==
    ASSUME NEW log \in Seq(Records), NEW new \in Seq(Records), Extended(log, new), NEW by, NEW about,
           \A n \in (Len(log) + 1)..Len(new) : ~IsOf(new[n], by, about)
    PROVE  IsGranted(new, by, about) <=> IsGranted(log, by, about)
<1>0. Len(log) \in Nat /\ Len(new) \in Nat /\ DOMAIN log = 1..Len(log) /\ DOMAIN new = 1..Len(new)
  OBVIOUS
<1> DEFINE rec == ConsentRecord(by, about, TRUE)
<1>1. rec.by = by /\ rec.about = about
  BY DEF ConsentRecord
<1> HIDE DEF rec
<1>2. ASSUME NEW n \in DOMAIN new, new[n] = rec, \A k \in (n + 1)..Len(new) : ~IsOf(new[k], by, about)
      PROVE  \E m \in DOMAIN log : log[m] = rec /\ \A k \in (m + 1)..Len(log) : ~IsOf(log[k], by, about)
  <2>1. n \in 1..Len(log)
    BY <1>0, <1>1, <1>2 DEF IsOf
  <2> QED
    BY <1>0, <1>2, <2>1 DEF Extended
<1>3. ASSUME NEW n \in DOMAIN log, log[n] = rec, \A k \in (n + 1)..Len(log) : ~IsOf(log[k], by, about)
      PROVE  \E m \in DOMAIN new : new[m] = rec /\ \A k \in (m + 1)..Len(new) : ~IsOf(new[k], by, about)
  <2>1. n \in DOMAIN new /\ new[n] = rec
    BY <1>0, <1>3 DEF Extended
  <2>2. ASSUME NEW k \in (n + 1)..Len(new) PROVE ~IsOf(new[k], by, about)
    BY <1>0, <1>3 DEF Extended
  <2> QED
    BY <2>1, <2>2
<1> QED
  BY <1>2, <1>3 DEF IsGranted, IsOf, rec

\* The last record about something says whether it is granted.
LEMMA GrantSet ==
    ASSUME NEW new \in Seq(Records), NEW by \in {"guest", "organiser"}, NEW about \in Subjects,
           NEW n \in 1..Len(new), IsOf(new[n], by, about),
           \A k \in (n + 1)..Len(new) : ~IsOf(new[k], by, about)
    PROVE  IsGranted(new, by, about) <=> new[n].action = Granted
<1>0. Len(new) \in Nat /\ DOMAIN new = 1..Len(new) /\ \A k \in 1..Len(new) : new[k] \in Records
  OBVIOUS
<1> DEFINE rec == ConsentRecord(by, about, TRUE)
<1>1. IsOf(rec, by, about) /\ rec.action = Granted /\ (new[n] = rec <=> new[n].action = Granted)
  BY <1>0, RecordsMade
<1> HIDE DEF rec
<1>2. ASSUME NEW m \in DOMAIN new, new[m] = rec, \A k \in (m + 1)..Len(new) : ~IsOf(new[k], by, about)
      PROVE  m = n
  <2>1. ~(m < n) /\ ~(n < m)
    BY <1>0, <1>1, <1>2
  <2> QED
    BY <1>0, <2>1
<1> QED
  BY <1>0, <1>1, <1>2 DEF IsGranted, IsOf, rec

\* One more record, of one subject.
LEMMA OneMore ==
    ASSUME NEW log \in Seq(Records), NEW by \in {"guest", "organiser"}, NEW about \in Subjects,
           NEW yes \in BOOLEAN
    PROVE  LET new == Append(log, ConsentRecord(by, about, yes))
           IN  /\ new \in Seq(Records) /\ Len(new) = Len(log) + 1 /\ Extended(log, new)
               /\ IsOf(new[Len(new)], by, about)
               /\ IsGranted(new, by, about) <=> yes
               /\ \A b, s : ~(b = by /\ s = about) => (IsGranted(new, b, s) <=> IsGranted(log, b, s))
<1> DEFINE rec == ConsentRecord(by, about, yes)
           new == Append(log, rec)
<1>1. rec \in Records /\ IsOf(rec, by, about) /\ (rec.action = Granted <=> yes)
  BY RecordsMade
<1> HIDE DEF rec
<1>2. /\ new \in Seq(Records) /\ Len(new) = Len(log) + 1 /\ new[Len(log) + 1] = rec
      /\ Len(log) \in Nat /\ \A n \in 1..Len(log) : new[n] = log[n]
  BY <1>1
<1> HIDE DEF new
<1>3. Extended(log, new)
  BY <1>2 DEF Extended
<1>4. IsGranted(new, by, about) <=> yes
  <2>1. Len(new) \in 1..Len(new) /\ \A k \in (Len(new) + 1)..Len(new) : ~IsOf(new[k], by, about)
    BY <1>2
  <2>2. IsOf(new[Len(new)], by, about) /\ (new[Len(new)].action = Granted <=> yes)
    BY <1>1, <1>2
  <2> QED
    BY <1>2, <2>1, <2>2, GrantSet
<1>5. ASSUME NEW b, NEW s, ~(b = by /\ s = about)
      PROVE  IsGranted(new, b, s) <=> IsGranted(log, b, s)
  <2>1. \A n \in (Len(log) + 1)..Len(new) : ~IsOf(new[n], b, s)
    BY <1>1, <1>2, <1>5 DEF IsOf
  <2> QED
    BY <1>2, <1>3, <2>1, GrantStays
<1> QED
  BY <1>1, <1>2, <1>3, <1>4, <1>5 DEF new, rec

\* A set of records in some order, each once.
LEMMA InSomeOrder ==
    ASSUME NEW S \in SUBSET Records, IsFiniteSet(S)
    PROVE  LET q == SetToSeq(S)
           IN  /\ q \in Seq(S) /\ q \in Seq(Records) /\ Len(q) = Cardinality(S) /\ Cardinality(S) \in Nat
               /\ \A i, j \in 1..Len(q) : q[i] = q[j] => i = j
<1> DEFINE q == SetToSeq(S)
           c == Cardinality(S)
<1>1. c \in Nat /\ ExistsBijection(1..c, S)
  BY FS_CardinalityType
<1>2. \E f \in [1..c -> S] : IsInjective(f)
  BY <1>1 DEF ExistsBijection, Bijection, Injection
<1>3. q \in [1..c -> S] /\ IsInjective(q)
  BY <1>2 DEF SetToSeq
<1> HIDE DEF q, c
<1>4. q \in Seq(S) /\ q \in Seq(Records) /\ Len(q) = c
  <2>1. q \in [1..c -> Records]
    BY <1>3
  <2> QED
    BY <1>1, <1>3, <2>1
<1>5. \A i, j \in 1..Len(q) : q[i] = q[j] => i = j
  BY <1>1, <1>3, <1>4 DEF IsInjective
<1> QED
  BY <1>1, <1>4, <1>5 DEF q, c

\* A set of naturals that is not empty has a least element.
LEMMA Smallest ==
    ASSUME NEW S \in SUBSET Nat, S # {}
    PROVE  \E x \in S : \A y \in S : x <= y
<1> DEFINE R == OpToRel(<, Nat)
<1>1. \E x \in S : \A y \in S : <<y, x>> \notin R
  BY NatLessThanWellFounded, WFMin
<1>2. \A x, y \in Nat : <<y, x>> \notin R => x <= y
  BY DEF OpToRel
<1> QED
  BY <1>1, <1>2

\* If there is a record about something there is a last one.
LEMMA LastRecord ==
    ASSUME NEW log \in Seq(Records), NEW by, NEW about, NEW n \in 1..Len(log), IsOf(log[n], by, about)
    PROVE  \E m \in n..Len(log) : /\ IsOf(log[m], by, about)
                                  /\ \A k \in (m + 1)..Len(log) : ~IsOf(log[k], by, about)
<1> DEFINE T == {i \in 0..(Len(log) - n) : IsOf(log[Len(log) - i], by, about)}
<1>0. Len(log) \in Nat /\ n \in Nat /\ n <= Len(log)
  OBVIOUS
<1>1. T \in SUBSET Nat /\ Len(log) - n \in T
  <2>1. Len(log) - n \in 0..(Len(log) - n) /\ Len(log) - (Len(log) - n) = n
    BY <1>0
  <2>2. 0..(Len(log) - n) \subseteq Nat
    BY <1>0
  <2> QED
    BY <2>1, <2>2
<1>2. PICK t \in T : \A u \in T : t <= u
  BY <1>1, Smallest
<1>3. t \in 0..(Len(log) - n) /\ IsOf(log[Len(log) - t], by, about)
  OBVIOUS
<1>4. ASSUME NEW k \in (Len(log) - t + 1)..Len(log), IsOf(log[k], by, about) PROVE FALSE
  <2>1. Len(log) - k \in 0..(Len(log) - n) /\ Len(log) - (Len(log) - k) = k /\ Len(log) - k < t
    BY <1>0, <1>3, <1>4
  <2>2. Len(log) - k \in T
    BY <1>4, <2>1
  <2> QED
    BY <1>0, <1>2, <1>3, <2>1, <2>2
<1>5. Len(log) - t \in n..Len(log)
  BY <1>0, <1>3
<1>6. \A k \in ((Len(log) - t) + 1)..Len(log) : ~IsOf(log[k], by, about)
  BY <1>4
<1> HIDE DEF T
<1> QED
  BY <1>3, <1>5, <1>6, Zenon

-----------------------------------------------------------------------------
(* Feedback: types.                                                        *)

RequestRows == [step : {"idle", "write"}, about : Subjects, want : BOOLEAN, was : BOOLEAN]
EditRows == [step : {"idle", "write"}, log : Seq(Records)]

\* A request in progress is about a photo; no guest has a say in a photo that is
\* not there.
PhotosKnown ==
    /\ \A r \in Requests : asking[r] # NoRequest => asking[r].about \in Pictures
    /\ \A p \in Pictures : picture[p] = "none" =>
          /\ \A n \in 1..Len(consents) : ~IsOf(consents[n], "guest", p)
          /\ \A r \in Requests : asking[r].about # p

FeedbackTypes ==
    /\ picture \in [Pictures -> {"none", "waiting", "approved", "hidden"}]
    /\ consents \in Seq(Records) /\ Len(consents) <= MaxRecords
    /\ asking \in [Requests -> RequestRows] /\ editor \in [Organisers -> EditRows]
    /\ told \in [Pictures -> BOOLEAN] /\ crossed \subseteq Pictures
    /\ given \in BOOLEAN /\ requested \in BOOLEAN /\ asked \in Nat
    /\ asker \in [Servers -> {"idle", "listed", "sending"}]
    /\ PhotosKnown

LEMMA FeedbackRowsMade ==
    /\ NoRequest \in RequestRows /\ NoRequest.about = EventWide /\ NoRequest.step = "idle"
    /\ NoEdit \in EditRows /\ NoEdit.step = "idle"
    /\ \A p \in Pictures, want, was \in BOOLEAN :
          LET q == Request("write", p, want, was)
          IN  q \in RequestRows /\ q.about = p /\ q.want = want /\ q.was = was /\ q # NoRequest
    /\ \A log \in Seq(Records) :
          LET e == Edit("write", log)
          IN  e \in EditRows /\ e.log = log /\ e.step = "write"
<1>1. NoRequest \in RequestRows /\ NoRequest.about = EventWide /\ NoRequest.step = "idle"
  BY DEF NoRequest, Request, RequestRows, Subjects
<1>2. NoEdit \in EditRows /\ NoEdit.step = "idle"
  BY DEF NoEdit, Edit, EditRows
<1>3. \A p \in Pictures, want, was \in BOOLEAN :
         LET q == Request("write", p, want, was)
         IN  q \in RequestRows /\ q.about = p /\ q.want = want /\ q.was = was /\ q # NoRequest
  BY <1>1 DEF Request, RequestRows, Subjects
<1>4. \A log \in Seq(Records) :
         LET e == Edit("write", log)
         IN  e \in EditRows /\ e.log = log /\ e.step = "write"
  BY DEF Edit, EditRows
<1> QED
  BY <1>1, <1>2, <1>3, <1>4

\* What a save changes: records of organisers, each the opposite of what was read.
LEMMA ChangesAre ==
    ASSUME FeedbackTypes, NEW o \in Organisers, NEW photos \in SUBSET Pictures,
           NEW permission \in {{}, {TRUE}, {FALSE}}
    PROVE  LET S == Changes(o, permission, photos)
           IN  /\ S \subseteq Records /\ IsFiniteSet(S)
               /\ \A c \in S : /\ c.by = "organiser"
                               /\ c.action = Granted <=> ~IsGranted(editor[o].log, "organiser", c.about)
<1> DEFINE S == Changes(o, permission, photos)
           is(about) == IsGranted(editor[o].log, "organiser", about)
<1>1. ASSUME NEW c \in S
      PROVE  \E s \in Subjects, yes \in BOOLEAN : c = ConsentRecord("organiser", s, yes) /\ (yes <=> ~is(s))
  <2>1. CASE \E y \in permission \ {is(EventWide)} : c = ConsentRecord("organiser", EventWide, y)
    <3>1. PICK y \in permission \ {is(EventWide)} : c = ConsentRecord("organiser", EventWide, y)
      BY <2>1
    <3>2. is(EventWide) \in BOOLEAN
      BY DEF IsGranted
    <3> HIDE DEF is
    <3>3. \A a, b \in BOOLEAN : a # b => (a <=> ~b)
      BY Zenon
    <3>4. y \in BOOLEAN /\ y # is(EventWide) /\ EventWide \in Subjects
      BY DEF Subjects
    <3> QED
      BY <3>1, <3>2, <3>3, <3>4, Zenon
  <2>2. CASE \E p \in photos \ Selected(editor[o].log) : c = ConsentRecord("organiser", p, TRUE)
    BY <2>2 DEF Selected, Subjects
  <2>3. CASE \E p \in Selected(editor[o].log) \ photos : c = ConsentRecord("organiser", p, FALSE)
    BY <2>3 DEF Selected, Subjects
  <2> QED
    BY <2>1, <2>2, <2>3 DEF Changes
<1>2. \A c \in S : /\ c \in Records /\ c.by = "organiser" /\ c.about \in Subjects
                   /\ c.action = Granted <=> ~is(c.about)
  <2> HIDE DEF S, is
  <2> SUFFICES ASSUME NEW c \in S
               PROVE  /\ c \in Records /\ c.by = "organiser" /\ c.about \in Subjects
                      /\ c.action = Granted <=> ~is(c.about)
    OBVIOUS
  <2>1. PICK s \in Subjects, yes \in BOOLEAN : c = ConsentRecord("organiser", s, yes) /\ (yes <=> ~is(s))
    BY <1>1
  <2>2. c \in Records /\ IsOf(c, "organiser", s) /\ (c.action = Granted <=> yes)
    BY <2>1, RecordsMade
  <2> QED
    BY <2>1, <2>2 DEF IsOf
<1>3. IsFiniteSet(S)
  <2> DEFINE f == [c \in S |-> c.about]
  <2>0. IsFiniteSet(Subjects)
    BY FeedbackAssumption, FS_AddElement DEF Subjects
  <2>1. ASSUME NEW c \in S, NEW d \in S, c.about = d.about PROVE c = d
    <3> HIDE DEF S, is
    <3>1. c.action = d.action
      BY <1>2, <2>1 DEF Records
    <3> QED
      BY <1>2, <2>1, <3>1 DEF Records
  <2>2. f \in [S -> Subjects]
    BY <1>2
  <2>3. f \in Injection(S, Subjects)
    BY <2>1, <2>2 DEF Injection, IsInjective
  <2> QED
    BY <2>0, <2>3, FS_Injection
<1> QED
  BY <1>2, <1>3

\* The log grew by records of one guest's photo, or of organisers.
GuestsRecord(p) ==
    /\ consents' \in Seq(Records) /\ Extended(consents, consents')
    /\ \A n \in (Len(consents) + 1)..Len(consents') : IsOf(consents'[n], "guest", p)

OrganisersRecord ==
    /\ consents' \in Seq(Records) /\ Extended(consents, consents')
    /\ \A n \in (Len(consents) + 1)..Len(consents') : consents'[n].by = "organiser"

LEMMA GuestWrites ==
    ASSUME FeedbackTypes, NEW p \in Pictures, NEW yes \in BOOLEAN, NEW adds \in BOOLEAN,
           consents' = IF adds THEN Append(consents, ConsentRecord("guest", p, yes)) ELSE consents,
           adds => Len(consents) < MaxRecords
    PROVE  /\ GuestsRecord(p) /\ Len(consents') <= MaxRecords
           /\ adds => (IsGranted(consents', "guest", p) <=> yes)
           /\ \A b, s : ~(b = "guest" /\ s = p) => (IsGranted(consents', b, s) <=> IsGranted(consents, b, s))
<1>1. consents \in Seq(Records) /\ Len(consents) \in Nat /\ Len(consents) <= MaxRecords /\ MaxRecords \in Nat
  BY FeedbackAssumption DEF FeedbackTypes
<1>2. CASE adds
  <2>1. p \in Subjects /\ "guest" \in {"guest", "organiser"} /\ Len(consents) < MaxRecords
    BY <1>2 DEF Subjects
  <2>2. /\ consents' \in Seq(Records) /\ Len(consents') = Len(consents) + 1 /\ Extended(consents, consents')
        /\ IsOf(consents'[Len(consents')], "guest", p)
        /\ IsGranted(consents', "guest", p) <=> yes
        /\ \A b, s : ~(b = "guest" /\ s = p) => (IsGranted(consents', b, s) <=> IsGranted(consents, b, s))
    BY <1>1, <1>2, <2>1, OneMore
  <2>3. \A n \in (Len(consents) + 1)..Len(consents') : n = Len(consents')
    BY <1>1, <2>2
  <2> QED
    BY <1>1, <1>2, <2>1, <2>2, <2>3 DEF GuestsRecord
<1>3. CASE ~adds
  <2>1. consents' = consents
    BY <1>3
  <2>2. \A n \in (Len(consents) + 1)..Len(consents') : FALSE
    BY <1>1, <2>1
  <2> QED
    BY <1>1, <1>3, <2>1, <2>2 DEF GuestsRecord, Extended
<1> QED
  BY <1>2, <1>3

LEMMA AddIs ==
    ASSUME FeedbackTypes, NEW p \in Pictures, NEW share \in BOOLEAN, AddPicture(p, share)
    PROVE  /\ picture[p] = "none" /\ picture' = [picture EXCEPT ![p] = "waiting"]
           /\ told' = [told EXCEPT ![p] = share]
           /\ UNCHANGED <<asking, crossed, organiserSide, sweepSide>>
           /\ GuestsRecord(p) /\ Len(consents') <= MaxRecords
           /\ share => IsGranted(consents', "guest", p)
           /\ ~share => consents' = consents
           /\ \A b, s : ~(b = "guest" /\ s = p) => (IsGranted(consents', b, s) <=> IsGranted(consents, b, s))
<1>1. /\ picture[p] = "none" /\ picture' = [picture EXCEPT ![p] = "waiting"]
      /\ told' = [told EXCEPT ![p] = share]
      /\ UNCHANGED <<asking, crossed, organiserSide, sweepSide>>
      /\ share => Len(consents) < MaxRecords
      /\ consents' = IF share THEN Append(consents, ConsentRecord("guest", p, TRUE)) ELSE consents
  BY DEF AddPicture
<1>2. TRUE \in BOOLEAN
  OBVIOUS
<1> QED
  BY <1>1, <1>2, GuestWrites

LEMMA WriteIs ==
    ASSUME FeedbackTypes, NEW r \in Requests, SharingWrite(r)
    PROVE  /\ asking[r] # NoRequest /\ asking[r].about \in Pictures
           /\ told' = [told EXCEPT ![asking[r].about] = asking[r].want]
           /\ asking' = [asking EXCEPT ![r] = NoRequest]
           /\ UNCHANGED <<picture, crossed, organiserSide, sweepSide>>
           /\ GuestsRecord(asking[r].about) /\ Len(consents') <= MaxRecords
           /\ asking[r].want # asking[r].was => (IsGranted(consents', "guest", asking[r].about) <=> asking[r].want)
           /\ asking[r].want = asking[r].was => consents' = consents
           /\ \A b, s : ~(b = "guest" /\ s = asking[r].about) =>
                            (IsGranted(consents', b, s) <=> IsGranted(consents, b, s))
<1> DEFINE q == asking[r]
           adds == q.want # q.was
<1>1. /\ q # NoRequest /\ told' = [told EXCEPT ![q.about] = q.want]
      /\ asking' = [asking EXCEPT ![r] = NoRequest]
      /\ UNCHANGED <<picture, crossed, organiserSide, sweepSide>>
      /\ adds => Len(consents) < MaxRecords
      /\ consents' = IF adds THEN Append(consents, ConsentRecord("guest", q.about, q.want)) ELSE consents
  BY DEF SharingWrite
<1>2. q.about \in Pictures /\ q.want \in BOOLEAN /\ q.was \in BOOLEAN
  BY <1>1 DEF FeedbackTypes, PhotosKnown, RequestRows
<1>b. adds \in BOOLEAN
  BY Zenon
<1>3. /\ GuestsRecord(q.about) /\ Len(consents') <= MaxRecords
      /\ adds => (IsGranted(consents', "guest", q.about) <=> q.want)
      /\ \A b, s : ~(b = "guest" /\ s = q.about) => (IsGranted(consents', b, s) <=> IsGranted(consents, b, s))
  <2> HIDE DEF q, adds
  <2> QED
    BY <1>1, <1>2, <1>b, GuestWrites
<1> QED
  BY <1>1, <1>2, <1>3

LEMMA OrganisersSaveIs ==
    ASSUME FeedbackTypes, NEW o \in Organisers, NEW photos \in SUBSET Pictures,
           NEW permission \in {{}, {TRUE}, {FALSE}}, SaveFeedback(o, permission, photos)
    PROVE  /\ editor[o].step = "write" /\ editor' = [editor EXCEPT ![o] = NoEdit] /\ given' = TRUE
           /\ UNCHANGED <<albumSide, sweepSide>>
           /\ OrganisersRecord /\ Len(consents') <= MaxRecords
           /\ \A n \in (Len(consents) + 1)..Len(consents') :
                 consents'[n].action = Granted <=> ~IsGranted(editor[o].log, "organiser", consents'[n].about)
           /\ \A n, k \in (Len(consents) + 1)..Len(consents') : consents'[n] = consents'[k] => n = k
<1> DEFINE S == Changes(o, permission, photos)
           q == SetToSeq(S)
<1>1. /\ editor[o].step = "write" /\ editor' = [editor EXCEPT ![o] = NoEdit] /\ given' = TRUE
      /\ UNCHANGED <<albumSide, sweepSide>>
      /\ Len(consents) + Cardinality(S) <= MaxRecords /\ consents' = consents \o q
  BY DEF SaveFeedback
<1>2. /\ S \in SUBSET Records /\ IsFiniteSet(S)
      /\ \A c \in S : c.by = "organiser" /\ (c.action = Granted <=> ~IsGranted(editor[o].log, "organiser", c.about))
  BY ChangesAre
<1>3. /\ q \in Seq(S) /\ q \in Seq(Records) /\ Len(q) = Cardinality(S) /\ Cardinality(S) \in Nat
      /\ \A i, j \in 1..Len(q) : q[i] = q[j] => i = j
  <2> HIDE DEF S
  <2> QED
    BY <1>2, InSomeOrder
<1> HIDE DEF q, S
<1>4. consents \in Seq(Records) /\ Len(consents) \in Nat
  BY DEF FeedbackTypes
<1>5. /\ consents' \in Seq(Records) /\ Len(consents') = Len(consents) + Len(q)
      /\ \A n \in 1..Len(consents) : consents'[n] = consents[n]
      /\ \A n \in (Len(consents) + 1)..Len(consents') : consents'[n] = q[n - Len(consents)]
  <2>1. /\ consents' \in Seq(Records) /\ Len(consents') = Len(consents) + Len(q)
        /\ \A i \in 1..(Len(consents) + Len(q)) :
              consents'[i] = IF i <= Len(consents) THEN consents[i] ELSE q[i - Len(consents)]
    <3>1. ASSUME NEW a \in Seq(Records), NEW b \in Seq(Records)
          PROVE  /\ a \o b \in Seq(Records) /\ Len(a \o b) = Len(a) + Len(b)
                 /\ \A i \in 1..(Len(a) + Len(b)) : (a \o b)[i] = IF i <= Len(a) THEN a[i] ELSE b[i - Len(a)]
      BY ConcatProperties
    <3> QED
      BY <1>1, <1>3, <1>4, <3>1, Zenon
  <2>2. ASSUME NEW n \in 1..Len(consents) PROVE consents'[n] = consents[n]
    <3>1. n \in 1..(Len(consents) + Len(q)) /\ n <= Len(consents)
      BY <1>3, <1>4
    <3> QED
      BY <2>1, <3>1
  <2>3. ASSUME NEW n \in (Len(consents) + 1)..Len(consents') PROVE consents'[n] = q[n - Len(consents)]
    <3>1. n \in 1..(Len(consents) + Len(q)) /\ ~(n <= Len(consents))
      BY <1>3, <1>4, <2>1
    <3> QED
      BY <2>1, <3>1
  <2> QED
    BY <2>1, <2>2, <2>3
<1>6. \A n \in (Len(consents) + 1)..Len(consents') : n - Len(consents) \in 1..Len(q) /\ consents'[n] \in S
  <2>1. \A n \in (Len(consents) + 1)..Len(consents') : n - Len(consents) \in 1..Len(q)
    BY <1>3, <1>4, <1>5
  <2> QED
    BY <1>3, <1>5, <2>1
<1>7. \A n, k \in (Len(consents) + 1)..Len(consents') : consents'[n] = consents'[k] => n = k
  <2> SUFFICES ASSUME NEW n \in (Len(consents) + 1)..Len(consents'), NEW k \in (Len(consents) + 1)..Len(consents'),
                      consents'[n] = consents'[k]
               PROVE  n = k
    OBVIOUS
  <2>1. n - Len(consents) = k - Len(consents)
    BY <1>3, <1>5, <1>6
  <2> QED
    BY <1>4, <2>1
<1>8. OrganisersRecord
  BY <1>2, <1>4, <1>5, <1>6, <1>3 DEF OrganisersRecord, Extended
<1> QED
  BY <1>1, <1>2, <1>3, <1>5, <1>6, <1>7, <1>8

LEMMA FeedbackInitTypes == FeedbackInit => FeedbackTypes
<1> SUFFICES ASSUME FeedbackInit PROVE FeedbackTypes
  OBVIOUS
<1>1. consents \in Seq(Records) /\ Len(consents) = 0
  BY DEF FeedbackInit
<1>2. asking \in [Requests -> RequestRows] /\ editor \in [Organisers -> EditRows]
  BY FeedbackRowsMade DEF FeedbackInit
<1>3. PhotosKnown
  <2>1. \A n \in 1..Len(consents) : FALSE
    BY <1>1
  <2>2. \A r \in Requests : asking[r] = NoRequest /\ asking[r].about \notin Pictures
    BY FeedbackRowsMade, FeedbackAssumption DEF FeedbackInit, EventWide
  <2> QED
    BY <2>1, <2>2 DEF PhotosKnown
<1>4. Len(consents) <= MaxRecords
  BY <1>1, FeedbackAssumption
<1> QED
  BY <1>1, <1>2, <1>3, <1>4 DEF FeedbackInit, FeedbackTypes

\* No guest has a say in a photo that is not there, whoever records what.
LEMMA KnownStays ==
    ASSUME FeedbackTypes, asking' \in [Requests -> RequestRows],
           \A p \in Pictures : picture'[p] = "none" => picture[p] = "none",
           \A r \in Requests : \/ asking'[r] = asking[r] \/ asking'[r] = NoRequest
                               \/ asking'[r].about \in Pictures /\ picture'[asking'[r].about] # "none",
           \/ UNCHANGED consents
           \/ OrganisersRecord
           \/ \E p \in Pictures : picture'[p] # "none" /\ GuestsRecord(p)
    PROVE  PhotosKnown'
<1>1. \A r \in Requests : asking'[r] # NoRequest => asking'[r].about \in Pictures
  BY DEF FeedbackTypes, PhotosKnown
<1>2. ASSUME NEW p \in Pictures, picture'[p] = "none"
      PROVE  /\ \A n \in 1..Len(consents') : ~IsOf(consents'[n], "guest", p)
             /\ \A r \in Requests : asking'[r].about # p
  <2>0. picture[p] = "none"
    BY <1>2
  <2>1. \A n \in 1..Len(consents) : ~IsOf(consents[n], "guest", p)
    BY <2>0 DEF FeedbackTypes, PhotosKnown
  <2>2. \A r \in Requests : asking'[r].about # p
    <3> SUFFICES ASSUME NEW r \in Requests PROVE asking'[r].about # p
      OBVIOUS
    <3>1. CASE asking'[r] = asking[r]
      BY <2>0, <3>1 DEF FeedbackTypes, PhotosKnown
    <3>2. CASE asking'[r] = NoRequest
      BY <3>2, FeedbackRowsMade, FeedbackAssumption DEF EventWide
    <3>3. CASE asking'[r].about \in Pictures /\ picture'[asking'[r].about] # "none"
      BY <1>2, <3>3
    <3> QED
      BY <3>1, <3>2, <3>3
  <2>3. consents \in Seq(Records) /\ Len(consents) \in Nat
    BY DEF FeedbackTypes
  <2>4. ASSUME consents' \in Seq(Records), Extended(consents, consents'),
               \A n \in (Len(consents) + 1)..Len(consents') : ~IsOf(consents'[n], "guest", p)
        PROVE  \A n \in 1..Len(consents') : ~IsOf(consents'[n], "guest", p)
    <3> SUFFICES ASSUME NEW n \in 1..Len(consents') PROVE ~IsOf(consents'[n], "guest", p)
      OBVIOUS
    <3>1. CASE n \in 1..Len(consents)
      BY <2>1, <2>4, <3>1 DEF Extended
    <3>2. CASE n \in (Len(consents) + 1)..Len(consents')
      BY <2>4, <3>2
    <3> QED
      BY <2>3, <2>4, <3>1, <3>2
  <2>5. CASE UNCHANGED consents
    BY <2>1, <2>2, <2>5
  <2>6. CASE OrganisersRecord
    BY <2>2, <2>4, <2>6 DEF OrganisersRecord, IsOf
  <2>7. ASSUME NEW q \in Pictures, picture'[q] # "none", GuestsRecord(q)
        PROVE  \A n \in 1..Len(consents') : ~IsOf(consents'[n], "guest", p)
    BY <1>2, <2>4, <2>7 DEF GuestsRecord, IsOf
  <2> QED
    BY <2>2, <2>5, <2>6, <2>7
<1> QED
  BY <1>1, <1>2 DEF PhotosKnown

\* The steps of FeedbackNext, each for itself.
LEMMA FeedbackCases ==
    ASSUME FeedbackNext
    PROVE  \/ \E p \in Pictures : CuratePicture(p)
           \/ \E p \in Pictures, share \in BOOLEAN : AddPicture(p, share)
           \/ \E r \in Requests : SharingWrite(r)
           \/ \E r \in Requests, p \in Pictures, want \in BOOLEAN : SharingRead(r, p, want)
           \/ \E o \in Organisers : FeedbackRead(o)
           \/ \E o \in Organisers : SaveRefused(o)
           \/ \E o \in Organisers, photos \in SUBSET Pictures, permission \in {{}, {TRUE}, {FALSE}} :
                 SaveFeedback(o, permission, photos)
           \/ \E w \in Servers : RequestList(w) \/ RequestClaim(w) \/ RequestSend(w)
BY Zenon DEF FeedbackNext

LEMMA FeedbackNextTypes == FeedbackTypes /\ [FeedbackNext]_feedbackVars => FeedbackTypes'
<1> SUFFICES ASSUME FeedbackTypes, [FeedbackNext]_feedbackVars PROVE FeedbackTypes'
  OBVIOUS
<1>t. /\ picture \in [Pictures -> {"none", "waiting", "approved", "hidden"}]
      /\ consents \in Seq(Records) /\ Len(consents) <= MaxRecords
      /\ asking \in [Requests -> RequestRows] /\ editor \in [Organisers -> EditRows]
      /\ told \in [Pictures -> BOOLEAN] /\ crossed \subseteq Pictures
      /\ given \in BOOLEAN /\ requested \in BOOLEAN /\ asked \in Nat
      /\ asker \in [Servers -> {"idle", "listed", "sending"}]
  BY DEF FeedbackTypes
<1>s. \A r \in Requests : asking[r] = asking[r]
  OBVIOUS
<1>0. CASE UNCHANGED feedbackVars
  BY <1>0 DEF feedbackVars, FeedbackTypes, PhotosKnown
<1>1. ASSUME NEW p \in Pictures, CuratePicture(p) PROVE FeedbackTypes'
  <2>1. /\ picture' \in [Pictures -> {"none", "waiting", "approved", "hidden"}]
        /\ \A q \in Pictures : picture'[q] = "none" => picture[q] = "none"
        /\ UNCHANGED <<consents, asking, told, crossed, given, editor, requested, asker, asked>>
    BY <1>1, <1>t DEF CuratePicture, organiserSide, sweepSide
  <2>2. PhotosKnown'
    BY <1>t, <2>1, KnownStays
  <2> QED
    BY <1>t, <2>1, <2>2 DEF FeedbackTypes
<1>2. ASSUME NEW p \in Pictures, NEW share \in BOOLEAN, AddPicture(p, share) PROVE FeedbackTypes'
  <2>1. /\ picture' = [picture EXCEPT ![p] = "waiting"] /\ told' = [told EXCEPT ![p] = share]
        /\ UNCHANGED <<asking, crossed, given, editor, requested, asker, asked>>
        /\ GuestsRecord(p) /\ Len(consents') <= MaxRecords
    BY <1>2, AddIs DEF organiserSide, sweepSide
  <2>2. /\ picture' \in [Pictures -> {"none", "waiting", "approved", "hidden"}]
        /\ \A q \in Pictures : picture'[q] = "none" => picture[q] = "none"
        /\ picture'[p] # "none" /\ told' \in [Pictures -> BOOLEAN]
    BY <1>t, <2>1
  <2>3. PhotosKnown'
    BY <1>t, <2>1, <2>2, KnownStays
  <2> QED
    BY <1>t, <2>1, <2>2, <2>3 DEF FeedbackTypes, GuestsRecord
<1>3. ASSUME NEW r \in Requests, SharingWrite(r) PROVE FeedbackTypes'
  <2> DEFINE p == asking[r].about
  <2>1. /\ p \in Pictures /\ asking[r] # NoRequest /\ told' = [told EXCEPT ![p] = asking[r].want]
        /\ asking' = [asking EXCEPT ![r] = NoRequest]
        /\ UNCHANGED <<picture, crossed, given, editor, requested, asker, asked>>
        /\ GuestsRecord(p) /\ Len(consents') <= MaxRecords
    BY <1>3, WriteIs DEF organiserSide, sweepSide
  <2>2. asking' \in [Requests -> RequestRows] /\ told' \in [Pictures -> BOOLEAN]
    BY <1>t, <2>1, FeedbackRowsMade DEF RequestRows
  <2>3. picture'[p] # "none"
    BY <2>1 DEF FeedbackTypes, PhotosKnown
  <2>4. \A q \in Requests : asking'[q] = asking[q] \/ asking'[q] = NoRequest
    BY <1>t, <2>1
  <2>5. PhotosKnown'
    <3> HIDE DEF p
    <3> QED
      BY <1>t, <2>1, <2>2, <2>3, <2>4, KnownStays
  <2> QED
    BY <1>t, <2>1, <2>2, <2>5 DEF FeedbackTypes, GuestsRecord
<1>4. ASSUME NEW r \in Requests, NEW p \in Pictures, NEW want \in BOOLEAN, SharingRead(r, p, want)
      PROVE  FeedbackTypes'
  <2>0. IsGranted(consents, "guest", p) \in BOOLEAN
    BY DEF IsGranted
  <2>1. PICK q \in RequestRows : q.about = p /\ asking' = [asking EXCEPT ![r] = q]
    <3> DEFINE q == Request("write", p, want, IsGranted(consents, "guest", p))
    <3>1. q \in RequestRows /\ q.about = p
      BY <2>0, FeedbackRowsMade, Zenon
    <3>2. asking' = [asking EXCEPT ![r] = q]
      BY <1>4 DEF SharingRead
    <3> QED
      BY <3>1, <3>2, Zenon
  <2>2. /\ asking' \in [Requests -> RequestRows] /\ picture[p] # "none" /\ crossed' \subseteq Pictures
        /\ UNCHANGED <<picture, told, consents, given, editor, requested, asker, asked>>
    BY <1>4, <1>t, <2>1 DEF SharingRead, organiserSide, sweepSide
  <2>3. \A x \in Requests : \/ asking'[x] = asking[x]
                            \/ asking'[x].about \in Pictures /\ picture'[asking'[x].about] # "none"
    BY <1>t, <2>1, <2>2
  <2>4. PhotosKnown'
    BY <1>t, <2>2, <2>3, KnownStays
  <2> QED
    BY <1>t, <2>2, <2>4 DEF FeedbackTypes
<1>5. ASSUME NEW o \in Organisers, FeedbackRead(o) PROVE FeedbackTypes'
  <2>1. /\ editor' \in [Organisers -> EditRows]
        /\ UNCHANGED <<given, picture, asking, told, crossed, consents, requested, asker, asked>>
    BY <1>5, <1>t, FeedbackRowsMade DEF FeedbackRead, albumSide, sweepSide
  <2>2. PhotosKnown'
    BY <1>t, <2>1, KnownStays
  <2> QED
    BY <1>t, <2>1, <2>2 DEF FeedbackTypes
<1>6. ASSUME NEW o \in Organisers, SaveRefused(o) PROVE FeedbackTypes'
  <2>1. /\ editor' \in [Organisers -> EditRows]
        /\ UNCHANGED <<given, picture, asking, told, crossed, consents, requested, asker, asked>>
    BY <1>6, <1>t, FeedbackRowsMade DEF SaveRefused, albumSide, sweepSide
  <2>2. PhotosKnown'
    BY <1>t, <2>1, KnownStays
  <2> QED
    BY <1>t, <2>1, <2>2 DEF FeedbackTypes
<1>7. ASSUME NEW o \in Organisers, NEW photos \in SUBSET Pictures, NEW permission \in {{}, {TRUE}, {FALSE}},
             SaveFeedback(o, permission, photos)
      PROVE  FeedbackTypes'
  <2>1. /\ editor' = [editor EXCEPT ![o] = NoEdit] /\ given' = TRUE
        /\ UNCHANGED <<picture, asking, told, crossed, requested, asker, asked>>
        /\ OrganisersRecord /\ Len(consents') <= MaxRecords
    BY <1>7, OrganisersSaveIs DEF albumSide, sweepSide
  <2>2. editor' \in [Organisers -> EditRows]
    BY <1>t, <2>1, FeedbackRowsMade
  <2>3. PhotosKnown'
    BY <1>t, <2>1, KnownStays
  <2> QED
    BY <1>t, <2>1, <2>2, <2>3 DEF FeedbackTypes, OrganisersRecord
<1>8. ASSUME NEW w \in Servers, RequestList(w) \/ RequestClaim(w) \/ RequestSend(w) PROVE FeedbackTypes'
  <2>0. /\ requested' \in BOOLEAN /\ UNCHANGED <<given, editor, picture, asking, told, crossed, consents>>
        /\ asked' = asked \/ asked' = asked + 1
        /\ \E step \in {"idle", "listed", "sending"} : asker' = [asker EXCEPT ![w] = step]
    BY <1>8, <1>t DEF RequestList, RequestClaim, RequestSend, albumSide, organiserSide
  <2>1. asker' \in [Servers -> {"idle", "listed", "sending"}] /\ asked' \in Nat
    BY <1>t, <2>0
  <2>2. PhotosKnown'
    BY <1>t, <2>0, KnownStays
  <2> QED
    BY <1>t, <2>0, <2>1, <2>2 DEF FeedbackTypes
<1> QED
  BY <1>0, <1>1, <1>2, <1>3, <1>4, <1>5, <1>6, <1>7, <1>8, FeedbackCases, Zenon

\* The log, the photos and what everybody is doing are what the types say.
THEOREM FeedbackTypeCorrect == FeedbackSpec => []FeedbackTypeOK
<1>1. FeedbackTypes => FeedbackTypeOK
  <2> SUFFICES ASSUME FeedbackTypes PROVE FeedbackTypeOK
    OBVIOUS
  <2>1. \A n \in DOMAIN consents : consents[n] \in Records
    BY DEF FeedbackTypes
  <2> QED
    BY <2>1 DEF FeedbackTypes, FeedbackTypeOK, Records, RequestRows, EditRows
<1> QED
  BY <1>1, FeedbackInitTypes, FeedbackNextTypes, PTL DEF FeedbackSpec

-----------------------------------------------------------------------------
(* Feedback: what is granted is what guests were told, each change is one  *)
(* record, and feedback is asked for once.                                 *)

\* Of a photo that no two requests were about at once, the log says what its
\* guest was told, and the request about it, if any, has read the log as it is.
GuestSide ==
    \A p \in Pictures \ crossed :
        /\ told[p] <=> IsGranted(consents, "guest", p)
        /\ \A r \in Requests : asking[r].about = p => (asking[r].was <=> IsGranted(consents, "guest", p))
        /\ \A r, q \in Requests : asking[r].about = p /\ asking[q].about = p => r = q

\* One save at a time; it has read what the organisers allow.
OneSave ==
    /\ \A o, x \in Organisers : editor[o] # NoEdit /\ editor[x] # NoEdit => o = x
    /\ \A o \in Organisers : editor[o] # NoEdit =>
          \A s \in Subjects : IsGranted(editor[o].log, "organiser", s) <=> IsGranted(consents, "organiser", s)

\* Between two records of organisers that are the same there is one of the
\* opposite.
Opposed(log, n, k) ==
    \E m \in n..k : /\ log[m].by = "organiser" /\ log[m].about = log[n].about
                    /\ log[m].action # log[n].action

OneChange ==
    \A n, k \in 1..Len(consents) :
        n < k /\ consents[n].by = "organiser" /\ consents[n] = consents[k] => Opposed(consents, n, k)

\* Whoever has the claim has not asked yet, and nobody asks without one.
AskedOnce ==
    /\ \A w, v \in Servers : asker[w] = "sending" /\ asker[v] = "sending" => w = v
    /\ \A w \in Servers : asker[w] = "sending" => asked = 0 /\ requested
    /\ ~requested => asked = 0
    /\ asked <= 1

FeedbackInv == FeedbackTypes /\ GuestSide /\ OneSave /\ OneChange /\ AskedOnce

\* Steps that write nothing about the guests' photos.
LEMMA GuestSideStays ==
    ASSUME GuestSide, UNCHANGED <<told, crossed, asking>>,
           \A p \in Pictures : IsGranted(consents', "guest", p) <=> IsGranted(consents, "guest", p)
    PROVE  GuestSide'
BY DEF GuestSide

LEMMA OrganisersAlone ==
    ASSUME FeedbackTypes, OrganisersRecord
    PROVE  \A p \in Pictures : IsGranted(consents', "guest", p) <=> IsGranted(consents, "guest", p)
<1> SUFFICES ASSUME NEW p \in Pictures
             PROVE  IsGranted(consents', "guest", p) <=> IsGranted(consents, "guest", p)
  OBVIOUS
<1>1. \A n \in (Len(consents) + 1)..Len(consents') : ~IsOf(consents'[n], "guest", p)
  BY DEF OrganisersRecord, IsOf
<1> QED
  BY <1>1, GrantStays DEF OrganisersRecord, FeedbackTypes

\* What was opposed stays so.
LEMMA OpposedStays ==
    ASSUME NEW log \in Seq(Records), NEW new \in Seq(Records), Extended(log, new),
           NEW n \in 1..Len(log), NEW k \in 1..Len(log), Opposed(log, n, k)
    PROVE  Opposed(new, n, k)
<1>1. PICK m \in n..k : /\ log[m].by = "organiser" /\ log[m].about = log[n].about
                        /\ log[m].action # log[n].action
  BY DEF Opposed
<1>2. m \in 1..Len(log)
  BY <1>1
<1>3. new[m] = log[m] /\ new[n] = log[n]
  BY <1>2 DEF Extended
<1> QED
  BY <1>1, <1>3 DEF Opposed

\* A record that is not what the log says now has been taken back since.
LEMMA Contradicted ==
    ASSUME NEW log \in Seq(Records), NEW n \in 1..Len(log), NEW about \in Subjects,
           IsOf(log[n], "organiser", about),
           log[n].action = Granted <=> ~IsGranted(log, "organiser", about)
    PROVE  \E m \in n..Len(log) : IsOf(log[m], "organiser", about) /\ log[m].action # log[n].action
<1>1. PICK m \in n..Len(log) : /\ IsOf(log[m], "organiser", about)
                               /\ \A k \in (m + 1)..Len(log) : ~IsOf(log[k], "organiser", about)
  BY LastRecord
<1>2. m \in 1..Len(log)
  BY <1>1
<1>3. IsGranted(log, "organiser", about) <=> log[m].action = Granted
  BY <1>1, <1>2, GrantSet
<1> QED
  BY <1>1, <1>3

LEMMA GuestSideNext ==
    ASSUME FeedbackTypes, GuestSide, [FeedbackNext]_feedbackVars
    PROVE  GuestSide'
<1>t. /\ consents \in Seq(Records) /\ asking \in [Requests -> RequestRows] /\ told \in [Pictures -> BOOLEAN]
      /\ \A r \in Requests : asking[r] # NoRequest => asking[r].about \in Pictures
  BY DEF FeedbackTypes, PhotosKnown
<1>e. EventWide \notin Pictures /\ NoRequest.about = EventWide
  BY FeedbackAssumption, FeedbackRowsMade DEF EventWide
<1>0. CASE UNCHANGED feedbackVars
  BY <1>0, GuestSideStays DEF feedbackVars
<1>1. ASSUME NEW p \in Pictures, CuratePicture(p) PROVE GuestSide'
  BY <1>1, GuestSideStays DEF CuratePicture
<1>2. ASSUME NEW p \in Pictures, NEW share \in BOOLEAN, AddPicture(p, share) PROVE GuestSide'
  <2>1. /\ picture[p] = "none" /\ told' = [told EXCEPT ![p] = share] /\ UNCHANGED <<asking, crossed>>
        /\ share => IsGranted(consents', "guest", p)
        /\ ~share => consents' = consents
        /\ \A q \in Pictures \ {p} : IsGranted(consents', "guest", q) <=> IsGranted(consents, "guest", q)
    BY <1>2, AddIs
  <2>2. /\ \A n \in 1..Len(consents) : ~IsOf(consents[n], "guest", p)
        /\ \A r \in Requests : asking[r].about # p
    BY <2>1 DEF FeedbackTypes, PhotosKnown
  <2>3. ~IsGranted(consents, "guest", p)
    <3>1. DOMAIN consents = 1..Len(consents)
      BY <1>t
    <3>2. \A n \in DOMAIN consents : consents[n] # ConsentRecord("guest", p, TRUE)
      BY <2>2, <3>1 DEF IsOf, ConsentRecord
    <3> QED
      BY <3>2 DEF IsGranted
  <2>4. told'[p] <=> IsGranted(consents', "guest", p)
    BY <1>t, <2>1, <2>3
  <2>5. \A q \in Pictures \ {p} : told'[q] = told[q]
    BY <1>t, <2>1
  <2> QED
    BY <2>1, <2>2, <2>4, <2>5 DEF GuestSide
<1>3. ASSUME NEW r \in Requests, SharingWrite(r) PROVE GuestSide'
  <2>1. PICK p \in Pictures : asking[r].about = p
    BY <1>3, WriteIs
  <2>2. /\ told' = [told EXCEPT ![p] = asking[r].want] /\ asking' = [asking EXCEPT ![r] = NoRequest]
        /\ UNCHANGED crossed
        /\ asking[r].want # asking[r].was => (IsGranted(consents', "guest", p) <=> asking[r].want)
        /\ asking[r].want = asking[r].was => consents' = consents
        /\ \A q \in Pictures \ {p} : IsGranted(consents', "guest", q) <=> IsGranted(consents, "guest", q)
    BY <1>3, <2>1, WriteIs
  <2>3. /\ told'[p] = asking[r].want /\ \A q \in Pictures \ {p} : told'[q] = told[q]
        /\ asking'[r].about \notin Pictures /\ \A q \in Requests \ {r} : asking'[q] = asking[q]
    BY <1>t, <1>e, <2>2
  <2>4. asking[r].want \in BOOLEAN /\ asking[r].was \in BOOLEAN
    BY <1>t DEF RequestRows
  <2>5. ASSUME p \notin crossed
        PROVE  told'[p] <=> IsGranted(consents', "guest", p)
    <3>1. asking[r].was <=> IsGranted(consents, "guest", p)
      BY <2>1, <2>5 DEF GuestSide
    <3>2. CASE asking[r].want = asking[r].was
      BY <2>2, <2>3, <3>1, <3>2
    <3>3. CASE asking[r].want # asking[r].was
      BY <2>2, <2>3, <3>3
    <3> QED
      BY <3>2, <3>3
  <2>6. ASSUME p \notin crossed, NEW q \in Requests PROVE asking'[q].about # p
    BY <2>1, <2>3, <2>6 DEF GuestSide
  <2>7. ASSUME NEW s \in Pictures \ crossed, s # p
        PROVE  /\ told'[s] <=> IsGranted(consents', "guest", s)
               /\ \A x \in Requests : asking'[x].about = s => (asking'[x].was <=> IsGranted(consents', "guest", s))
               /\ \A x, q \in Requests : asking'[x].about = s /\ asking'[q].about = s => x = q
    BY <2>2, <2>3, <2>7 DEF GuestSide
  <2> QED
    BY <2>2, <2>5, <2>6, <2>7 DEF GuestSide
<1>4. ASSUME NEW r \in Requests, NEW p \in Pictures, NEW want \in BOOLEAN, SharingRead(r, p, want)
      PROVE  GuestSide'
  <2>0. IsGranted(consents, "guest", p) \in BOOLEAN
    BY DEF IsGranted
  <2>1. PICK new \in RequestRows : /\ new.about = p /\ new.was = IsGranted(consents, "guest", p)
                                   /\ asking' = [asking EXCEPT ![r] = new]
    <3> DEFINE q == Request("write", p, want, IsGranted(consents, "guest", p))
    <3>0. \A was \in BOOLEAN : LET x == Request("write", p, want, was)
                               IN  x \in RequestRows /\ x.about = p /\ x.was = was
      BY FeedbackRowsMade
    <3>1. q \in RequestRows /\ q.about = p /\ q.was = IsGranted(consents, "guest", p)
      BY <2>0, <3>0, Zenon
    <3>2. asking' = [asking EXCEPT ![r] = q]
      BY <1>4 DEF SharingRead
    <3> QED
      BY <3>1, <3>2, Zenon
  <2>2. /\ asking[r] = NoRequest /\ UNCHANGED <<told, consents>>
        /\ crossed' = IF \E q \in Requests : asking[q].about = p THEN crossed \cup {p} ELSE crossed
    BY <1>4 DEF SharingRead
  <2>3. asking'[r] = new /\ \A q \in Requests \ {r} : asking'[q] = asking[q]
    BY <1>t, <2>1
  <2>4. ASSUME p \notin crossed' PROVE p \notin crossed /\ \A q \in Requests : asking[q].about # p
    BY <2>2, <2>4
  <2>5. ASSUME p \notin crossed'
        PROVE  /\ told'[p] <=> IsGranted(consents', "guest", p)
               /\ \A x \in Requests : asking'[x].about = p => (asking'[x].was <=> IsGranted(consents', "guest", p))
               /\ \A x, q \in Requests : asking'[x].about = p /\ asking'[q].about = p => x = q
    <3>1. told[p] <=> IsGranted(consents, "guest", p)
      BY <2>4, <2>5 DEF GuestSide
    <3>2. \A x \in Requests : asking'[x].about = p => x = r
      BY <2>3, <2>4, <2>5
    <3> QED
      BY <2>1, <2>2, <2>3, <3>1, <3>2
  <2>6. ASSUME NEW s \in Pictures \ crossed', s # p
        PROVE  /\ told'[s] <=> IsGranted(consents', "guest", s)
               /\ \A x \in Requests : asking'[x].about = s => (asking'[x].was <=> IsGranted(consents', "guest", s))
               /\ \A x, q \in Requests : asking'[x].about = s /\ asking'[q].about = s => x = q
    <3>1. s \notin crossed
      BY <2>2, <2>6
    <3> QED
      BY <2>1, <2>2, <2>3, <2>6, <3>1 DEF GuestSide
  <2> QED
    BY <2>5, <2>6 DEF GuestSide
<1>5. ASSUME NEW o \in Organisers, FeedbackRead(o) \/ SaveRefused(o) PROVE GuestSide'
  BY <1>5, GuestSideStays DEF FeedbackRead, SaveRefused, albumSide
<1>6. ASSUME NEW o \in Organisers, NEW photos \in SUBSET Pictures, NEW permission \in {{}, {TRUE}, {FALSE}},
             SaveFeedback(o, permission, photos)
      PROVE  GuestSide'
  <2>1. OrganisersRecord /\ UNCHANGED <<told, crossed, asking>>
    BY <1>6, OrganisersSaveIs DEF albumSide
  <2> QED
    BY <2>1, OrganisersAlone, GuestSideStays
<1>7. ASSUME NEW w \in Servers, RequestList(w) \/ RequestClaim(w) \/ RequestSend(w) PROVE GuestSide'
  BY <1>7, GuestSideStays DEF RequestList, RequestClaim, RequestSend, albumSide
<1> QED
  BY <1>0, <1>1, <1>2, <1>3, <1>4, <1>5, <1>6, <1>7, FeedbackCases, Zenon

\* Steps of the guests leave what the organisers allow, and their records.
LEMMA GuestsAlone ==
    ASSUME FeedbackTypes, NEW p \in Pictures, GuestsRecord(p),
           \A s : IsGranted(consents', "organiser", s) <=> IsGranted(consents, "organiser", s),
           UNCHANGED editor, OneSave, OneChange
    PROVE  OneSave' /\ OneChange'
<1>1. OneSave'
  BY DEF OneSave
<1>2. /\ consents \in Seq(Records) /\ consents' \in Seq(Records) /\ Extended(consents, consents')
      /\ Len(consents) \in Nat /\ Len(consents') \in Nat
      /\ \A n \in (Len(consents) + 1)..Len(consents') : consents'[n].by = "guest"
  BY DEF FeedbackTypes, GuestsRecord, IsOf
<1>3. ASSUME NEW n \in 1..Len(consents'), NEW k \in 1..Len(consents'),
             n < k, consents'[n].by = "organiser", consents'[n] = consents'[k]
      PROVE  Opposed(consents', n, k)
  <2>1. n \in 1..Len(consents) /\ k \in 1..Len(consents)
    BY <1>2, <1>3
  <2>2. consents'[n] = consents[n] /\ consents'[k] = consents[k]
    BY <1>2, <2>1 DEF Extended
  <2>3. Opposed(consents, n, k)
    BY <1>3, <2>1, <2>2 DEF OneChange
  <2> QED
    BY <1>2, <2>1, <2>3, OpposedStays
<1> QED
  BY <1>1, <1>3 DEF OneChange

\* Steps that record nothing, and leave the saves alone.
LEMMA SavesAlone ==
    ASSUME OneSave, OneChange, UNCHANGED <<consents, editor>>
    PROVE  OneSave' /\ OneChange'
BY DEF OneSave, OneChange

\* A save: what is recorded twice was recorded otherwise in between.
LEMMA SavedOnce ==
    ASSUME FeedbackTypes, OneSave, OneChange, NEW o \in Organisers, NEW photos \in SUBSET Pictures,
           NEW permission \in {{}, {TRUE}, {FALSE}}, SaveFeedback(o, permission, photos)
    PROVE  OneSave' /\ OneChange'
<1>1. /\ editor[o].step = "write" /\ editor' = [editor EXCEPT ![o] = NoEdit]
      /\ consents' \in Seq(Records) /\ Extended(consents, consents')
      /\ \A n \in (Len(consents) + 1)..Len(consents') :
            consents'[n].action = Granted <=> ~IsGranted(editor[o].log, "organiser", consents'[n].about)
      /\ \A n, k \in (Len(consents) + 1)..Len(consents') : consents'[n] = consents'[k] => n = k
  BY OrganisersSaveIs DEF OrganisersRecord
<1>2. /\ consents \in Seq(Records) /\ Len(consents) \in Nat /\ Len(consents') \in Nat
      /\ Len(consents) <= Len(consents')
      /\ \A n \in 1..Len(consents) : consents[n] \in Records /\ consents'[n] = consents[n]
      /\ \A n \in 1..Len(consents') : consents'[n] \in Records
  BY <1>1 DEF FeedbackTypes, Extended
<1>3. editor[o] # NoEdit
  BY <1>1, FeedbackRowsMade
<1>4. \A s \in Subjects : IsGranted(editor[o].log, "organiser", s) <=> IsGranted(consents, "organiser", s)
  BY <1>3 DEF OneSave
<1>5. OneSave'
  <2>1. \A x \in Organisers : editor'[x] = NoEdit
    BY <1>1, <1>3 DEF OneSave, FeedbackTypes
  <2> QED
    BY <2>1 DEF OneSave
<1>6. ASSUME NEW n \in 1..Len(consents'), NEW k \in 1..Len(consents'),
             n < k, consents'[n].by = "organiser", consents'[n] = consents'[k]
      PROVE  Opposed(consents', n, k)
  <2>1. CASE k \in 1..Len(consents)
    <3>1. n \in 1..Len(consents)
      BY <1>2, <1>6, <2>1
    <3>2. Opposed(consents, n, k)
      BY <1>2, <1>6, <2>1, <3>1 DEF OneChange
    <3> QED
      BY <1>1, <1>2, <2>1, <3>1, <3>2, OpposedStays
  <2>2. CASE k \in (Len(consents) + 1)..Len(consents')
    <3>1. n \in 1..Len(consents)
      <4>1. n \notin (Len(consents) + 1)..Len(consents')
        BY <1>1, <1>6, <2>2
      <4> QED
        BY <1>2, <4>1
    <3>2. consents'[n] = consents[n] /\ consents[n] \in Records /\ consents[k] = consents[k]
      BY <1>2, <3>1
    <3> DEFINE about == consents[n].about
    <3>3. about \in Subjects /\ IsOf(consents[n], "organiser", about)
      BY <1>6, <3>2 DEF IsOf, Records
    <3>4. consents[n].action = Granted <=> ~IsGranted(consents, "organiser", about)
      BY <1>1, <1>4, <1>6, <2>2, <3>2, <3>3
    <3>5. \E m \in n..Len(consents) : IsOf(consents[m], "organiser", about) /\ consents[m].action # consents[n].action
      BY <1>2, <3>1, <3>2, <3>3, <3>4, Contradicted
    <3>6. PICK m \in n..Len(consents) : IsOf(consents[m], "organiser", about) /\ consents[m].action # consents[n].action
      BY <3>5
    <3>7. m \in n..k /\ consents'[m] = consents[m]
      BY <1>2, <2>2, <3>1
    <3> QED
      BY <3>2, <3>6, <3>7 DEF Opposed, IsOf
  <2> QED
    BY <1>2, <2>1, <2>2
<1> QED
  BY <1>5, <1>6 DEF OneChange

LEMMA OrganiserSideNext ==
    ASSUME FeedbackTypes, OneSave, OneChange, [FeedbackNext]_feedbackVars
    PROVE  OneSave' /\ OneChange'
<1>0. CASE UNCHANGED feedbackVars
  BY <1>0, SavesAlone DEF feedbackVars
<1>1. ASSUME NEW p \in Pictures, CuratePicture(p) PROVE OneSave' /\ OneChange'
  BY <1>1, SavesAlone DEF CuratePicture, organiserSide
<1>2. ASSUME NEW p \in Pictures, NEW share \in BOOLEAN, AddPicture(p, share) PROVE OneSave' /\ OneChange'
  <2>1. /\ GuestsRecord(p) /\ UNCHANGED organiserSide
        /\ \A s : IsGranted(consents', "organiser", s) <=> IsGranted(consents, "organiser", s)
    BY <1>2, AddIs
  <2> QED
    BY <2>1, GuestsAlone DEF organiserSide
<1>3. ASSUME NEW r \in Requests, SharingWrite(r) PROVE OneSave' /\ OneChange'
  <2>1. /\ asking[r].about \in Pictures /\ GuestsRecord(asking[r].about) /\ UNCHANGED organiserSide
        /\ \A s : IsGranted(consents', "organiser", s) <=> IsGranted(consents, "organiser", s)
    BY <1>3, WriteIs
  <2> QED
    BY <2>1, GuestsAlone DEF organiserSide
<1>4. ASSUME NEW r \in Requests, NEW p \in Pictures, NEW want \in BOOLEAN, SharingRead(r, p, want)
      PROVE  OneSave' /\ OneChange'
  BY <1>4, SavesAlone DEF SharingRead, organiserSide
<1>5. ASSUME NEW o \in Organisers, FeedbackRead(o) PROVE OneSave' /\ OneChange'
  <2>1. /\ \A x \in Organisers : editor[x] = NoEdit
        /\ editor' = [editor EXCEPT ![o] = Edit("write", consents)] /\ UNCHANGED consents
    BY <1>5 DEF FeedbackRead
  <2>2. /\ editor'[o].log = consents
        /\ \A x \in Organisers : x # o => editor'[x] = NoEdit
    BY <2>1, FeedbackRowsMade DEF FeedbackTypes
  <2>3. OneSave'
    BY <2>1, <2>2 DEF OneSave
  <2>4. OneChange'
    BY <2>1 DEF OneChange
  <2> QED
    BY <2>3, <2>4
<1>6. ASSUME NEW o \in Organisers, SaveRefused(o) PROVE OneSave' /\ OneChange'
  <2>1. editor' = [editor EXCEPT ![o] = NoEdit] /\ UNCHANGED consents
    BY <1>6 DEF SaveRefused
  <2>2. \A x \in Organisers : editor'[x] = NoEdit \/ editor'[x] = editor[x]
    BY <2>1 DEF FeedbackTypes
  <2>3. OneSave'
    BY <2>1, <2>2 DEF OneSave
  <2>4. OneChange'
    BY <2>1 DEF OneChange
  <2> QED
    BY <2>3, <2>4
<1>7. ASSUME NEW o \in Organisers, NEW photos \in SUBSET Pictures, NEW permission \in {{}, {TRUE}, {FALSE}},
             SaveFeedback(o, permission, photos)
      PROVE  OneSave' /\ OneChange'
  BY <1>7, SavedOnce
<1>8. ASSUME NEW w \in Servers, RequestList(w) \/ RequestClaim(w) \/ RequestSend(w) PROVE OneSave' /\ OneChange'
  BY <1>8, SavesAlone DEF RequestList, RequestClaim, RequestSend, organiserSide
<1> QED
  BY <1>0, <1>1, <1>2, <1>3, <1>4, <1>5, <1>6, <1>7, <1>8, FeedbackCases, Zenon

LEMMA AskedOnceNext ==
    ASSUME FeedbackTypes, AskedOnce, [FeedbackNext]_feedbackVars
    PROVE  AskedOnce'
<1>0. ASSUME UNCHANGED sweepSide PROVE AskedOnce'
  BY <1>0 DEF sweepSide, AskedOnce
<1>1. CASE UNCHANGED feedbackVars
  BY <1>0, <1>1 DEF feedbackVars, sweepSide
<1>2. ASSUME NEW p \in Pictures, CuratePicture(p) PROVE AskedOnce'
  BY <1>0, <1>2 DEF CuratePicture
<1>3. ASSUME NEW p \in Pictures, NEW share \in BOOLEAN, AddPicture(p, share) PROVE AskedOnce'
  BY <1>0, <1>3 DEF AddPicture
<1>4. ASSUME NEW r \in Requests, SharingWrite(r) PROVE AskedOnce'
  BY <1>0, <1>4 DEF SharingWrite
<1>5. ASSUME NEW r \in Requests, NEW p \in Pictures, NEW want \in BOOLEAN, SharingRead(r, p, want)
      PROVE  AskedOnce'
  BY <1>0, <1>5 DEF SharingRead
<1>6. ASSUME NEW o \in Organisers, FeedbackRead(o) PROVE AskedOnce'
  BY <1>0, <1>6 DEF FeedbackRead
<1>7. ASSUME NEW o \in Organisers, SaveRefused(o) PROVE AskedOnce'
  BY <1>0, <1>7 DEF SaveRefused
<1>8. ASSUME NEW o \in Organisers, NEW photos \in SUBSET Pictures, NEW permission \in {{}, {TRUE}, {FALSE}},
             SaveFeedback(o, permission, photos)
      PROVE  AskedOnce'
  BY <1>0, <1>8 DEF SaveFeedback
<1>9. ASSUME NEW w \in Servers, RequestList(w) \/ RequestClaim(w) \/ RequestSend(w) PROVE AskedOnce'
  <2>t. asker \in [Servers -> {"idle", "listed", "sending"}] /\ asked \in Nat
    BY DEF FeedbackTypes
  <2>1. CASE RequestList(w)
    BY <2>t, <2>1 DEF RequestList, AskedOnce
  <2>2. CASE RequestClaim(w)
    <3>1. CASE requested
      BY <2>t, <2>2, <3>1 DEF RequestClaim, AskedOnce
    <3>2. CASE ~requested
      BY <2>t, <2>2, <3>2 DEF RequestClaim, AskedOnce
    <3> QED
      BY <3>1, <3>2
  <2>3. CASE RequestSend(w)
    BY <2>t, <2>3 DEF RequestSend, AskedOnce
  <2> QED
    BY <1>9, <2>1, <2>2, <2>3
<1> QED
  BY <1>1, <1>2, <1>3, <1>4, <1>5, <1>6, <1>7, <1>8, <1>9, FeedbackCases, Zenon

LEMMA FeedbackInitInv == FeedbackInit => FeedbackInv
<1> SUFFICES ASSUME FeedbackInit PROVE FeedbackInv
  OBVIOUS
<1>1. FeedbackTypes
  BY FeedbackInitTypes
<1>2. consents = <<>> /\ Len(consents) = 0 /\ \A b, s : ~IsGranted(consents, b, s)
  BY DEF FeedbackInit, IsGranted
<1>3. GuestSide
  <2>1. \A r \in Requests : asking[r].about \notin Pictures
    BY FeedbackRowsMade, FeedbackAssumption DEF FeedbackInit, EventWide
  <2> QED
    BY <1>2, <2>1 DEF FeedbackInit, GuestSide
<1>4. OneSave /\ OneChange
  BY <1>2 DEF FeedbackInit, OneSave, OneChange
<1>5. AskedOnce
  BY DEF FeedbackInit, AskedOnce
<1> QED
  BY <1>1, <1>3, <1>4, <1>5 DEF FeedbackInv

LEMMA FeedbackInvNext == FeedbackInv /\ [FeedbackNext]_feedbackVars => FeedbackInv'
BY FeedbackNextTypes, GuestSideNext, OrganiserSideNext, AskedOnceNext DEF FeedbackInv

\* A photo is given out to be shown publicly only as its guest was last told,
\* unless two requests about it overlapped; organisers saving at once record no
\* change twice; and all the servers' sweeps ask for feedback at most once.
THEOREM ConsentIsKept == FeedbackSpec => []ConsentKept
<1>1. FeedbackInv => ConsentKept
  <2> SUFFICES ASSUME FeedbackInv PROVE ConsentKept
    OBVIOUS
  <2>1. SharedByBoth
    <3>1. \A p \in Shareable : p \in Pictures /\ IsGranted(consents, "guest", p)
      BY DEF Shareable, Eligible
    <3> QED
      BY <3>1 DEF SharedByBoth, FeedbackInv, GuestSide
  <2>2. DOMAIN consents = 1..Len(consents)
    BY DEF FeedbackInv, FeedbackTypes
  <2>3. OneChangeOneRecord
    BY <2>2 DEF OneChangeOneRecord, FeedbackInv, OneChange, Opposed, AskedOnce
  <2> QED
    BY <2>1, <2>3 DEF ConsentKept
<1> QED
  BY <1>1, FeedbackInitInv, FeedbackInvNext, PTL DEF FeedbackSpec

-----------------------------------------------------------------------------
(* MediaRetention: types.                                                  *)

AtFiles == {"delete", "mark"}
PurgeRows == [reason : {"none", "RETENTION", "SUPER_ADMIN"}, covers : SUBSET Photos, since : 0..RetentionDays,
              wanted : BOOLEAN, leased : BOOLEAN, done : BOOLEAN, count : Nat]
SweepRows == [step : {"asleep", "remind", "claim", "order", "run", "delete", "mark"}, key : 0..MaxArchivings,
             seen : SUBSET Photos, todo : SUBSET Photos, mark : 0..MaxPhotos, failed : BOOLEAN,
             count : Nat, holds : BOOLEAN]

\* Whoever is at work is at work on a purge; nobody else holds a lease or counts.
Elsewhere(t) == t \in SweepRows /\ t.step \notin AtFiles /\ ~t.holds /\ t.count = 0
AtWork(t) == t \in SweepRows /\ t.step \in AtFiles /\ t.key \in Archivings
SweepFits(t) == Elsewhere(t) \/ AtWork(t)

\* Items are numbered as they are created, and a save has a number left.
Numbered ==
    /\ \E n \in 0..MaxPhotos : Taken = 1..n
    /\ uploading => Taken # Photos

RetentionTypes ==
    /\ photo \in [Photos -> {"none", "live", "kept", "purged", "unhid"}]
    /\ file \in SUBSET Photos /\ uploading \in BOOLEAN /\ restoring \in 0..MaxPhotos
    /\ archived \in BOOLEAN /\ archiver \in BOOLEAN
    /\ archiving \in 0..MaxArchivings /\ age \in 0..RetentionDays
    /\ archived => archiving \in Archivings
    /\ warned \in [Archivings -> (0..ReminderDays) \cup {Never}]
    /\ emails \in [Archivings -> Nat]
    /\ purge \in [Archivings -> PurgeRows]
    /\ sweeper \in [Sweepers -> SweepRows] /\ \A w \in Sweepers : SweepFits(sweeper[w])
    /\ breaks \in 0..MaxBreaks
    /\ Numbered

LEMMA Bounds ==
    /\ MaxPhotos \in Nat /\ MaxArchivings \in Nat /\ MaxBreaks \in Nat /\ Never \notin Nat
    /\ RetentionDays \in Nat /\ RetentionDays > 0 /\ ReminderDays \in Nat
    /\ IsFiniteSet(Photos) /\ Cardinality(Photos) = MaxPhotos /\ IsFiniteSet(Sweepers)
<1>1. /\ MaxPhotos \in Nat /\ MaxArchivings \in Nat /\ MaxBreaks \in Nat /\ Never \notin Nat
      /\ RetentionDays \in Nat /\ RetentionDays > 0 /\ ReminderDays \in Nat /\ IsFiniteSet(Sweepers)
  BY RetentionAssumption
<1>2. IsFiniteSet(1..MaxPhotos) /\ Cardinality(1..MaxPhotos) = MaxPhotos
  BY <1>1, FS_Interval
<1> QED
  BY <1>1, <1>2 DEF Photos

LEMMA NoneOf == Cardinality({}) = 0 /\ 0 <= 1
BY FS_EmptySet

LEMMA TaskMade ==
    ASSUME NEW step \in {"asleep", "remind", "claim", "order", "run"}, NEW key \in 0..MaxArchivings,
           NEW seen \in SUBSET Photos
    PROVE  LET t == Task(step, key, seen)
           IN  Elsewhere(t) /\ t.step = step /\ t.key = key /\ t.seen = seen
BY Bounds DEF Task, Elsewhere, SweepRows, AtFiles

LEMMA PurgeMade ==
    ASSUME NEW reason \in {"none", "RETENTION", "SUPER_ADMIN"}, NEW covers \in SUBSET Photos,
           NEW since \in 0..RetentionDays, NEW wanted \in BOOLEAN
    PROVE  LET p == Purge(reason, covers, since, wanted)
           IN  /\ p \in PurgeRows /\ p.reason = reason /\ p.covers = covers /\ p.since = since
               /\ p.wanted = wanted /\ ~p.leased /\ ~p.done /\ p.count = 0
BY Bounds DEF Purge, PurgeRows

LEMMA NothingYet ==
    /\ NoPurge \in PurgeRows /\ NoPurge.reason = "none" /\ NoPurge.covers = {}
    /\ ~NoPurge.leased /\ ~NoPurge.done /\ NoPurge.count = 0
    /\ Elsewhere(Asleep) /\ Asleep.step = "asleep" /\ Asleep.seen = {}
<1>1. 0 \in 0..RetentionDays /\ 0 \in 0..MaxArchivings /\ {} \in SUBSET Photos
  BY Bounds
<1>2. LET p == Purge("none", {}, 0, FALSE)
      IN  p \in PurgeRows /\ p.reason = "none" /\ p.covers = {} /\ ~p.leased /\ ~p.done /\ p.count = 0
  BY <1>1 DEF Purge, PurgeRows
<1>3. LET t == Task("asleep", 0, {})
      IN  Elsewhere(t) /\ t.step = "asleep" /\ t.seen = {}
  BY <1>1, TaskMade
<1> QED
  BY <1>2, <1>3 DEF NoPurge, Asleep

\* What a sweep turns to after its reminder is no work yet; a claim is due.
LEMMA RestIs ==
    ASSUME RetentionTypes, NEW seen \in SUBSET Photos
    PROVE  /\ Elsewhere(Rest(seen)) /\ Rest(seen).seen \in {{}, seen}
           /\ Rest(seen).step = "claim" => Due
<1>1. 0 \in 0..MaxArchivings /\ {} \in SUBSET Photos
  BY Bounds
<1>2. /\ Elsewhere(Task("claim", 0, seen)) /\ Task("claim", 0, seen).seen = seen
      /\ Elsewhere(Task("run", 0, {})) /\ Task("run", 0, {}).seen = {} /\ Task("run", 0, {}).step = "run"
  BY <1>1, TaskMade
<1>3. Rest(seen) = IF Due THEN Task("claim", 0, seen)
                   ELSE IF \E k \in Archivings : Unfinished(k) THEN Task("run", 0, {}) ELSE Asleep
  BY DEF Rest
<1>4. CASE Due
  BY <1>2, <1>3, <1>4
<1>5. CASE ~Due /\ \E k \in Archivings : Unfinished(k)
  BY <1>2, <1>3, <1>5
<1>6. CASE ~Due /\ ~\E k \in Archivings : Unfinished(k)
  BY <1>3, <1>6, NothingYet
<1> QED
  BY <1>4, <1>5, <1>6

\* The sweeps' steps that are not at a purge: what they turn to.
Turns(w, t) ==
    /\ Elsewhere(t) /\ sweeper' = [sweeper EXCEPT ![w] = t]
    /\ t.seen \in {{}, Taken, sweeper[w].seen}
    /\ t.step = "claim" => Due
    /\ UNCHANGED <<photoVars, clockVars>>

LEMMA BeginsTurns ==
    ASSUME RetentionTypes, NEW w \in Sweepers, SweepBegins(w)
    PROVE  (\E t : Turns(w, t)) /\ UNCHANGED <<claimVars, breaks>>
<1>1. /\ sweeper' = [sweeper EXCEPT ![w] = IF ReminderDue THEN Task("remind", archiving, Taken) ELSE Rest(Taken)]
      /\ UNCHANGED <<photoVars, clockVars, claimVars, breaks>>
  BY DEF SweepBegins, Goes
<1>2. Taken \in SUBSET Photos /\ archiving \in 0..MaxArchivings
  BY DEF Taken, RetentionTypes
<1>3. LET t == Task("remind", archiving, Taken)
      IN  Elsewhere(t) /\ t.seen = Taken /\ t.step = "remind"
  BY <1>2, TaskMade
<1>4. /\ Elsewhere(Rest(Taken)) /\ Rest(Taken).seen \in {{}, Taken}
      /\ Rest(Taken).step = "claim" => Due
  BY <1>2, RestIs
<1>5. CASE ReminderDue
  <2>1. Turns(w, Task("remind", archiving, Taken))
    BY <1>1, <1>3, <1>5 DEF Turns
  <2> QED
    BY <1>1, <2>1
<1>6. CASE ~ReminderDue
  <2>1. Turns(w, Rest(Taken))
    BY <1>1, <1>4, <1>6 DEF Turns
  <2> QED
    BY <1>1, <2>1
<1> QED
  BY <1>5, <1>6

LEMMA RemindTurns ==
    ASSUME RetentionTypes, NEW w \in Sweepers, Remind(w)
    PROVE  (\E t : Turns(w, t)) /\ UNCHANGED <<purge, breaks>>
<1>1. /\ sweeper' = [sweeper EXCEPT ![w] = Rest(sweeper[w].seen)]
      /\ UNCHANGED <<photoVars, clockVars, purge, breaks>>
  BY DEF Remind, Goes
<1>2. sweeper[w].seen \in SUBSET Photos
  BY DEF RetentionTypes, SweepRows
<1>3. /\ Elsewhere(Rest(sweeper[w].seen)) /\ Rest(sweeper[w].seen).seen \in {{}, sweeper[w].seen}
      /\ Rest(sweeper[w].seen).step = "claim" => Due
  BY <1>2, RestIs
<1>4. Turns(w, Rest(sweeper[w].seen))
  BY <1>1, <1>3 DEF Turns
<1> QED
  BY <1>1, <1>4

\* A purge that is claimed is of the archiving of now.
Claims(reason, covers) ==
    /\ archived /\ purge[archiving] = NoPurge /\ (reason = "RETENTION" => age >= RetentionDays)
    /\ purge' = [purge EXCEPT ![archiving] = Purge(reason, covers, age, Viewable # {})]

LEMMA ClaimTurns ==
    ASSUME RetentionTypes, NEW w \in Sweepers, SweepClaims(w) \/ AdminClaims(w)
    PROVE  /\ \E t : Turns(w, t) /\ t.step # "claim"
           /\ UNCHANGED <<warned, emails, breaks>>
           /\ \/ UNCHANGED purge
              \/ (sweeper[w].step = "claim" /\ Claims("RETENTION", sweeper[w].seen))
              \/ Claims("SUPER_ADMIN", sweeper[w].seen)
<1>1. 0 \in 0..MaxArchivings /\ {} \in SUBSET Photos
  BY Bounds
<1>2. ASSUME NEW key \in 0..MaxArchivings
      PROVE  Elsewhere(Task("run", key, {})) /\ Task("run", key, {}).seen = {} /\ Task("run", key, {}).step = "run"
  BY <1>1, TaskMade
<1>3. CASE SweepClaims(w)
  <2>1. Turns(w, Task("run", 0, {}))
    BY <1>1, <1>2, <1>3 DEF SweepClaims, Goes, Turns
  <2>2. /\ sweeper[w].step = "claim"
        /\ UNCHANGED purge \/ Claims("RETENTION", sweeper[w].seen)
    BY <1>3 DEF SweepClaims, ClaimPurge, Claims
  <2> QED
    BY <1>1, <1>2, <1>3, <2>1, <2>2 DEF SweepClaims
<1>4. CASE AdminClaims(w)
  <2>1. UNCHANGED purge \/ Claims("SUPER_ADMIN", sweeper[w].seen)
    BY <1>4 DEF AdminClaims, ClaimPurge, Claims
  <2>2. \E t : Turns(w, t) /\ t.step # "claim"
    <3>1. archiving \in 0..MaxArchivings
      BY DEF RetentionTypes
    <3>2. CASE archived /\ purge[archiving] = NoPurge
      <4>1. Turns(w, Task("run", archiving, {}))
        BY <1>2, <1>4, <3>1, <3>2 DEF AdminClaims, Goes, Turns
      <4> QED
        BY <1>2, <3>1, <4>1
    <3>3. CASE ~(archived /\ purge[archiving] = NoPurge)
      <4>1. Turns(w, Asleep)
        BY <1>4, <3>3, NothingYet DEF AdminClaims, Goes, Turns
      <4> QED
        BY <4>1, NothingYet
    <3> QED
      BY <3>2, <3>3
  <2> QED
    BY <1>4, <2>1, <2>2 DEF AdminClaims
<1> QED
  BY <1>3, <1>4

LEMMA OtherTurns ==
    ASSUME RetentionTypes, NEW w \in Sweepers, AdminBegins(w) \/ NothingToRun(w) \/ Crash(w)
    PROVE  /\ \E t : Turns(w, t)
           /\ UNCHANGED claimVars /\ breaks' \in 0..MaxBreaks
<1>1. 0 \in 0..MaxArchivings /\ Taken \in SUBSET Photos
  BY Bounds DEF Taken
<1>2. CASE AdminBegins(w)
  <2>1. Elsewhere(Task("order", 0, Taken)) /\ Task("order", 0, Taken).seen = Taken /\ Task("order", 0, Taken).step = "order"
    BY <1>1, TaskMade
  <2>2. Turns(w, Task("order", 0, Taken))
    BY <1>2, <2>1 DEF AdminBegins, Goes, Turns
  <2> QED
    BY <1>2, <2>2 DEF AdminBegins, RetentionTypes
<1>3. CASE NothingToRun(w)
  <2>1. Turns(w, Asleep)
    BY <1>3, NothingYet DEF NothingToRun, Goes, Turns
  <2> QED
    BY <1>3, <2>1 DEF NothingToRun, RetentionTypes
<1>4. CASE Crash(w)
  <2>1. Turns(w, Asleep)
    BY <1>4, NothingYet DEF Crash, Goes, Turns
  <2>2. breaks' \in 0..MaxBreaks
    BY <1>4, Bounds DEF Crash, RetentionTypes
  <2> QED
    BY <1>4, <2>1, <2>2 DEF Crash
<1> QED
  BY <1>2, <1>3, <1>4

\* Steps of one attempt: what they leave of everybody's task and of each purge.
SameClaims ==
    \A k \in Archivings :
        /\ purge'[k].reason = purge[k].reason /\ purge'[k].covers = purge[k].covers
        /\ purge'[k].since = purge[k].since /\ purge'[k].wanted = purge[k].wanted

SameTask(new, old) ==
    /\ new.step = old.step /\ new.key = old.key /\ new.seen = old.seen /\ new.todo = old.todo
    /\ new.mark = old.mark /\ new.failed = old.failed /\ new.count = old.count

LEMMA LeaseTaken ==
    ASSUME RetentionTypes, NEW w \in Sweepers, NEW k \in Archivings, TakeLease(w, k)
    PROVE  /\ purge[k] # NoPurge /\ ~purge[k].done /\ ~purge[k].leased
           /\ purge' \in [Archivings -> PurgeRows] /\ SameClaims
           /\ purge'[k].leased /\ \A j \in Archivings : /\ purge'[j].done = purge[j].done
                                                        /\ purge'[j].count = purge[j].count
                                                        /\ j # k => purge'[j] = purge[j]
           /\ sweeper' \in [Sweepers -> SweepRows] /\ \A v \in Sweepers \ {w} : sweeper'[v] = sweeper[v]
           /\ AtWork(sweeper'[w]) /\ sweeper'[w].step = "delete" /\ sweeper'[w].key = k /\ sweeper'[w].count = 0
           /\ sweeper'[w].seen = {} /\ sweeper'[w].holds /\ sweeper'[w].todo = Unpurged \cap purge[k].covers
           /\ UNCHANGED <<photoVars, clockVars, warned, emails, breaks>>
<1>1. /\ Unfinished(k) /\ purge' = [purge EXCEPT ![k].leased = TRUE]
      /\ sweeper' = [sweeper EXCEPT ![w] = [Task("delete", k, {}) EXCEPT !.todo = ItemsToPurge(k), !.holds = TRUE]]
      /\ UNCHANGED <<photoVars, clockVars, warned, emails, breaks>>
  BY DEF TakeLease, Goes
<1>2. purge \in [Archivings -> PurgeRows] /\ sweeper \in [Sweepers -> SweepRows] /\ Unpurged \in SUBSET Photos
  BY DEF RetentionTypes, Unpurged
<1>3. /\ purge' \in [Archivings -> PurgeRows] /\ SameClaims
      /\ purge'[k].leased /\ \A j \in Archivings : /\ purge'[j].done = purge[j].done
                                                   /\ purge'[j].count = purge[j].count
                                                   /\ j # k => purge'[j] = purge[j]
  BY <1>1, <1>2 DEF PurgeRows, SameClaims
<1> DEFINE t == [Task("delete", k, {}) EXCEPT !.todo = ItemsToPurge(k), !.holds = TRUE]
<1>4. /\ AtWork(t) /\ t.step = "delete" /\ t.key = k /\ t.count = 0 /\ t.seen = {} /\ t.holds
      /\ t.todo = Unpurged \cap purge[k].covers
  <2>1. k \in 0..MaxArchivings /\ 0 \in 0..MaxPhotos
    BY Bounds DEF Archivings
  <2>2. ItemsToPurge(k) = Unpurged \cap purge[k].covers /\ ItemsToPurge(k) \in SUBSET Photos
    BY <1>2 DEF ItemsToPurge
  <2>3. ASSUME NEW S \in SUBSET Photos
        PROVE  LET u == [Task("delete", k, {}) EXCEPT !.todo = S, !.holds = TRUE]
               IN  /\ u \in SweepRows /\ u.step = "delete" /\ u.key = k /\ u.count = 0 /\ u.seen = {}
                   /\ u.holds /\ u.todo = S
    BY <2>1 DEF Task, SweepRows
  <2>4. /\ t \in SweepRows /\ t.step = "delete" /\ t.key = k /\ t.count = 0 /\ t.seen = {}
        /\ t.holds /\ t.todo = ItemsToPurge(k)
    BY <2>2, <2>3, Zenon
  <2> QED
    BY <2>2, <2>4 DEF AtWork, AtFiles
<1>5. sweeper'[w] = t /\ \A v \in Sweepers \ {w} : sweeper'[v] = sweeper[v]
  BY <1>1, <1>2
<1>6. sweeper' \in [Sweepers -> SweepRows]
  BY <1>1, <1>2, <1>4 DEF AtWork
<1> QED
  BY <1>1, <1>3, <1>4, <1>5, <1>6 DEF Unfinished

\* One batch goes, or fails.
LEMMA BatchDeleted ==
    ASSUME RetentionTypes, NEW w \in Sweepers, NEW i \in Photos, DeleteBatch(w, i)
    PROVE  /\ AtWork(sweeper[w]) /\ sweeper[w].step = "delete" /\ i \in sweeper[w].todo
           /\ sweeper' \in [Sweepers -> SweepRows] /\ \A v \in Sweepers \ {w} : sweeper'[v] = sweeper[v]
           /\ AtWork(sweeper'[w]) /\ sweeper'[w].key = sweeper[w].key /\ sweeper'[w].seen = sweeper[w].seen
           /\ sweeper'[w].count = sweeper[w].count /\ sweeper'[w].holds = sweeper[w].holds
           /\ sweeper'[w].todo = sweeper[w].todo \ {i}
           /\ \/ /\ file' = file \ {i} /\ sweeper'[w].step = "mark" /\ sweeper'[w].mark = i
                 /\ sweeper'[w].failed = sweeper[w].failed
              \/ file' \in {file, file \ {i}} /\ sweeper'[w].step = "delete" /\ sweeper'[w].failed
           /\ UNCHANGED <<photo, uploading, restoring, clockVars, claimVars>> /\ breaks' \in 0..MaxBreaks
<1> DEFINE t == sweeper[w]
<1>1. /\ t.step = "delete" /\ i \in t.todo /\ UNCHANGED <<photo, uploading, restoring, clockVars, claimVars>>
      /\ \/ /\ file' = file \ {i} /\ UNCHANGED breaks
            /\ sweeper' = [sweeper EXCEPT ![w] = [t EXCEPT !.step = "mark", !.mark = i, !.todo = @ \ {i}]]
         \/ /\ breaks < MaxBreaks /\ breaks' = breaks + 1 /\ file' \in {file, file \ {i}}
            /\ sweeper' = [sweeper EXCEPT ![w] = [t EXCEPT !.failed = TRUE, !.todo = @ \ {i}]]
  BY DEF DeleteBatch, Goes
<1>2. sweeper \in [Sweepers -> SweepRows] /\ AtWork(t) /\ t \in SweepRows /\ breaks \in 0..MaxBreaks
  BY <1>1 DEF RetentionTypes, SweepFits, Elsewhere, AtFiles
<1>3. i \in 0..MaxPhotos
  BY Bounds DEF Photos
<1>4. CASE /\ file' = file \ {i} /\ UNCHANGED breaks
           /\ sweeper' = [sweeper EXCEPT ![w] = [t EXCEPT !.step = "mark", !.mark = i, !.todo = @ \ {i}]]
  <2> DEFINE u == [t EXCEPT !.step = "mark", !.mark = i, !.todo = @ \ {i}]
  <2>1. /\ AtWork(u) /\ u \in SweepRows /\ u.key = t.key /\ u.seen = t.seen /\ u.count = t.count /\ u.holds = t.holds
        /\ u.todo = t.todo \ {i} /\ u.step = "mark" /\ u.mark = i /\ u.failed = t.failed
    BY <1>2, <1>3 DEF AtWork, SweepRows, AtFiles
  <2>2. sweeper'[w] = u /\ \A v \in Sweepers \ {w} : sweeper'[v] = sweeper[v]
    BY <1>2, <1>4
  <2>3. sweeper' \in [Sweepers -> SweepRows]
    BY <1>2, <1>4, <2>1
  <2> QED
    BY <1>1, <1>2, <1>4, <2>1, <2>2, <2>3
<1>5. CASE /\ breaks < MaxBreaks /\ breaks' = breaks + 1 /\ file' \in {file, file \ {i}}
           /\ sweeper' = [sweeper EXCEPT ![w] = [t EXCEPT !.failed = TRUE, !.todo = @ \ {i}]]
  <2> DEFINE u == [t EXCEPT !.failed = TRUE, !.todo = @ \ {i}]
  <2>1. /\ AtWork(u) /\ u \in SweepRows /\ u.key = t.key /\ u.seen = t.seen /\ u.count = t.count /\ u.holds = t.holds
        /\ u.todo = t.todo \ {i} /\ u.step = "delete" /\ u.failed
    BY <1>1, <1>2 DEF AtWork, SweepRows, AtFiles
  <2>2. sweeper'[w] = u /\ \A v \in Sweepers \ {w} : sweeper'[v] = sweeper[v]
    BY <1>2, <1>5
  <2>3. sweeper' \in [Sweepers -> SweepRows] /\ breaks' \in 0..MaxBreaks
    BY <1>2, <1>5, <2>1, Bounds
  <2> QED
    BY <1>1, <1>2, <1>5, <2>1, <2>2, <2>3
<1> QED
  BY <1>1, <1>4, <1>5

LEMMA TaskMarked ==
    ASSUME NEW t \in SweepRows, NEW n \in Nat
    PROVE  LET v == [t EXCEPT !.step = "delete", !.mark = 0, !.count = n]
           IN  /\ v \in SweepRows /\ v.key = t.key /\ v.seen = t.seen /\ v.holds = t.holds
               /\ v.todo = t.todo /\ v.step = "delete" /\ v.failed = t.failed /\ v.count = n
<1> DEFINE v == [t EXCEPT !.step = "delete", !.mark = 0, !.count = n]
<1>0. 0 \in 0..MaxPhotos
  BY Bounds
<1>1. v \in SweepRows
  BY <1>0 DEF SweepRows
<1>2. v.key = t.key /\ v.seen = t.seen /\ v.todo = t.todo /\ v.step = "delete" /\ v.count = n
  BY DEF SweepRows
<1>3. v.holds = t.holds
  BY DEF SweepRows
<1>4. v.failed = t.failed
  BY DEF SweepRows
<1> QED
  BY <1>1, <1>2, <1>3, <1>4

LEMMA PurgeMarked ==
    ASSUME RetentionTypes, NEW w \in Sweepers, MarkPurged(w)
    PROVE  /\ AtWork(sweeper[w]) /\ sweeper[w].step = "mark"
           /\ photo' = IF sweeper[w].mark \in Unpurged THEN [photo EXCEPT ![sweeper[w].mark] = "purged"] ELSE photo
           /\ sweeper' \in [Sweepers -> SweepRows] /\ \A v \in Sweepers \ {w} : sweeper'[v] = sweeper[v]
           /\ AtWork(sweeper'[w]) /\ sweeper'[w].step = "delete" /\ sweeper'[w].key = sweeper[w].key
           /\ sweeper'[w].seen = sweeper[w].seen /\ sweeper'[w].todo = sweeper[w].todo
           /\ sweeper'[w].failed = sweeper[w].failed /\ sweeper'[w].holds = sweeper[w].holds
           /\ sweeper'[w].count = IF sweeper[w].mark \in Unpurged THEN sweeper[w].count + 1 ELSE sweeper[w].count
           /\ UNCHANGED <<file, uploading, restoring, clockVars, claimVars, breaks>>
<1> DEFINE t == sweeper[w]
           first == t.mark \in Unpurged
           u == [t EXCEPT !.step = "delete", !.mark = 0, !.count = IF first THEN @ + 1 ELSE @]
<1>1. /\ t.step = "mark" /\ photo' = IF first THEN [photo EXCEPT ![t.mark] = "purged"] ELSE photo
      /\ sweeper' = [sweeper EXCEPT ![w] = u]
      /\ UNCHANGED <<file, uploading, restoring, clockVars, claimVars, breaks>>
  BY DEF MarkPurged, Goes
<1>2. sweeper \in [Sweepers -> SweepRows] /\ AtWork(t) /\ t \in SweepRows
  BY <1>1 DEF RetentionTypes, SweepFits, Elsewhere, AtFiles
<1>3. /\ AtWork(u) /\ u \in SweepRows /\ u.key = t.key /\ u.seen = t.seen /\ u.holds = t.holds
      /\ u.todo = t.todo /\ u.step = "delete" /\ u.failed = t.failed
      /\ u.count = IF first THEN t.count + 1 ELSE t.count
  <2>1. ASSUME NEW n \in Nat
        PROVE  LET v == [t EXCEPT !.step = "delete", !.mark = 0, !.count = n]
               IN  /\ v \in SweepRows /\ v.key = t.key /\ v.seen = t.seen /\ v.holds = t.holds
                   /\ v.todo = t.todo /\ v.step = "delete" /\ v.failed = t.failed /\ v.count = n
    BY <1>2, TaskMarked
  <2> DEFINE n == IF first THEN t.count + 1 ELSE t.count
  <2>2. n \in Nat
    BY <1>2 DEF SweepRows
  <2>3. u = [t EXCEPT !.step = "delete", !.mark = 0, !.count = n]
    OBVIOUS
  <2> HIDE DEF n, u, t
  <2>4. /\ u \in SweepRows /\ u.key = t.key /\ u.seen = t.seen /\ u.holds = t.holds
        /\ u.todo = t.todo /\ u.step = "delete" /\ u.failed = t.failed /\ u.count = n
    BY <2>1, <2>2, <2>3, Zenon
  <2> QED
    BY <1>2, <2>4 DEF AtWork, AtFiles, n
<1>4. sweeper'[w] = u /\ \A v \in Sweepers \ {w} : sweeper'[v] = sweeper[v]
  BY <1>1, <1>2
<1>5. sweeper' \in [Sweepers -> SweepRows]
  BY <1>1, <1>2, <1>3
<1> QED
  BY <1>1, <1>2, <1>3, <1>4, <1>5

\* An attempt ends: its count is added, and nobody holds a lease of its purge.
LEMMA AttemptEnds ==
    ASSUME RetentionTypes, NEW w \in Sweepers, sweeper[w].step \in AtFiles, NEW complete \in BOOLEAN,
           Ends(w, complete)
    PROVE  /\ AtWork(sweeper[w])
           /\ purge' \in [Archivings -> PurgeRows] /\ SameClaims
           /\ \A j \in Archivings \ {sweeper[w].key} : purge'[j] = purge[j]
           /\ purge'[sweeper[w].key].done = complete
           /\ purge'[sweeper[w].key].count = purge[sweeper[w].key].count + sweeper[w].count
           /\ sweeper' \in [Sweepers -> SweepRows] /\ sweeper'[w] = Asleep
           /\ \A v \in Sweepers \ {w} :
                 /\ SameTask(sweeper'[v], sweeper[v]) /\ SweepFits(sweeper'[v])
                 /\ sweeper'[v].holds => sweeper[v].holds /\ sweeper[v].key # sweeper[w].key
           /\ UNCHANGED <<photoVars, clockVars, warned, emails>>
<1> DEFINE t == sweeper[w]
<1>1. /\ purge' = [purge EXCEPT ![t.key].leased = FALSE, ![t.key].done = complete,
                                ![t.key].count = @ + t.count]
      /\ sweeper' = [v \in Sweepers |-> IF v = w THEN Asleep
                                        ELSE IF sweeper[v].key = t.key THEN [sweeper[v] EXCEPT !.holds = FALSE]
                                        ELSE sweeper[v]]
      /\ UNCHANGED <<photoVars, clockVars, warned, emails>>
  BY DEF Ends
<1>2. /\ purge \in [Archivings -> PurgeRows] /\ sweeper \in [Sweepers -> SweepRows]
      /\ AtWork(t) /\ t.key \in Archivings /\ t.count \in Nat
      /\ \A v \in Sweepers : SweepFits(sweeper[v])
  BY DEF RetentionTypes, SweepFits, Elsewhere, AtWork, SweepRows
<1>3. ASSUME NEW p \in PurgeRows, NEW n \in Nat
      PROVE  LET q == [p EXCEPT !.leased = FALSE, !.done = complete, !.count = n]
             IN  /\ q \in PurgeRows /\ q.reason = p.reason /\ q.covers = p.covers /\ q.since = p.since
                 /\ q.wanted = p.wanted /\ q.done = complete /\ q.count = n
  BY DEF PurgeRows
<1>4. /\ purge' \in [Archivings -> PurgeRows] /\ SameClaims
      /\ \A j \in Archivings \ {t.key} : purge'[j] = purge[j]
      /\ purge'[t.key].done = complete /\ purge'[t.key].count = purge[t.key].count + t.count
  <2> DEFINE q == [purge[t.key] EXCEPT !.leased = FALSE, !.done = complete, !.count = purge[t.key].count + t.count]
  <2>1. /\ \A j \in Archivings \ {t.key} : purge'[j] = purge[j]
        /\ purge' = [j \in Archivings |-> purge'[j]]
    BY <1>1, <1>2
  <2>3. purge'[t.key] = q
    BY <1>1, <1>2
  <2>0. purge[t.key] \in PurgeRows /\ purge[t.key].count + t.count \in Nat
    BY <1>2 DEF PurgeRows
  <2>2. /\ q \in PurgeRows /\ q.reason = purge[t.key].reason /\ q.covers = purge[t.key].covers
        /\ q.since = purge[t.key].since /\ q.wanted = purge[t.key].wanted
        /\ q.done = complete /\ q.count = purge[t.key].count + t.count
    BY <2>0, <1>3, Zenon
  <2> HIDE DEF q, t
  <2> QED
    BY <1>2, <2>1, <2>2, <2>3 DEF SameClaims
<1>5. ASSUME NEW v \in Sweepers \ {w}
      PROVE  /\ sweeper'[v] \in SweepRows /\ SameTask(sweeper'[v], sweeper[v])
             /\ SweepFits(sweeper'[v])
             /\ sweeper'[v].holds => sweeper[v].holds /\ sweeper[v].key # t.key
  <2>1. sweeper'[v] = IF sweeper[v].key = t.key THEN [sweeper[v] EXCEPT !.holds = FALSE] ELSE sweeper[v]
    BY <1>1
  <2>2. sweeper[v] \in SweepRows /\ SweepFits(sweeper[v])
    BY <1>2
  <2> HIDE DEF t
  <2>3. CASE sweeper[v].key = t.key
    <3>1. sweeper'[v] = [sweeper[v] EXCEPT !.holds = FALSE]
      BY <2>1, <2>3
    <3> QED
      BY <2>2, <3>1 DEF SweepRows, SameTask, SweepFits, Elsewhere, AtWork
  <2>4. CASE sweeper[v].key # t.key
    BY <2>1, <2>2, <2>4 DEF SameTask
  <2> QED
    BY <2>3, <2>4
<1>6. sweeper'[w] = Asleep /\ sweeper' \in [Sweepers -> SweepRows]
  <2>1. sweeper'[w] = Asleep /\ Asleep \in SweepRows
    BY <1>1, NothingYet DEF Elsewhere
  <2>2. sweeper' = [v \in Sweepers |-> sweeper'[v]]
    BY <1>1
  <2> QED
    BY <1>5, <2>1, <2>2
<1> QED
  BY <1>1, <1>2, <1>4, <1>5, <1>6

LEMMA LeaseEnds ==
    ASSUME RetentionTypes, NEW k \in Archivings, LeaseRunsOut(k)
    PROVE  /\ purge[k] # NoPurge
           /\ purge' \in [Archivings -> PurgeRows] /\ SameClaims
           /\ \A j \in Archivings : /\ purge'[j].done = purge[j].done /\ purge'[j].count = purge[j].count
                                    /\ j # k => purge'[j] = purge[j]
           /\ sweeper' \in [Sweepers -> SweepRows]
           /\ \A v \in Sweepers :
                 /\ SameTask(sweeper'[v], sweeper[v]) /\ SweepFits(sweeper'[v])
                 /\ sweeper'[v].holds => sweeper[v].holds /\ sweeper[v].key # k
           /\ UNCHANGED <<photoVars, clockVars, warned, emails>> /\ breaks' \in 0..MaxBreaks
<1>1. /\ purge[k].leased /\ purge' = [purge EXCEPT ![k].leased = FALSE]
      /\ sweeper' = [v \in Sweepers |-> IF sweeper[v].key = k THEN [sweeper[v] EXCEPT !.holds = FALSE]
                                        ELSE sweeper[v]]
      /\ UNCHANGED <<photoVars, clockVars, warned, emails>>
      /\ (breaks < MaxBreaks /\ breaks' = breaks + 1) \/ UNCHANGED breaks
  BY DEF LeaseRunsOut
<1>2. /\ purge \in [Archivings -> PurgeRows] /\ sweeper \in [Sweepers -> SweepRows]
      /\ \A v \in Sweepers : SweepFits(sweeper[v])
      /\ breaks \in 0..MaxBreaks
  BY DEF RetentionTypes
<1>3. purge[k] # NoPurge
  BY <1>1, NothingYet
<1>4. /\ purge' \in [Archivings -> PurgeRows] /\ SameClaims
      /\ \A j \in Archivings : /\ purge'[j].done = purge[j].done /\ purge'[j].count = purge[j].count
                               /\ j # k => purge'[j] = purge[j]
  BY <1>1, <1>2 DEF PurgeRows, SameClaims
<1>5. ASSUME NEW v \in Sweepers
      PROVE  /\ sweeper'[v] \in SweepRows /\ SameTask(sweeper'[v], sweeper[v])
             /\ SweepFits(sweeper'[v])
             /\ sweeper'[v].holds => sweeper[v].holds /\ sweeper[v].key # k
  <2>1. sweeper'[v] = IF sweeper[v].key = k THEN [sweeper[v] EXCEPT !.holds = FALSE] ELSE sweeper[v]
    BY <1>1
  <2>2. sweeper[v] \in SweepRows /\ SweepFits(sweeper[v])
    BY <1>2
  <2>3. CASE sweeper[v].key = k
    <3>1. sweeper'[v] = [sweeper[v] EXCEPT !.holds = FALSE]
      BY <2>1, <2>3
    <3> QED
      BY <2>2, <3>1 DEF SweepRows, SameTask, SweepFits, Elsewhere, AtWork
  <2>4. CASE sweeper[v].key # k
    BY <2>1, <2>2, <2>4 DEF SameTask
  <2> QED
    BY <2>3, <2>4
<1>6. sweeper' \in [Sweepers -> SweepRows]
  <2>1. sweeper' = [v \in Sweepers |-> sweeper'[v]]
    BY <1>1
  <2> QED
    BY <1>5, <2>1
<1>7. breaks' \in 0..MaxBreaks
  BY <1>1, <1>2, Bounds
<1> QED
  BY <1>1, <1>3, <1>4, <1>5, <1>6, <1>7

\* A save inserts the next item, with its file.
LEMMA SaveInserts ==
    ASSUME RetentionTypes, SaveInsert
    PROVE  \E i \in Photos :
              /\ photo[i] = "none" /\ i \notin Taken
              /\ \E st \in {"live", "kept"} : photo' = [photo EXCEPT ![i] = st]
              /\ file' = file \cup {i} /\ ~uploading' /\ Taken' = Taken \cup {i} /\ Numbered'
              /\ UNCHANGED <<restoring, clockVars, claimVars, sweeper, breaks>>
<1>1. PICK n \in 0..MaxPhotos : Taken = 1..n
  BY DEF RetentionTypes, Numbered
<1>2. Cardinality(Taken) = n
  <2>1. \A m \in Nat : Cardinality(1..m) = m
    BY FS_Interval
  <2> QED
    BY <1>1, <2>1, Bounds
<1>3. uploading /\ Taken # Photos
  BY DEF SaveInsert, RetentionTypes, Numbered
<1>4. n + 1 \in Photos /\ n + 1 \notin Taken /\ n \in Nat
  BY <1>1, <1>3, Bounds DEF Photos
<1>5. /\ \E st \in {"live", "kept"} : photo' = [photo EXCEPT ![n + 1] = st]
      /\ file' = file \cup {n + 1} /\ uploading' = FALSE
      /\ UNCHANGED <<restoring, clockVars, claimVars, sweeper, breaks>>
  BY <1>2 DEF SaveInsert
<1>6. Taken' = Taken \cup {n + 1}
  <2>1. \A j \in Photos : photo'[j] # "none" <=> (photo[j] # "none" \/ j = n + 1)
    BY <1>4, <1>5 DEF RetentionTypes
  <2> QED
    BY <1>4, <2>1 DEF Taken
<1>7. Numbered'
  <2>1. Taken \cup {n + 1} = 1..(n + 1) /\ n + 1 \in 0..MaxPhotos
    BY <1>1, <1>4, Bounds DEF Photos
  <2> QED
    BY <1>5, <1>6, <2>1 DEF Numbered
<1>8. photo[n + 1] = "none"
  BY <1>4 DEF Taken
<1> QED
  BY <1>4, <1>5, <1>6, <1>7, <1>8

\* Every other step leaves which items there are.
LEMMA TakenStays ==
    ASSUME RetentionTypes, \A i \in Photos : photo'[i] = "none" <=> photo[i] = "none",
           uploading' => uploading \/ Taken # Photos
    PROVE  Taken' = Taken /\ Numbered'
<1>1. Taken' = Taken
  BY DEF Taken
<1> QED
  BY <1>1 DEF RetentionTypes, Numbered

\* What the steps of the album and of the clock leave of everything else.
AlbumSteps == SaveRead \/ SaveInsert \/ RestoreWrite \/ \E i \in Photos : Curate(i) \/ RestoreRead(i)

LEMMA AlbumStepTypes ==
    ASSUME RetentionTypes, AlbumSteps
    PROVE  RetentionTypes' /\ UNCHANGED <<clockVars, claimVars, sweeper, breaks>>
<1>t. /\ photo \in [Photos -> {"none", "live", "kept", "purged", "unhid"}]
      /\ file \in SUBSET Photos /\ uploading \in BOOLEAN /\ restoring \in 0..MaxPhotos
  BY DEF RetentionTypes
<1>0. ASSUME UNCHANGED <<clockVars, claimVars, sweeper, breaks>>, Numbered',
             photo' \in [Photos -> {"none", "live", "kept", "purged", "unhid"}],
             file' \in SUBSET Photos, uploading' \in BOOLEAN, restoring' \in 0..MaxPhotos
      PROVE  RetentionTypes'
  BY <1>0 DEF RetentionTypes, clockVars, claimVars
<1>1. CASE SaveRead
  <2>1. UNCHANGED <<photo, file, restoring, clockVars, claimVars, sweeper, breaks>> /\ uploading' /\ Taken # Photos
    BY <1>1 DEF SaveRead
  <2> QED
    BY <1>0, <1>t, <2>1, TakenStays
<1>2. CASE SaveInsert
  <2>1. PICK i \in Photos : /\ \E st \in {"live", "kept"} : photo' = [photo EXCEPT ![i] = st]
                            /\ file' = file \cup {i} /\ ~uploading' /\ Numbered'
                            /\ UNCHANGED <<restoring, clockVars, claimVars, sweeper, breaks>>
    BY <1>2, SaveInserts
  <2>2. uploading' \in BOOLEAN
    BY <1>2 DEF SaveInsert
  <2>3. /\ photo' \in [Photos -> {"none", "live", "kept", "purged", "unhid"}]
        /\ file' \in SUBSET Photos /\ restoring' \in 0..MaxPhotos
    BY <1>t, <2>1
  <2> QED
    BY <1>0, <2>1, <2>2, <2>3
<1>3. CASE RestoreWrite
  <2>1. /\ restoring \in Photos /\ restoring' = 0 /\ UNCHANGED <<file, uploading, clockVars, claimVars, sweeper, breaks>>
        /\ photo' = [photo EXCEPT ![restoring] = IF @ = "purged" THEN "unhid" ELSE IF @ = "kept" THEN "live" ELSE @]
    BY <1>t, <1>3, Bounds DEF RestoreWrite, Photos
  <2>2. /\ photo' \in [Photos -> {"none", "live", "kept", "purged", "unhid"}]
        /\ \A i \in Photos : photo'[i] = "none" <=> photo[i] = "none"
    BY <1>t, <2>1
  <2>3. restoring' \in 0..MaxPhotos
    BY <2>1, Bounds
  <2> QED
    BY <1>0, <1>t, <2>1, <2>2, <2>3, TakenStays
<1>4. ASSUME NEW i \in Photos, Curate(i)
      PROVE  RetentionTypes' /\ UNCHANGED <<clockVars, claimVars, sweeper, breaks>>
  <2>1. /\ photo[i] \in {"live", "kept"} /\ UNCHANGED <<file, uploading, restoring, clockVars, claimVars, sweeper, breaks>>
        /\ photo' = [photo EXCEPT ![i] = IF @ = "live" THEN "kept" ELSE "live"]
    BY <1>4 DEF Curate
  <2>2. /\ photo' \in [Photos -> {"none", "live", "kept", "purged", "unhid"}]
        /\ \A j \in Photos : photo'[j] = "none" <=> photo[j] = "none"
    BY <1>t, <2>1
  <2> QED
    BY <1>0, <1>t, <2>1, <2>2, TakenStays
<1>5. ASSUME NEW i \in Photos, RestoreRead(i)
      PROVE  RetentionTypes' /\ UNCHANGED <<clockVars, claimVars, sweeper, breaks>>
  <2>1. restoring' = i /\ UNCHANGED <<photo, file, uploading, clockVars, claimVars, sweeper, breaks>>
    BY <1>5 DEF RestoreRead
  <2>2. restoring' \in 0..MaxPhotos
    BY <2>1, Bounds DEF Photos
  <2> QED
    BY <1>0, <1>t, <2>1, <2>2, TakenStays
<1>6. UNCHANGED <<clockVars, claimVars, sweeper, breaks>>
  <2>1. CASE SaveInsert
    BY <2>1, SaveInserts
  <2> QED
    BY <1>4, <1>5, <2>1 DEF AlbumSteps, SaveRead, RestoreWrite
<1> QED
  BY <1>1, <1>2, <1>3, <1>4, <1>5, <1>6 DEF AlbumSteps

ClockSteps == ArchiveRead \/ ArchiveEvent \/ RestoreEvent \/ DayPasses

\* A day more, of the time since the event was archived and since each reminder.
LEMMA DayIs ==
    ASSUME RetentionTypes, DayPasses
    PROVE  /\ archived /\ Idle /\ age' \in 0..RetentionDays
           /\ warned' \in [Archivings -> (0..ReminderDays) \cup {Never}]
           /\ \A k \in Archivings : /\ warned'[k] = Never <=> warned[k] = Never
                                    /\ warned[k] = ReminderDays => warned'[k] = ReminderDays
           /\ UNCHANGED <<archived, archiving, archiver, photoVars, emails, purge, sweeper, breaks>>
<1>1. /\ archived /\ Idle /\ age' = IF age < RetentionDays THEN age + 1 ELSE age
      /\ warned' = [k \in Archivings |-> IF warned[k] # Never /\ warned[k] < ReminderDays
                                         THEN warned[k] + 1 ELSE warned[k]]
      /\ UNCHANGED <<archived, archiving, archiver, photoVars, emails, purge, sweeper, breaks>>
  BY DEF DayPasses
<1>2. age' \in 0..RetentionDays
  BY <1>1, Bounds DEF RetentionTypes
<1>3. ASSUME NEW k \in Archivings
      PROVE  /\ warned'[k] \in (0..ReminderDays) \cup {Never}
             /\ warned'[k] = Never <=> warned[k] = Never
             /\ warned[k] = ReminderDays => warned'[k] = ReminderDays
  <2>1. warned[k] \in (0..ReminderDays) \cup {Never}
    BY DEF RetentionTypes
  <2>2. warned'[k] = IF warned[k] # Never /\ warned[k] < ReminderDays THEN warned[k] + 1 ELSE warned[k]
    BY <1>1
  <2>3. CASE warned[k] = Never
    BY <2>2, <2>3, Bounds
  <2>4. CASE warned[k] \in 0..ReminderDays
    <3>1. warned[k] # Never /\ warned'[k] \in 0..ReminderDays
      BY <2>2, <2>4, Bounds
    <3>2. warned'[k] # Never
      BY <3>1, Bounds
    <3> QED
      BY <2>2, <2>4, <3>1, <3>2, Bounds
  <2> QED
    BY <2>1, <2>3, <2>4
<1> QED
  BY <1>1, <1>2, <1>3

LEMMA ClockStepTypes ==
    ASSUME RetentionTypes, ClockSteps
    PROVE  RetentionTypes' /\ UNCHANGED <<photoVars, emails, purge, sweeper, breaks>>
<1>n. ASSUME UNCHANGED photoVars PROVE Numbered'
  BY <1>n, TakenStays DEF photoVars
<1>t. archiving \in 0..MaxArchivings /\ age \in 0..RetentionDays /\ archiver \in BOOLEAN
  BY DEF RetentionTypes
<1>0. ASSUME UNCHANGED <<photoVars, emails, purge, sweeper, breaks>>, archived' \in BOOLEAN, archiver' \in BOOLEAN,
             archiving' \in 0..MaxArchivings, age' \in 0..RetentionDays, archived' => archiving' \in Archivings,
             warned' \in [Archivings -> (0..ReminderDays) \cup {Never}]
      PROVE  RetentionTypes'
  BY <1>0, <1>n DEF RetentionTypes, photoVars
<1>1. CASE ArchiveRead
  BY <1>0, <1>1 DEF ArchiveRead, RetentionTypes, claimVars
<1>2. CASE ArchiveEvent
  <2>1. /\ archiving < MaxArchivings /\ archived' = TRUE /\ archiving' = archiving + 1 /\ age' = 0
        /\ archiver' = FALSE /\ UNCHANGED <<photoVars, warned, emails, purge, sweeper, breaks>>
    BY <1>2 DEF ArchiveEvent, claimVars
  <2>2. archiving' \in Archivings /\ archiving' \in 0..MaxArchivings /\ age' \in 0..RetentionDays
    BY <1>t, <2>1, Bounds DEF Archivings
  <2> QED
    BY <1>0, <2>1, <2>2 DEF RetentionTypes
<1>3. CASE RestoreEvent
  <2>1. /\ archived' = FALSE /\ age' = 0
        /\ UNCHANGED <<archiving, archiver, photoVars, warned, emails, purge, sweeper, breaks>>
    BY <1>3 DEF RestoreEvent, claimVars
  <2>0. archived' \in BOOLEAN /\ archiver' \in BOOLEAN
    BY <1>t, <2>1
  <2>2. age' \in 0..RetentionDays /\ archiving' \in 0..MaxArchivings
    BY <1>t, <2>1, Bounds
  <2>3. warned' \in [Archivings -> (0..ReminderDays) \cup {Never}] /\ ~archived'
    BY <2>1 DEF RetentionTypes
  <2> QED
    BY <1>0, <2>0, <2>1, <2>2, <2>3
<1>4. CASE DayPasses
  BY <1>0, <1>4, DayIs DEF RetentionTypes
<1> QED
  BY <1>1, <1>2, <1>3, <1>4 DEF ClockSteps, ArchiveRead, ArchiveEvent, RestoreEvent, claimVars

\* The reminder is sent by whoever claims it.
LEMMA RemindIs ==
    ASSUME RetentionTypes, NEW w \in Sweepers, Remind(w)
    PROVE  /\ warned' \in [Archivings -> (0..ReminderDays) \cup {Never}] /\ emails' \in [Archivings -> Nat]
           /\ \A k \in Archivings : /\ warned[k] # Never => warned'[k] = warned[k] /\ emails'[k] = emails[k]
                                    /\ warned'[k] = Never => emails'[k] = emails[k]
                                    /\ emails'[k] \in {emails[k], emails[k] + 1}
<1> DEFINE n == sweeper[w].key
<1>1. /\ warned' = [warned EXCEPT ![n] = IF @ = Never THEN 0 ELSE @]
      /\ emails' = [emails EXCEPT ![n] = IF warned[n] = Never THEN @ + 1 ELSE @]
  BY DEF Remind
<1>2. warned \in [Archivings -> (0..ReminderDays) \cup {Never}] /\ emails \in [Archivings -> Nat]
  BY DEF RetentionTypes
<1> HIDE DEF n
<1>3. 0 \in 0..ReminderDays /\ 0 # Never
  BY Bounds
<1>4. warned' \in [Archivings -> (0..ReminderDays) \cup {Never}]
  BY <1>1, <1>2, <1>3
<1>5. emails' \in [Archivings -> Nat]
  <2>1. ASSUME NEW k \in Archivings PROVE emails'[k] \in Nat
    BY <1>1, <1>2
  <2>2. emails' = [k \in Archivings |-> emails'[k]]
    BY <1>1, <1>2
  <2> QED
    BY <2>1, <2>2
<1>6. ASSUME NEW k \in Archivings
      PROVE  /\ warned[k] # Never => warned'[k] = warned[k] /\ emails'[k] = emails[k]
             /\ warned'[k] = Never => emails'[k] = emails[k]
             /\ emails'[k] \in {emails[k], emails[k] + 1}
  <2>1. CASE k = n
    BY <1>1, <1>2, <1>3, <2>1
  <2>2. CASE k # n
    BY <1>1, <1>2, <2>2
  <2> QED
    BY <2>1, <2>2
<1> QED
  BY <1>4, <1>5, <1>6

LEMMA ClaimedIs ==
    ASSUME RetentionTypes, NEW reason \in {"RETENTION", "SUPER_ADMIN"}, NEW covers \in SUBSET Photos,
           Claims(reason, covers)
    PROVE  /\ archiving \in Archivings /\ purge[archiving] = NoPurge
           /\ purge' \in [Archivings -> PurgeRows]
           /\ \A k \in Archivings \ {archiving} : purge'[k] = purge[k]
           /\ LET p == purge'[archiving]
              IN  /\ p.reason = reason /\ p.covers = covers /\ p.since = age /\ p.wanted = (Viewable # {})
                  /\ ~p.done /\ p.count = 0
<1>1. /\ archived /\ purge[archiving] = NoPurge
      /\ purge' = [purge EXCEPT ![archiving] = Purge(reason, covers, age, Viewable # {})]
  BY DEF Claims
<1>2. archiving \in Archivings /\ age \in 0..RetentionDays /\ purge \in [Archivings -> PurgeRows]
  BY <1>1 DEF RetentionTypes
<1>3. (Viewable # {}) \in BOOLEAN
  OBVIOUS
<1> DEFINE p == Purge(reason, covers, age, Viewable # {})
<1>4. /\ p \in PurgeRows /\ p.reason = reason /\ p.covers = covers /\ p.since = age
      /\ p.wanted = (Viewable # {}) /\ ~p.done /\ p.count = 0
  <2>1. ASSUME NEW wanted \in BOOLEAN
        PROVE  LET q == Purge(reason, covers, age, wanted)
               IN  /\ q \in PurgeRows /\ q.reason = reason /\ q.covers = covers /\ q.since = age
                   /\ q.wanted = wanted /\ ~q.done /\ q.count = 0
    BY <1>2, PurgeMade
  <2> QED
    BY <1>3, <2>1, Zenon
<1> HIDE DEF p
<1>5. purge' = [purge EXCEPT ![archiving] = p]
  BY <1>1 DEF p
<1>6. purge'[archiving] = p /\ \A k \in Archivings \ {archiving} : purge'[k] = purge[k]
  BY <1>2, <1>5
<1>7. purge' \in [Archivings -> PurgeRows]
  BY <1>2, <1>4, <1>5
<1> QED
  BY <1>1, <1>2, <1>4, <1>6, <1>7

\* The steps of one sweep or super admin's request.
SweepSteps(w) ==
    \/ SweepBegins(w) \/ Remind(w) \/ SweepClaims(w) \/ AdminBegins(w) \/ AdminClaims(w)
    \/ NothingToRun(w) \/ Crash(w)

LEMMA TurnTypes ==
    ASSUME RetentionTypes, NEW w \in Sweepers, SweepSteps(w)
    PROVE  RetentionTypes'
<1>0. ASSUME NEW t, Turns(w, t), warned' \in [Archivings -> (0..ReminderDays) \cup {Never}],
             emails' \in [Archivings -> Nat], purge' \in [Archivings -> PurgeRows], breaks' \in 0..MaxBreaks
      PROVE  RetentionTypes'
  <2>1. sweeper' \in [Sweepers -> SweepRows] /\ \A v \in Sweepers : SweepFits(sweeper'[v])
    BY <1>0 DEF Turns, RetentionTypes, Elsewhere, SweepFits
  <2>2. Numbered'
    BY <1>0, TakenStays DEF Turns, photoVars
  <2> QED
    BY <1>0, <2>1, <2>2 DEF Turns, RetentionTypes, photoVars, clockVars
<1>t. /\ warned \in [Archivings -> (0..ReminderDays) \cup {Never}] /\ emails \in [Archivings -> Nat]
      /\ purge \in [Archivings -> PurgeRows] /\ breaks \in 0..MaxBreaks /\ sweeper[w].seen \in SUBSET Photos
  BY DEF RetentionTypes, SweepRows
<1>1. CASE SweepBegins(w)
  <2>1. (\E t : Turns(w, t)) /\ UNCHANGED <<warned, emails, purge, breaks>>
    BY <1>1, BeginsTurns DEF claimVars
  <2> QED
    BY <1>0, <1>t, <2>1
<1>2. CASE Remind(w)
  <2>1. (\E t : Turns(w, t)) /\ UNCHANGED <<purge, breaks>>
    BY <1>2, RemindTurns
  <2> QED
    BY <1>0, <1>2, <1>t, <2>1, RemindIs
<1>3. CASE SweepClaims(w) \/ AdminClaims(w)
  <2>1. /\ \E t : Turns(w, t)
        /\ UNCHANGED <<warned, emails, breaks>>
        /\ \/ UNCHANGED purge
           \/ \E reason \in {"RETENTION", "SUPER_ADMIN"} : Claims(reason, sweeper[w].seen)
    BY <1>3, ClaimTurns
  <2>2. purge' \in [Archivings -> PurgeRows]
    BY <1>t, <2>1, ClaimedIs
  <2> QED
    BY <1>0, <1>t, <2>1, <2>2
<1>4. CASE AdminBegins(w) \/ NothingToRun(w) \/ Crash(w)
  <2>1. (\E t : Turns(w, t)) /\ UNCHANGED <<warned, emails, purge>> /\ breaks' \in 0..MaxBreaks
    BY <1>4, OtherTurns DEF claimVars
  <2> QED
    BY <1>0, <1>t, <2>1
<1> QED
  BY <1>1, <1>2, <1>3, <1>4 DEF SweepSteps

LEMMA AttemptEndsIn ==
    ASSUME RetentionTypes, NEW w \in Sweepers, FinishAttempt(w) \/ DatabaseFails(w)
    PROVE  /\ \E complete \in BOOLEAN :
                 /\ sweeper[w].step \in AtFiles /\ Ends(w, complete)
                 /\ complete => sweeper[w].step = "delete" /\ sweeper[w].todo = {} /\ ~sweeper[w].failed
           /\ breaks' \in 0..MaxBreaks
<1>1. CASE FinishAttempt(w)
  <2>1. /\ sweeper[w].step = "delete" /\ sweeper[w].todo = {} /\ Ends(w, ~sweeper[w].failed) /\ UNCHANGED breaks
        /\ (~sweeper[w].failed) \in BOOLEAN
    BY <1>1 DEF FinishAttempt
  <2>2. "delete" \in AtFiles
    BY DEF AtFiles
  <2>3. breaks' \in 0..MaxBreaks
    BY <2>1 DEF RetentionTypes
  <2> QED
    BY <2>1, <2>2, <2>3, Zenon
<1>2. CASE DatabaseFails(w)
  <2>1. sweeper[w].step \in AtFiles /\ Ends(w, FALSE) /\ breaks < MaxBreaks /\ breaks' = breaks + 1
    BY <1>2 DEF DatabaseFails, AtFiles
  <2>2. breaks' \in 0..MaxBreaks
    BY <2>1, Bounds DEF RetentionTypes
  <2>3. FALSE \in BOOLEAN
    OBVIOUS
  <2> QED
    BY <2>1, <2>2, <2>3, Zenon
<1> QED
  BY <1>1, <1>2

\* The steps of an attempt.
AttemptSteps(w) ==
    \/ MarkPurged(w) \/ FinishAttempt(w) \/ DatabaseFails(w)
    \/ \E k \in Archivings : TakeLease(w, k)
    \/ \E i \in Photos : DeleteBatch(w, i)

LEMMA AttemptTypes ==
    ASSUME RetentionTypes, NEW w \in Sweepers, AttemptSteps(w)
    PROVE  RetentionTypes'
<1>t. /\ photo \in [Photos -> {"none", "live", "kept", "purged", "unhid"}] /\ file \in SUBSET Photos
      /\ \A v \in Sweepers : SweepFits(sweeper[v])
  BY DEF RetentionTypes
<1>0. ASSUME UNCHANGED <<uploading, restoring, clockVars, warned, emails>>, file' \in SUBSET Photos,
             photo' \in [Photos -> {"none", "live", "kept", "purged", "unhid"}],
             \A i \in Photos : photo'[i] = "none" <=> photo[i] = "none",
             purge' \in [Archivings -> PurgeRows], breaks' \in 0..MaxBreaks,
             sweeper' \in [Sweepers -> SweepRows], \A v \in Sweepers : SweepFits(sweeper'[v])
      PROVE  RetentionTypes'
  BY <1>0, TakenStays DEF RetentionTypes, clockVars
<1>1. CASE MarkPurged(w)
  <2>1. /\ photo' = IF sweeper[w].mark \in Unpurged THEN [photo EXCEPT ![sweeper[w].mark] = "purged"] ELSE photo
        /\ sweeper' \in [Sweepers -> SweepRows] /\ AtWork(sweeper'[w])
        /\ \A v \in Sweepers \ {w} : sweeper'[v] = sweeper[v]
        /\ UNCHANGED <<file, uploading, restoring, clockVars, warned, emails, purge, breaks>>
    BY <1>1, PurgeMarked DEF claimVars
  <2>2. /\ photo' \in [Photos -> {"none", "live", "kept", "purged", "unhid"}]
        /\ \A i \in Photos : photo'[i] = "none" <=> photo[i] = "none"
    BY <1>t, <2>1 DEF Unpurged
  <2>3. \A v \in Sweepers : SweepFits(sweeper'[v])
    BY <1>t, <2>1 DEF SweepFits
  <2> QED
    BY <1>0, <1>t, <2>1, <2>2, <2>3 DEF RetentionTypes
<1>2. CASE FinishAttempt(w) \/ DatabaseFails(w)
  <2>1. PICK complete \in BOOLEAN : sweeper[w].step \in AtFiles /\ Ends(w, complete)
    BY <1>2, AttemptEndsIn
  <2>2. /\ purge' \in [Archivings -> PurgeRows] /\ sweeper' \in [Sweepers -> SweepRows]
        /\ sweeper'[w] = Asleep /\ \A v \in Sweepers \ {w} : SweepFits(sweeper'[v])
        /\ UNCHANGED <<photoVars, clockVars, warned, emails>>
    BY <2>1, AttemptEnds
  <2>3. \A v \in Sweepers : SweepFits(sweeper'[v])
    BY <2>2, NothingYet DEF SweepFits
  <2>4. breaks' \in 0..MaxBreaks
    BY <1>2, AttemptEndsIn
  <2> QED
    BY <1>0, <1>t, <2>2, <2>3, <2>4 DEF photoVars
<1>3. ASSUME NEW k \in Archivings, TakeLease(w, k) PROVE RetentionTypes'
  <2>1. /\ purge' \in [Archivings -> PurgeRows] /\ sweeper' \in [Sweepers -> SweepRows] /\ AtWork(sweeper'[w])
        /\ \A v \in Sweepers \ {w} : sweeper'[v] = sweeper[v]
        /\ UNCHANGED <<photoVars, clockVars, warned, emails, breaks>>
    BY <1>3, LeaseTaken
  <2>2. \A v \in Sweepers : SweepFits(sweeper'[v])
    BY <1>t, <2>1 DEF SweepFits
  <2> QED
    BY <1>0, <1>t, <2>1, <2>2 DEF RetentionTypes, photoVars
<1>4. ASSUME NEW i \in Photos, DeleteBatch(w, i) PROVE RetentionTypes'
  <2>1. /\ sweeper' \in [Sweepers -> SweepRows] /\ AtWork(sweeper'[w])
        /\ \A v \in Sweepers \ {w} : sweeper'[v] = sweeper[v]
        /\ file' \in {file, file \ {i}} /\ breaks' \in 0..MaxBreaks
        /\ UNCHANGED <<photo, uploading, restoring, clockVars, warned, emails, purge>>
    BY <1>4, BatchDeleted DEF claimVars
  <2>2. \A v \in Sweepers : SweepFits(sweeper'[v])
    BY <1>t, <2>1 DEF SweepFits
  <2>3. file' \in SUBSET Photos
    BY <1>t, <2>1
  <2> QED
    BY <1>0, <1>t, <2>1, <2>2, <2>3 DEF RetentionTypes
<1> QED
  BY <1>1, <1>2, <1>3, <1>4 DEF AttemptSteps

LEMMA LeaseTypes ==
    ASSUME RetentionTypes, NEW k \in Archivings, LeaseRunsOut(k)
    PROVE  RetentionTypes'
<1>1. /\ purge' \in [Archivings -> PurgeRows] /\ sweeper' \in [Sweepers -> SweepRows]
      /\ \A v \in Sweepers : SweepFits(sweeper'[v])
      /\ UNCHANGED <<photoVars, clockVars, warned, emails>> /\ breaks' \in 0..MaxBreaks
  BY LeaseEnds
<1>2. Numbered'
  BY <1>1, TakenStays DEF photoVars
<1> QED
  BY <1>1, <1>2 DEF RetentionTypes, photoVars, clockVars

\* Every step is one of the album, of the clock, of a lease or of a sweep.
LEMMA RetentionCases ==
    ASSUME RetentionNext
    PROVE  \/ AlbumSteps \/ ClockSteps
           \/ \E k \in Archivings : LeaseRunsOut(k)
           \/ \E w \in Sweepers : SweepSteps(w)
           \/ \E w \in Sweepers : AttemptSteps(w)
BY Zenon DEF RetentionNext, AlbumSteps, ClockSteps, SweepSteps, AttemptSteps

LEMMA RetentionInitTypes == RetentionInit => RetentionTypes
<1> SUFFICES ASSUME RetentionInit PROVE RetentionTypes
  OBVIOUS
<1>1. Numbered
  <2>1. Taken = {} /\ 1..0 = {} /\ 0 \in 0..MaxPhotos
    BY Bounds DEF RetentionInit, Taken
  <2> QED
    BY <2>1 DEF Numbered, RetentionInit
<1>2. purge \in [Archivings -> PurgeRows] /\ sweeper \in [Sweepers -> SweepRows]
  BY NothingYet DEF RetentionInit, Elsewhere
<1>3. \A w \in Sweepers : SweepFits(sweeper[w])
  BY NothingYet DEF RetentionInit, SweepFits
<1>4. /\ photo \in [Photos -> {"none", "live", "kept", "purged", "unhid"}]
      /\ warned \in [Archivings -> (0..ReminderDays) \cup {Never}] /\ emails \in [Archivings -> Nat]
  BY DEF RetentionInit
<1>5. /\ 0 \in 0..MaxPhotos /\ 0 \in 0..MaxArchivings /\ 0 \in 0..RetentionDays /\ 0 \in 0..MaxBreaks
  BY Bounds
<1> QED
  BY <1>1, <1>2, <1>3, <1>4, <1>5 DEF RetentionInit, RetentionTypes

LEMMA RetentionNextTypes ==
    ASSUME RetentionTypes, [RetentionNext]_retentionVars
    PROVE  RetentionTypes'
<1>1. CASE UNCHANGED retentionVars
  BY <1>1 DEF retentionVars, photoVars, clockVars, claimVars, RetentionTypes, Numbered, Taken
<1>2. CASE RetentionNext
  BY <1>2, RetentionCases, AlbumStepTypes, ClockStepTypes, LeaseTypes, TurnTypes, AttemptTypes
<1> QED
  BY <1>1, <1>2

\* The album, its files, the reminders, the purges and the sweeps at work on them
\* are what the types say.
THEOREM RetentionTypeCorrect == RetentionSpec => []RetentionTypeOK
<1>1. RetentionTypes => RetentionTypeOK
  <2> SUFFICES ASSUME RetentionTypes PROVE RetentionTypeOK
    OBVIOUS
  <2>1. \A k \in Archivings : purge[k] \in PurgeRows
    BY DEF RetentionTypes
  <2>2. \A w \in Sweepers : sweeper[w] \in SweepRows
    BY DEF RetentionTypes
  <2> QED
    BY <2>1, <2>2 DEF RetentionTypes, RetentionTypeOK, PurgeRows, SweepRows
<1> QED
  BY <1>1, RetentionInitTypes, RetentionNextTypes, PTL DEF RetentionSpec

-----------------------------------------------------------------------------
(* MediaRetention: what the organisers were promised.                      *)

\* A day passes only while nothing is in progress, and starts from none.
Calm == age > 0 => archived /\ ~uploading /\ restoring = 0 /\ ~archiver

WarnedOnce == \A k \in Archivings : emails[k] <= 1 /\ (warned[k] = Never => emails[k] = 0)

\* What a sweep is about to claim is due still, unless the event was restored.
StillDue ==
    \A w \in Sweepers :
        sweeper[w].step = "claim" /\ archived /\ age = RetentionDays =>
            Viewable = {} \/ warned[archiving] = ReminderDays

Promised ==
    \A k \in Archivings :
        purge[k].reason = "RETENTION" =>
            purge[k].since = RetentionDays /\ (purge[k].wanted => warned[k] = ReminderDays)

PromiseInv == Calm /\ WarnedOnce /\ StillDue /\ Promised

\* Attempts and leases change nothing of it.
LEMMA PromiseStays ==
    ASSUME RetentionTypes, PromiseInv, SameClaims, UNCHANGED <<uploading, restoring, clockVars, warned, emails>>,
           \A w \in Sweepers : sweeper'[w].step = "claim" => sweeper[w].step = "claim",
           Viewable' \subseteq Viewable
    PROVE  PromiseInv'
<1>1. Calm' /\ WarnedOnce'
  BY DEF PromiseInv, Calm, WarnedOnce, clockVars
<1>2. StillDue'
  BY DEF PromiseInv, StillDue, clockVars
<1>3. Promised'
  BY DEF PromiseInv, Promised, SameClaims
<1> QED
  BY <1>1, <1>2, <1>3 DEF PromiseInv

LEMMA AlbumPromise ==
    ASSUME RetentionTypes, PromiseInv, AlbumSteps
    PROVE  PromiseInv'
<1>1. UNCHANGED <<archived, archiving, age, archiver, warned, emails, purge, sweeper>>
  BY AlbumStepTypes DEF clockVars, claimVars
<1>2. age \in 0..RetentionDays
  BY DEF RetentionTypes
<1>3. ~(age > 0)
  <2>1. ~archived \/ uploading \/ restoring # 0
    BY DEF AlbumSteps, SaveRead, SaveInsert, RestoreWrite, Curate, RestoreRead
  <2> QED
    BY <2>1 DEF PromiseInv, Calm
<1>4. age = 0 /\ age # RetentionDays
  BY <1>2, <1>3, Bounds
<1>5. Calm' /\ StillDue'
  BY <1>1, <1>3, <1>4 DEF Calm, StillDue
<1>6. WarnedOnce' /\ Promised'
  BY <1>1 DEF PromiseInv, WarnedOnce, Promised
<1> QED
  BY <1>5, <1>6 DEF PromiseInv

LEMMA ClockPromise ==
    ASSUME RetentionTypes, PromiseInv, ClockSteps
    PROVE  PromiseInv'
<1>1. UNCHANGED <<photo, uploading, restoring, emails, purge, sweeper>>
  BY ClockStepTypes DEF photoVars
<1>2. age \in 0..RetentionDays
  BY DEF RetentionTypes
<1>3. ASSUME age' = 0, UNCHANGED warned PROVE PromiseInv'
  <2>1. ~(age' > 0) /\ age' # RetentionDays
    BY <1>3, Bounds
  <2>2. Calm' /\ StillDue'
    BY <2>1 DEF Calm, StillDue
  <2>3. WarnedOnce' /\ Promised'
    BY <1>1, <1>3 DEF PromiseInv, WarnedOnce, Promised
  <2> QED
    BY <2>2, <2>3 DEF PromiseInv
<1>4. CASE ArchiveRead
  <2>1. ~archived /\ UNCHANGED <<age, warned>>
    BY <1>4 DEF ArchiveRead, claimVars
  <2>2. ~(age > 0)
    BY <2>1 DEF PromiseInv, Calm
  <2>3. age' = 0
    BY <1>2, <2>1, <2>2, Bounds
  <2> QED
    BY <1>3, <2>1, <2>3
<1>5. CASE ArchiveEvent
  BY <1>3, <1>5 DEF ArchiveEvent, claimVars
<1>6. CASE RestoreEvent
  BY <1>3, <1>6 DEF RestoreEvent, claimVars
<1>7. CASE DayPasses
  <2>1. /\ archived /\ Idle /\ UNCHANGED <<archived, archiver>>
        /\ \A k \in Archivings : /\ warned'[k] = Never <=> warned[k] = Never
                                 /\ warned[k] = ReminderDays => warned'[k] = ReminderDays
    BY <1>7, DayIs
  <2>2. Calm'
    BY <1>1, <2>1 DEF Calm, Idle
  <2>3. StillDue'
    <3>1. \A w \in Sweepers : sweeper'[w].step # "claim"
      BY <1>1, <2>1, NothingYet DEF Idle
    <3> QED
      BY <3>1 DEF StillDue
  <2>4. WarnedOnce' /\ Promised'
    BY <1>1, <2>1 DEF PromiseInv, WarnedOnce, Promised
  <2> QED
    BY <2>2, <2>3, <2>4 DEF PromiseInv
<1> QED
  BY <1>4, <1>5, <1>6, <1>7 DEF ClockSteps

LEMMA TurnPromise ==
    ASSUME RetentionTypes, PromiseInv, NEW w \in Sweepers, SweepSteps(w)
    PROVE  PromiseInv'
<1>t. /\ sweeper \in [Sweepers -> SweepRows] /\ age \in 0..RetentionDays /\ sweeper[w].seen \in SUBSET Photos
      /\ archived => archiving \in Archivings
  BY DEF RetentionTypes, SweepRows
<1>0. ASSUME NEW t, Turns(w, t), \A k \in Archivings : warned[k] = ReminderDays => warned'[k] = ReminderDays
      PROVE  Calm' /\ StillDue'
  <2>1. UNCHANGED <<photo, uploading, restoring, archived, archiving, age, archiver>> /\ Viewable' = Viewable
    BY <1>0 DEF Turns, photoVars, clockVars, Viewable
  <2>2. Calm'
    BY <2>1 DEF PromiseInv, Calm
  <2>3. ASSUME NEW v \in Sweepers, sweeper'[v].step = "claim", archived, age = RetentionDays
        PROVE  Viewable = {} \/ warned[archiving] = ReminderDays
    <3>1. CASE v = w
      BY <1>0, <1>t, <2>3, <3>1 DEF Turns, Due
    <3>2. CASE v # w
      BY <1>0, <1>t, <2>3, <3>2 DEF Turns, PromiseInv, StillDue
    <3> QED
      BY <3>1, <3>2
  <2>4. StillDue'
    BY <1>0, <1>t, <2>1, <2>3 DEF StillDue
  <2> QED
    BY <2>2, <2>4
<1>1. ASSUME NEW t, Turns(w, t), UNCHANGED <<warned, emails, purge>> PROVE PromiseInv'
  BY <1>0, <1>1 DEF PromiseInv, WarnedOnce, Promised
<1>2. CASE SweepBegins(w) \/ AdminBegins(w) \/ NothingToRun(w) \/ Crash(w)
  <2>1. (\E t : Turns(w, t)) /\ UNCHANGED <<warned, emails, purge>>
    BY <1>2, BeginsTurns, OtherTurns DEF claimVars
  <2> QED
    BY <1>1, <2>1
<1>3. CASE Remind(w)
  <2>1. (\E t : Turns(w, t)) /\ UNCHANGED purge
    BY <1>3, RemindTurns
  <2>2. \A k \in Archivings : /\ warned[k] # Never => warned'[k] = warned[k] /\ emails'[k] = emails[k]
                              /\ warned'[k] = Never => emails'[k] = emails[k]
                              /\ emails'[k] \in {emails[k], emails[k] + 1}
    BY <1>3, RemindIs
  <2>3. \A k \in Archivings : warned[k] = ReminderDays => warned'[k] = ReminderDays
    BY <2>2, Bounds
  <2>4. Calm' /\ StillDue'
    BY <1>0, <2>1, <2>3
  <2>5. WarnedOnce'
    <3>1. ASSUME NEW k \in Archivings PROVE emails'[k] <= 1 /\ (warned'[k] = Never => emails'[k] = 0)
      <4>1. CASE warned[k] = Never
        <5>1. emails[k] = 0
          BY <4>1 DEF PromiseInv, WarnedOnce
        <5> QED
          BY <2>2, <5>1
      <4>2. CASE warned[k] # Never
        BY <2>2, <4>2 DEF PromiseInv, WarnedOnce
      <4> QED
        BY <4>1, <4>2
    <3> QED
      BY <3>1 DEF WarnedOnce
  <2>6. Promised'
    BY <2>1, <2>3 DEF PromiseInv, Promised
  <2> QED
    BY <2>4, <2>5, <2>6 DEF PromiseInv
<1>4. CASE SweepClaims(w) \/ AdminClaims(w)
  <2>1. /\ \E t : Turns(w, t)
        /\ UNCHANGED <<warned, emails>>
        /\ \/ UNCHANGED purge
           \/ (sweeper[w].step = "claim" /\ Claims("RETENTION", sweeper[w].seen))
           \/ Claims("SUPER_ADMIN", sweeper[w].seen)
    BY <1>4, ClaimTurns
  <2>2. Calm' /\ StillDue' /\ WarnedOnce'
    BY <1>0, <2>1 DEF PromiseInv, WarnedOnce
  <2>3. ASSUME NEW reason \in {"RETENTION", "SUPER_ADMIN"}, Claims(reason, sweeper[w].seen),
               reason = "RETENTION" => sweeper[w].step = "claim"
        PROVE  Promised'
    <3>1. /\ archiving \in Archivings /\ \A k \in Archivings \ {archiving} : purge'[k] = purge[k]
          /\ purge'[archiving].reason = reason /\ purge'[archiving].since = age
          /\ purge'[archiving].wanted = (Viewable # {})
      BY <1>t, <2>3, ClaimedIs
    <3>2. archived /\ (reason = "RETENTION" => age = RetentionDays)
      BY <1>t, <2>3, Bounds DEF Claims
    <3>3. reason = "RETENTION" /\ purge'[archiving].wanted => warned[archiving] = ReminderDays
      BY <2>3, <3>1, <3>2 DEF PromiseInv, StillDue
    <3>4. ASSUME NEW k \in Archivings, purge'[k].reason = "RETENTION"
          PROVE  purge'[k].since = RetentionDays /\ (purge'[k].wanted => warned'[k] = ReminderDays)
      <4>1. CASE k = archiving
        BY <2>1, <3>1, <3>2, <3>3, <3>4, <4>1
      <4>2. CASE k # archiving
        BY <2>1, <3>1, <3>4, <4>2 DEF PromiseInv, Promised
      <4> QED
        BY <4>1, <4>2
    <3> QED
      BY <3>4 DEF Promised
  <2>4. CASE UNCHANGED purge
    BY <1>1, <2>1, <2>4
  <2>5. CASE sweeper[w].step = "claim" /\ Claims("RETENTION", sweeper[w].seen)
    BY <2>2, <2>3, <2>5 DEF PromiseInv
  <2>6. CASE Claims("SUPER_ADMIN", sweeper[w].seen)
    BY <2>2, <2>3, <2>6 DEF PromiseInv
  <2> QED
    BY <2>1, <2>4, <2>5, <2>6
<1> QED
  BY <1>2, <1>3, <1>4 DEF SweepSteps

LEMMA AttemptPromise ==
    ASSUME RetentionTypes, PromiseInv, NEW w \in Sweepers, AttemptSteps(w)
    PROVE  PromiseInv'
<1>t. photo \in [Photos -> {"none", "live", "kept", "purged", "unhid"}]
  BY DEF RetentionTypes
<1>s. UNCHANGED purge => SameClaims
  BY DEF SameClaims
<1>v. UNCHANGED photo => Viewable' \subseteq Viewable
  BY DEF Viewable
<1>1. CASE MarkPurged(w)
  <2>1. /\ photo' = IF sweeper[w].mark \in Unpurged THEN [photo EXCEPT ![sweeper[w].mark] = "purged"] ELSE photo
        /\ sweeper'[w].step = "delete" /\ \A v \in Sweepers \ {w} : sweeper'[v] = sweeper[v]
        /\ UNCHANGED <<uploading, restoring, clockVars, warned, emails, purge>>
    BY <1>1, PurgeMarked DEF claimVars
  <2>2. Viewable' \subseteq Viewable
    BY <1>t, <2>1 DEF Viewable
  <2>3. \A v \in Sweepers : sweeper'[v].step = "claim" => sweeper[v].step = "claim"
    BY <2>1
  <2> QED
    BY <1>s, <2>1, <2>2, <2>3, PromiseStays
<1>2. CASE FinishAttempt(w) \/ DatabaseFails(w)
  <2>1. PICK complete \in BOOLEAN : sweeper[w].step \in AtFiles /\ Ends(w, complete)
    BY <1>2, AttemptEndsIn
  <2>2. /\ SameClaims /\ sweeper'[w] = Asleep /\ \A v \in Sweepers \ {w} : SameTask(sweeper'[v], sweeper[v])
        /\ UNCHANGED <<photo, uploading, restoring, clockVars, warned, emails>>
    BY <2>1, AttemptEnds DEF photoVars
  <2>3. \A v \in Sweepers : sweeper'[v].step = "claim" => sweeper[v].step = "claim"
    BY <2>2, NothingYet DEF SameTask
  <2> QED
    BY <1>v, <2>2, <2>3, PromiseStays
<1>3. ASSUME NEW k \in Archivings, TakeLease(w, k) PROVE PromiseInv'
  <2>1. /\ SameClaims /\ sweeper'[w].step = "delete" /\ \A v \in Sweepers \ {w} : sweeper'[v] = sweeper[v]
        /\ UNCHANGED <<photo, uploading, restoring, clockVars, warned, emails>>
    BY <1>3, LeaseTaken DEF photoVars
  <2>2. \A v \in Sweepers : sweeper'[v].step = "claim" => sweeper[v].step = "claim"
    BY <2>1
  <2> QED
    BY <1>v, <2>1, <2>2, PromiseStays
<1>4. ASSUME NEW i \in Photos, DeleteBatch(w, i) PROVE PromiseInv'
  <2>1. /\ sweeper'[w].step \in {"delete", "mark"} /\ \A v \in Sweepers \ {w} : sweeper'[v] = sweeper[v]
        /\ UNCHANGED <<photo, uploading, restoring, clockVars, warned, emails, purge>>
    BY <1>4, BatchDeleted DEF claimVars
  <2>2. \A v \in Sweepers : sweeper'[v].step = "claim" => sweeper[v].step = "claim"
    BY <2>1
  <2> QED
    BY <1>s, <1>v, <2>1, <2>2, PromiseStays
<1> QED
  BY <1>1, <1>2, <1>3, <1>4 DEF AttemptSteps

LEMMA PromiseNext ==
    ASSUME RetentionTypes, PromiseInv, [RetentionNext]_retentionVars
    PROVE  PromiseInv'
<1>1. CASE UNCHANGED retentionVars
  BY <1>1 DEF retentionVars, photoVars, clockVars, claimVars, PromiseInv, Calm, WarnedOnce, StillDue, Promised, Viewable
<1>2. ASSUME NEW k \in Archivings, LeaseRunsOut(k) PROVE PromiseInv'
  <2>1. /\ SameClaims /\ \A v \in Sweepers : SameTask(sweeper'[v], sweeper[v])
        /\ UNCHANGED <<photo, uploading, restoring, clockVars, warned, emails>>
    BY <1>2, LeaseEnds DEF photoVars
  <2>2. Viewable' \subseteq Viewable
    BY <2>1 DEF Viewable
  <2>3. \A v \in Sweepers : sweeper'[v].step = "claim" => sweeper[v].step = "claim"
    BY <2>1 DEF SameTask
  <2> QED
    BY <2>1, <2>2, <2>3, PromiseStays
<1>3. CASE RetentionNext
  BY <1>2, <1>3, RetentionCases, AlbumPromise, ClockPromise, TurnPromise, AttemptPromise
<1> QED
  BY <1>1, <1>3

-----------------------------------------------------------------------------
(* MediaRetention: what a purge takes, and what it says of it.             *)

Gone == {i \in Photos : photo[i] \in {"purged", "unhid"}}
UnderWay(i) == \E k \in Archivings : ~purge[k].done /\ i \in purge[k].covers

SeenBefore ==
    /\ \A w \in Sweepers : sweeper[w].seen \subseteq Taken
    /\ \A k \in Archivings : purge[k].covers \subseteq Taken

\* An attempt deletes what its purge covers: what it has deleted is gone, what it
\* has not is left to do, or failed.
AtPurge(t) ==
    /\ purge[t.key].reason # "none" /\ t.todo \subseteq purge[t.key].covers
    /\ t.step = "mark" => t.mark \in purge[t.key].covers /\ t.mark \notin file
    /\ t.failed \/ \A i \in purge[t.key].covers : i \in t.todo \/ (t.step = "mark" /\ i = t.mark) \/ i \in Gone

Attempts == \A w \in Sweepers : AtWork(sweeper[w]) => AtPurge(sweeper[w])

OneLease ==
    /\ \A w \in Sweepers : sweeper[w].holds => purge[sweeper[w].key].leased
    /\ \A w, v \in Sweepers : sweeper[w].holds /\ sweeper[v].holds /\ sweeper[w].key = sweeper[v].key => w = v

AsPurged ==
    /\ \A i \in Gone : i \notin file /\ \E k \in Archivings : i \in purge[k].covers
    /\ \A i \in Unpurged : i \in file \/ UnderWay(i)
    /\ \A k \in Archivings : /\ purge[k].done => purge[k].covers \subseteq Gone
                             /\ purge[k].reason = "none" => purge[k] = NoPurge

\* Every item a purge or an attempt has counted can be told from all the others
\* that were: which, for each purge and each attempt.
Counting(paid, owed) ==
    /\ \A k \in Archivings : /\ paid[k] \subseteq purge[k].covers /\ paid[k] \subseteq Gone
                             /\ purge[k].count <= Cardinality(paid[k])
    /\ \A w \in Sweepers : /\ owed[w] \subseteq Gone /\ sweeper[w].count <= Cardinality(owed[w])
                           /\ AtWork(sweeper[w]) => owed[w] \subseteq purge[sweeper[w].key].covers
                           /\ \A v \in Sweepers : v # w => owed[v] \cap owed[w] = {}
                           /\ \A k \in Archivings : paid[k] \cap owed[w] = {}

CountedOnce == \E paid \in [Archivings -> SUBSET Photos], owed \in [Sweepers -> SUBSET Photos] : Counting(paid, owed)

PurgeInv == SeenBefore /\ Attempts /\ OneLease /\ AsPurged /\ CountedOnce

LEMMA SomeOf ==
    ASSUME NEW S \in SUBSET Photos
    PROVE  IsFiniteSet(S) /\ Cardinality(S) \in Nat
<1>1. IsFiniteSet(S)
  BY Bounds, FS_Subset
<1> QED
  BY <1>1, FS_CardinalityType

\* What is there is unpurged or gone.
LEMMA Kinds ==
    ASSUME RetentionTypes
    PROVE  /\ Taken = Unpurged \cup Gone /\ Unpurged \cap Gone = {}
           /\ Unpurged \subseteq Photos /\ Gone \subseteq Photos
BY DEF RetentionTypes, Taken, Unpurged, Gone

\* Steps that neither delete nor claim.
LEMMA PurgeStays ==
    ASSUME RetentionTypes, PurgeInv, UNCHANGED purge,
           Taken \subseteq Taken', Gone' = Gone, \A i \in Unpurged' : i \in Unpurged \/ i \in file',
           \A i \in Taken : i \in file' <=> i \in file,
           \A w \in Sweepers : \/ sweeper'[w] = sweeper[w]
                               \/ Elsewhere(sweeper'[w]) /\ sweeper'[w].seen \subseteq Taken'
    PROVE  PurgeInv'
<1>0. \A w \in Sweepers : Elsewhere(sweeper'[w]) => ~AtWork(sweeper'[w]) /\ ~sweeper'[w].holds /\ sweeper'[w].count = 0
  BY DEF Elsewhere, AtWork
<1>1. SeenBefore'
  BY DEF PurgeInv, SeenBefore
<1>2. Attempts'
  <2> SUFFICES ASSUME NEW w \in Sweepers, AtWork(sweeper'[w]) PROVE AtPurge(sweeper[w])' /\ sweeper'[w] = sweeper[w]
    BY DEF Attempts
  <2>1. sweeper'[w] = sweeper[w]
    BY <1>0
  <2>2. AtPurge(sweeper[w]) /\ AtWork(sweeper[w])
    BY <2>1 DEF PurgeInv, Attempts
  <2>3. purge[sweeper[w].key].covers \subseteq Taken
    BY <2>2 DEF PurgeInv, SeenBefore, AtWork
  <2> QED
    BY <2>1, <2>2, <2>3 DEF AtPurge
<1>3. OneLease'
  BY <1>0 DEF PurgeInv, OneLease
<1>4. AsPurged'
  <2>1. Unpurged \subseteq Taken /\ Gone \subseteq Taken
    BY Kinds
  <2> QED
    BY <2>1 DEF PurgeInv, AsPurged, UnderWay
<1>5. CountedOnce'
  <2>1. PICK paid \in [Archivings -> SUBSET Photos], owed \in [Sweepers -> SUBSET Photos] : Counting(paid, owed)
    BY DEF PurgeInv, CountedOnce
  <2>2. \A w \in Sweepers : 0 <= Cardinality(owed[w])
    BY SomeOf
  <2>3. Counting(paid, owed)'
    BY <1>0, <2>1, <2>2 DEF Counting
  <2> QED
    BY <2>3 DEF CountedOnce
<1> QED
  BY <1>1, <1>2, <1>3, <1>4, <1>5 DEF PurgeInv

LEMMA AlbumPurge ==
    ASSUME RetentionTypes, PurgeInv, AlbumSteps
    PROVE  PurgeInv'
<1>t. photo \in [Photos -> {"none", "live", "kept", "purged", "unhid"}] /\ restoring \in 0..MaxPhotos
  BY DEF RetentionTypes
<1>u. UNCHANGED <<purge, sweeper>>
  BY AlbumStepTypes DEF claimVars
<1>0. ASSUME UNCHANGED file, \A i \in Photos : /\ photo'[i] = "none" <=> photo[i] = "none"
                                               /\ photo'[i] \in {"live", "kept"} <=> photo[i] \in {"live", "kept"}
                                               /\ photo'[i] \in {"purged", "unhid"} <=> photo[i] \in {"purged", "unhid"}
      PROVE  PurgeInv'
  <2>1. Taken' = Taken /\ Gone' = Gone /\ Unpurged' = Unpurged
    BY <1>0 DEF Taken, Gone, Unpurged
  <2> QED
    BY <1>0, <1>u, <2>1, PurgeStays
<1>1. CASE SaveRead \/ \E i \in Photos : RestoreRead(i)
  BY <1>0, <1>1 DEF SaveRead, RestoreRead
<1>2. CASE SaveInsert
  <2>1. PICK i \in Photos : /\ photo[i] = "none" /\ i \notin Taken
                            /\ \E st \in {"live", "kept"} : photo' = [photo EXCEPT ![i] = st]
                            /\ file' = file \cup {i} /\ Taken' = Taken \cup {i}
    BY <1>2, SaveInserts
  <2>2. Gone' = Gone /\ Unpurged' = Unpurged \cup {i}
    BY <1>t, <2>1 DEF Gone, Unpurged
  <2> QED
    BY <1>u, <2>1, <2>2, PurgeStays
<1>3. CASE RestoreWrite
  <2>1. /\ restoring \in Photos /\ UNCHANGED file
        /\ photo' = [photo EXCEPT ![restoring] = IF @ = "purged" THEN "unhid" ELSE IF @ = "kept" THEN "live" ELSE @]
    BY <1>t, <1>3, Bounds DEF RestoreWrite, Photos
  <2> QED
    BY <1>0, <1>t, <2>1
<1>4. ASSUME NEW i \in Photos, Curate(i) PROVE PurgeInv'
  <2>1. /\ photo[i] \in {"live", "kept"} /\ UNCHANGED file
        /\ photo' = [photo EXCEPT ![i] = IF @ = "live" THEN "kept" ELSE "live"]
    BY <1>4 DEF Curate
  <2> QED
    BY <1>0, <1>t, <2>1
<1> QED
  BY <1>1, <1>2, <1>3, <1>4 DEF AlbumSteps

LEMMA ClockPurge ==
    ASSUME RetentionTypes, PurgeInv, ClockSteps
    PROVE  PurgeInv'
<1>1. UNCHANGED <<photo, file, purge, sweeper>>
  BY ClockStepTypes DEF photoVars
<1>2. Taken' = Taken /\ Gone' = Gone /\ Unpurged' = Unpurged
  BY <1>1 DEF Taken, Gone, Unpurged
<1> QED
  BY <1>1, <1>2, PurgeStays

\* A purge that is claimed covers what its sweep saw at first.
LEMMA ClaimPurges ==
    ASSUME RetentionTypes, PurgeInv, NEW w \in Sweepers, NEW reason \in {"RETENTION", "SUPER_ADMIN"},
           Claims(reason, sweeper[w].seen), NEW t, Turns(w, t)
    PROVE  PurgeInv'
<1>1. /\ UNCHANGED <<photo, file>> /\ Elsewhere(t) /\ t.seen \subseteq Taken
      /\ sweeper'[w] = t /\ \A v \in Sweepers \ {w} : sweeper'[v] = sweeper[v]
  BY DEF Turns, photoVars, RetentionTypes, PurgeInv, SeenBefore
<1>2. Taken' = Taken /\ Gone' = Gone /\ Unpurged' = Unpurged
  BY <1>1 DEF Taken, Gone, Unpurged
<1> DEFINE n == archiving
<1>3. /\ n \in Archivings /\ purge[n] = NoPurge
      /\ \A k \in Archivings \ {n} : purge'[k] = purge[k]
      /\ purge'[n].reason = reason /\ purge'[n].covers = sweeper[w].seen /\ ~purge'[n].done /\ purge'[n].count = 0
  <2>1. sweeper[w].seen \in SUBSET Photos
    BY DEF RetentionTypes, SweepRows
  <2> QED
    BY <2>1, ClaimedIs
<1>4. purge[n].reason = "none" /\ purge[n].covers = {} /\ ~purge[n].leased /\ ~purge[n].done
  BY <1>3, NothingYet
<1>5. sweeper[w].seen \subseteq Taken
  BY DEF PurgeInv, SeenBefore
<1> HIDE DEF n
<1>6. ASSUME NEW v \in Sweepers, AtWork(sweeper'[v]) \/ sweeper'[v].holds
      PROVE  sweeper'[v] = sweeper[v] /\ sweeper[v].key \in Archivings /\ sweeper[v].key # n /\ AtWork(sweeper[v])
  <2>1. v # w
    BY <1>1, <1>6 DEF Elsewhere, AtWork
  <2>2. AtWork(sweeper[v])
    BY <1>1, <1>6, <2>1 DEF RetentionTypes, SweepFits, Elsewhere
  <2> QED
    BY <1>1, <1>4, <2>1, <2>2 DEF PurgeInv, Attempts, AtPurge, AtWork
<1>7. SeenBefore'
  BY <1>1, <1>2, <1>3, <1>5 DEF PurgeInv, SeenBefore
<1>8. Attempts'
  <2> SUFFICES ASSUME NEW v \in Sweepers, AtWork(sweeper'[v]) PROVE AtPurge(sweeper[v])'
    BY DEF Attempts
  <2>1. sweeper'[v] = sweeper[v] /\ purge'[sweeper[v].key] = purge[sweeper[v].key] /\ AtPurge(sweeper[v])
    BY <1>3, <1>6 DEF PurgeInv, Attempts
  <2> QED
    BY <1>1, <1>2, <2>1 DEF AtPurge
<1>9. OneLease'
  BY <1>3, <1>6 DEF PurgeInv, OneLease
<1>10. AsPurged'
  <2>1. \A k \in Archivings : /\ purge'[k].done => purge'[k].covers \subseteq Gone
                              /\ purge'[k].reason = "none" => purge'[k] = NoPurge
    BY <1>3 DEF PurgeInv, AsPurged
  <2>2. \A k \in Archivings : purge[k].covers \subseteq purge'[k].covers /\ (purge'[k].done => purge[k].done)
    BY <1>3, <1>4
  <2> QED
    BY <1>1, <1>2, <2>1, <2>2 DEF PurgeInv, AsPurged, UnderWay
<1>11. CountedOnce'
  <2>1. PICK paid \in [Archivings -> SUBSET Photos], owed \in [Sweepers -> SUBSET Photos] : Counting(paid, owed)
    BY DEF PurgeInv, CountedOnce
  <2>2. 0 <= Cardinality(paid[n]) /\ \A v \in Sweepers : 0 <= Cardinality(owed[v])
    BY <1>3, SomeOf
  <2>3. \A k \in Archivings : /\ paid[k] \subseteq purge'[k].covers /\ paid[k] \subseteq Gone
                              /\ purge'[k].count <= Cardinality(paid[k])
    BY <1>3, <1>4, <2>1, <2>2 DEF Counting
  <2>4. \A v \in Sweepers : /\ sweeper'[v].count <= Cardinality(owed[v])
                            /\ AtWork(sweeper'[v]) => owed[v] \subseteq purge'[sweeper'[v].key].covers
    <3>1. ASSUME NEW v \in Sweepers PROVE sweeper'[v].count <= Cardinality(owed[v])
      BY <1>1, <2>1, <2>2 DEF Counting, Elsewhere
    <3>2. ASSUME NEW v \in Sweepers, AtWork(sweeper'[v]) PROVE owed[v] \subseteq purge'[sweeper'[v].key].covers
      BY <1>3, <1>6, <2>1, <3>2 DEF Counting
    <3> QED
      BY <3>1, <3>2
  <2>5. Counting(paid, owed)'
    BY <1>2, <2>1, <2>3, <2>4 DEF Counting
  <2> QED
    BY <2>5 DEF CountedOnce
<1> QED
  BY <1>7, <1>8, <1>9, <1>10, <1>11 DEF PurgeInv

LEMMA TurnPurge ==
    ASSUME RetentionTypes, PurgeInv, NEW w \in Sweepers, SweepSteps(w)
    PROVE  PurgeInv'
<1>0. ASSUME NEW t, Turns(w, t), UNCHANGED purge PROVE PurgeInv'
  <2>1. /\ UNCHANGED <<photo, file>> /\ Elsewhere(t) /\ t.seen \subseteq Taken
        /\ sweeper'[w] = t /\ \A v \in Sweepers \ {w} : sweeper'[v] = sweeper[v]
    BY <1>0 DEF Turns, photoVars, RetentionTypes, PurgeInv, SeenBefore
  <2>2. Taken' = Taken /\ Gone' = Gone /\ Unpurged' = Unpurged
    BY <2>1 DEF Taken, Gone, Unpurged
  <2> QED
    BY <1>0, <2>1, <2>2, PurgeStays
<1>1. CASE SweepBegins(w) \/ AdminBegins(w) \/ NothingToRun(w) \/ Crash(w) \/ Remind(w)
  <2>1. (\E t : Turns(w, t)) /\ UNCHANGED purge
    BY <1>1, BeginsTurns, OtherTurns, RemindTurns DEF claimVars
  <2> QED
    BY <1>0, <2>1
<1>2. CASE SweepClaims(w) \/ AdminClaims(w)
  <2>1. /\ \E t : Turns(w, t)
        /\ \/ UNCHANGED purge
           \/ \E reason \in {"RETENTION", "SUPER_ADMIN"} : Claims(reason, sweeper[w].seen)
    BY <1>2, ClaimTurns
  <2> QED
    BY <1>0, <2>1, ClaimPurges
<1> QED
  BY <1>1, <1>2 DEF SweepSteps

\* Steps that change tasks by no more than giving up leases.
LEMMA SameWork ==
    ASSUME NEW new, NEW old, SameTask(new, old), old \in SweepRows, SweepFits(new), new \in SweepRows
    PROVE  AtWork(new) <=> AtWork(old)
BY DEF SameTask, AtWork

LEMMA LeasePurge ==
    ASSUME RetentionTypes, PurgeInv, NEW n \in Archivings, LeaseRunsOut(n)
    PROVE  PurgeInv'
<1>1. /\ purge[n] # NoPurge /\ SameClaims
      /\ \A k \in Archivings : /\ purge'[k].done = purge[k].done /\ purge'[k].count = purge[k].count
                               /\ k # n => purge'[k] = purge[k]
      /\ UNCHANGED <<photo, file>> /\ sweeper' \in [Sweepers -> SweepRows]
      /\ \A v \in Sweepers : /\ SameTask(sweeper'[v], sweeper[v]) /\ SweepFits(sweeper'[v])
                             /\ sweeper'[v].holds => sweeper[v].holds /\ sweeper[v].key # n
  BY LeaseEnds DEF photoVars
<1>2. Taken' = Taken /\ Gone' = Gone /\ Unpurged' = Unpurged
  BY <1>1 DEF Taken, Gone, Unpurged
<1>3. \A v \in Sweepers : AtWork(sweeper'[v]) <=> AtWork(sweeper[v])
  BY <1>1, SameWork DEF RetentionTypes
<1>4. SeenBefore'
  BY <1>1, <1>2 DEF PurgeInv, SeenBefore, SameTask, SameClaims
<1>5. Attempts'
  <2> SUFFICES ASSUME NEW v \in Sweepers, AtWork(sweeper'[v]) PROVE AtPurge(sweeper[v])'
    BY DEF Attempts
  <2>1. AtPurge(sweeper[v]) /\ sweeper[v].key \in Archivings
    BY <1>3 DEF PurgeInv, Attempts, AtWork
  <2> QED
    BY <1>1, <1>2, <2>1 DEF AtPurge, SameTask, SameClaims
<1>6. OneLease'
  <2>1. ASSUME NEW v \in Sweepers, sweeper'[v].holds
        PROVE  sweeper[v].holds /\ sweeper'[v].key = sweeper[v].key /\ purge'[sweeper[v].key] = purge[sweeper[v].key]
    <3>1. sweeper[v].holds /\ sweeper[v].key # n /\ sweeper'[v].key = sweeper[v].key
      BY <1>1, <2>1 DEF SameTask
    <3>2. sweeper[v].key \in Archivings
      BY <3>1 DEF RetentionTypes, SweepFits, Elsewhere, AtWork
    <3> QED
      BY <1>1, <3>1, <3>2
  <2> QED
    BY <2>1 DEF PurgeInv, OneLease
<1>7. AsPurged'
  <2>1. \A k \in Archivings : purge'[k].reason = "none" => purge'[k] = NoPurge
    BY <1>1 DEF PurgeInv, AsPurged, SameClaims
  <2> QED
    BY <1>1, <1>2, <2>1 DEF PurgeInv, AsPurged, UnderWay, SameClaims
<1>8. CountedOnce'
  <2>1. PICK paid \in [Archivings -> SUBSET Photos], owed \in [Sweepers -> SUBSET Photos] : Counting(paid, owed)
    BY DEF PurgeInv, CountedOnce
  <2>2. \A v \in Sweepers : /\ sweeper'[v].count = sweeper[v].count /\ sweeper'[v].key = sweeper[v].key
                            /\ AtWork(sweeper[v]) => sweeper[v].key \in Archivings
    BY <1>1 DEF SameTask, AtWork
  <2>3. Counting(paid, owed)'
    BY <1>1, <1>2, <1>3, <2>1, <2>2 DEF Counting, SameClaims
  <2> QED
    BY <2>3 DEF CountedOnce
<1> QED
  BY <1>4, <1>5, <1>6, <1>7, <1>8 DEF PurgeInv

LEMMA EndPurge ==
    ASSUME RetentionTypes, PurgeInv, NEW w \in Sweepers, FinishAttempt(w) \/ DatabaseFails(w)
    PROVE  PurgeInv'
<1>0. PICK complete \in BOOLEAN :
          /\ sweeper[w].step \in AtFiles /\ Ends(w, complete)
          /\ complete => sweeper[w].step = "delete" /\ sweeper[w].todo = {} /\ ~sweeper[w].failed
  BY AttemptEndsIn
<1> DEFINE n == sweeper[w].key
<1>1. /\ AtWork(sweeper[w]) /\ SameClaims
      /\ \A k \in Archivings \ {n} : purge'[k] = purge[k]
      /\ purge'[n].done = complete /\ purge'[n].count = purge[n].count + sweeper[w].count
      /\ UNCHANGED <<photo, file>> /\ sweeper' \in [Sweepers -> SweepRows] /\ sweeper'[w] = Asleep
      /\ \A v \in Sweepers \ {w} : /\ SameTask(sweeper'[v], sweeper[v]) /\ SweepFits(sweeper'[v])
                                   /\ sweeper'[v].holds => sweeper[v].holds /\ sweeper[v].key # n
  BY <1>0, AttemptEnds DEF photoVars
<1>n. n \in Archivings /\ AtPurge(sweeper[w])
  BY <1>1 DEF AtWork, PurgeInv, Attempts
<1>2. Taken' = Taken /\ Gone' = Gone /\ Unpurged' = Unpurged
  BY <1>1 DEF Taken, Gone, Unpurged
<1>3. \A v \in Sweepers \ {w} : AtWork(sweeper'[v]) <=> AtWork(sweeper[v])
  BY <1>1, SameWork DEF RetentionTypes
<1>a. ~AtWork(sweeper'[w]) /\ ~sweeper'[w].holds /\ sweeper'[w].count = 0 /\ sweeper'[w].seen = {}
  BY <1>1, NothingYet DEF Elsewhere, AtWork
<1>c. complete => purge[n].covers \subseteq Gone
  BY <1>0, <1>n DEF AtPurge
<1> HIDE DEF n
<1>4. SeenBefore'
  BY <1>1, <1>2, <1>a DEF PurgeInv, SeenBefore, SameTask, SameClaims
<1>5. Attempts'
  <2> SUFFICES ASSUME NEW v \in Sweepers, AtWork(sweeper'[v]) PROVE AtPurge(sweeper[v])'
    BY DEF Attempts
  <2>0. v # w
    BY <1>a
  <2>1. AtPurge(sweeper[v]) /\ sweeper[v].key \in Archivings
    BY <1>3, <2>0 DEF PurgeInv, Attempts, AtWork
  <2> QED
    BY <1>1, <1>2, <2>0, <2>1 DEF AtPurge, SameTask, SameClaims
<1>6. OneLease'
  <2>1. ASSUME NEW v \in Sweepers, sweeper'[v].holds
        PROVE  sweeper[v].holds /\ sweeper'[v].key = sweeper[v].key /\ purge'[sweeper[v].key] = purge[sweeper[v].key]
    <3>1. sweeper[v].holds /\ sweeper[v].key # n /\ sweeper'[v].key = sweeper[v].key
      BY <1>1, <1>a, <2>1 DEF SameTask
    <3>2. sweeper[v].key \in Archivings
      BY <3>1 DEF RetentionTypes, SweepFits, Elsewhere, AtWork
    <3> QED
      BY <1>1, <3>1, <3>2
  <2> QED
    BY <2>1 DEF PurgeInv, OneLease
<1>7. AsPurged'
  <2>1. ASSUME NEW k \in Archivings
        PROVE  /\ purge'[k].reason = "none" => purge'[k] = NoPurge
               /\ purge'[k].done => purge'[k].covers \subseteq Gone
    <3>1. CASE k = n
      BY <1>1, <1>n, <1>c, <3>1 DEF SameClaims, AtPurge, n
    <3>2. CASE k # n
      BY <1>1, <3>2 DEF PurgeInv, AsPurged
    <3> QED
      BY <3>1, <3>2
  <2>2. ASSUME NEW i \in Unpurged, i \notin file
        PROVE  \E k \in Archivings : ~purge'[k].done /\ i \in purge'[k].covers
    <3>1. PICK k \in Archivings : ~purge[k].done /\ i \in purge[k].covers
      BY <2>2 DEF PurgeInv, AsPurged, UnderWay
    <3>2. purge'[k].covers = purge[k].covers /\ i \notin Gone
      BY <1>1, Kinds DEF SameClaims
    <3>3. ~purge'[k].done
      BY <2>1, <3>1, <3>2
    <3> QED
      BY <3>1, <3>2, <3>3
  <2>3. \A i \in Gone : i \notin file /\ \E k \in Archivings : i \in purge'[k].covers
    BY <1>1 DEF PurgeInv, AsPurged, SameClaims
  <2> QED
    BY <1>1, <1>2, <2>1, <2>2, <2>3 DEF AsPurged, UnderWay
<1>8. CountedOnce'
  <2>1. PICK paid \in [Archivings -> SUBSET Photos], owed \in [Sweepers -> SUBSET Photos] : Counting(paid, owed)
    BY DEF PurgeInv, CountedOnce
  <2> DEFINE added == paid[n] \cup owed[w]
  <2>2. /\ paid[n] \subseteq Photos /\ owed[w] \subseteq Photos /\ paid[n] \cap owed[w] = {}
        /\ purge[n].count <= Cardinality(paid[n]) /\ sweeper[w].count <= Cardinality(owed[w])
        /\ owed[w] \subseteq purge[n].covers /\ owed[w] \subseteq Gone
    BY <1>1, <1>n, <2>1 DEF Counting, n
  <2>3. Cardinality(added) = Cardinality(paid[n]) + Cardinality(owed[w])
    <3>1. IsFiniteSet(paid[n]) /\ IsFiniteSet(owed[w]) /\ Cardinality(paid[n]) \in Nat /\ Cardinality(owed[w]) \in Nat
      BY <2>2, SomeOf
    <3> QED
      BY <2>2, <3>1, FS_Union, FS_EmptySet
  <2>4. purge[n].count + sweeper[w].count <= Cardinality(added)
    <3>1. purge[n].count \in Nat /\ sweeper[w].count \in Nat
      BY <1>n DEF RetentionTypes, PurgeRows, SweepRows
    <3>2. Cardinality(paid[n]) \in Nat /\ Cardinality(owed[w]) \in Nat
      BY <2>2, SomeOf
    <3> QED
      BY <2>2, <2>3, <3>1, <3>2
  <2> HIDE DEF added
  <2>5. PICK given1 \in [Archivings -> SUBSET Photos] :
            given1[n] = added /\ \A k \in Archivings \ {n} : given1[k] = paid[k]
    <3> DEFINE g == [paid EXCEPT ![n] = added]
    <3>1. g \in [Archivings -> SUBSET Photos] /\ g[n] = added /\ \A k \in Archivings \ {n} : g[k] = paid[k]
      BY <1>n, <2>2 DEF added
    <3> QED
      BY <3>1
  <2>6. PICK left \in [Sweepers -> SUBSET Photos] :
            left[w] = {} /\ \A v \in Sweepers \ {w} : left[v] = owed[v]
    <3> DEFINE l == [owed EXCEPT ![w] = {}]
    <3>1. l \in [Sweepers -> SUBSET Photos] /\ l[w] = {} /\ \A v \in Sweepers \ {w} : l[v] = owed[v]
      OBVIOUS
    <3> QED
      BY <3>1
  <2>7. ASSUME NEW k \in Archivings
        PROVE  /\ given1[k] \subseteq purge'[k].covers /\ given1[k] \subseteq Gone
               /\ purge'[k].count <= Cardinality(given1[k])
    <3>1. CASE k = n
      BY <1>1, <1>n, <2>1, <2>2, <2>4, <2>5, <3>1 DEF SameClaims, Counting, added
    <3>2. CASE k # n
      BY <1>1, <2>1, <2>5, <3>2 DEF Counting
    <3> QED
      BY <3>1, <3>2
  <2>8. ASSUME NEW v \in Sweepers
        PROVE  /\ left[v] \subseteq Gone /\ sweeper'[v].count <= Cardinality(left[v])
               /\ AtWork(sweeper'[v]) => left[v] \subseteq purge'[sweeper'[v].key].covers
               /\ \A u \in Sweepers : u # v => left[u] \cap left[v] = {}
               /\ \A k \in Archivings : given1[k] \cap left[v] = {}
    <3>1. CASE v = w
      BY <1>a, <2>6, <3>1, FS_EmptySet
    <3>2. CASE v # w
      <4>1. left[v] = owed[v] /\ SameTask(sweeper'[v], sweeper[v])
        BY <1>1, <2>6, <3>2
      <4>2. left[v] \subseteq Gone /\ sweeper'[v].count <= Cardinality(left[v])
        BY <2>1, <4>1 DEF Counting, SameTask
      <4>3. AtWork(sweeper'[v]) => left[v] \subseteq purge'[sweeper'[v].key].covers
        BY <1>1, <1>3, <2>1, <3>2, <4>1 DEF Counting, SameTask, SameClaims, AtWork
      <4>4. \A u \in Sweepers : u # v => left[u] \cap left[v] = {}
        BY <2>1, <2>6, <4>1 DEF Counting
      <4>5. \A k \in Archivings : given1[k] \cap left[v] = {}
        BY <1>n, <2>1, <2>5, <3>2, <4>1 DEF Counting, added
      <4> QED
        BY <4>2, <4>3, <4>4, <4>5
    <3> QED
      BY <3>1, <3>2
  <2>9. Counting(given1, left)'
    BY <1>2, <2>7, <2>8 DEF Counting
  <2> QED
    BY <2>9 DEF CountedOnce
<1> QED
  BY <1>4, <1>5, <1>6, <1>7, <1>8 DEF PurgeInv

LEMMA LeaseTakenPurge ==
    ASSUME RetentionTypes, PurgeInv, NEW w \in Sweepers, NEW n \in Archivings, TakeLease(w, n)
    PROVE  PurgeInv'
<1>1. /\ purge[n] # NoPurge /\ ~purge[n].done /\ ~purge[n].leased /\ SameClaims
      /\ purge'[n].leased
      /\ \A k \in Archivings : /\ purge'[k].done = purge[k].done /\ purge'[k].count = purge[k].count
                               /\ k # n => purge'[k] = purge[k]
      /\ \A v \in Sweepers \ {w} : sweeper'[v] = sweeper[v]
      /\ AtWork(sweeper'[w]) /\ sweeper'[w].step = "delete" /\ sweeper'[w].key = n /\ sweeper'[w].count = 0
      /\ sweeper'[w].seen = {} /\ sweeper'[w].holds /\ sweeper'[w].todo = Unpurged \cap purge[n].covers
      /\ UNCHANGED <<photo, file>>
  BY LeaseTaken DEF photoVars
<1>2. Taken' = Taken /\ Gone' = Gone /\ Unpurged' = Unpurged
  BY <1>1 DEF Taken, Gone, Unpurged
<1>3. purge[n].reason # "none" /\ purge[n].covers \subseteq Unpurged \cup Gone
  BY <1>1, Kinds DEF PurgeInv, AsPurged, SeenBefore
<1>4. SeenBefore'
  BY <1>1, <1>2 DEF PurgeInv, SeenBefore, SameClaims
<1>5. Attempts'
  <2> SUFFICES ASSUME NEW v \in Sweepers, AtWork(sweeper'[v]) PROVE AtPurge(sweeper[v])'
    BY DEF Attempts
  <2>1. CASE v = w
    BY <1>1, <1>2, <1>3, <2>1 DEF AtPurge, SameClaims
  <2>2. CASE v # w
    <3>1. sweeper'[v] = sweeper[v] /\ AtPurge(sweeper[v]) /\ sweeper[v].key \in Archivings
      BY <1>1, <2>2 DEF PurgeInv, Attempts, AtWork
    <3> QED
      BY <1>1, <1>2, <3>1 DEF AtPurge, SameClaims
  <2> QED
    BY <2>1, <2>2
<1>6. OneLease'
  <2>1. ASSUME NEW v \in Sweepers \ {w}, sweeper'[v].holds
        PROVE  sweeper'[v] = sweeper[v] /\ purge'[sweeper[v].key].leased /\ sweeper[v].key # n
    <3>1. sweeper'[v] = sweeper[v] /\ purge[sweeper[v].key].leased
      BY <1>1, <2>1 DEF PurgeInv, OneLease
    <3>2. sweeper[v].key \in Archivings /\ sweeper[v].key # n
      BY <1>1, <2>1, <3>1 DEF RetentionTypes, SweepFits, Elsewhere, AtWork
    <3> QED
      BY <1>1, <3>1, <3>2
  <2> QED
    BY <1>1, <2>1 DEF PurgeInv, OneLease
<1>7. AsPurged'
  <2>1. \A k \in Archivings : purge'[k].reason = "none" => purge'[k] = NoPurge
    BY <1>1, <1>3 DEF PurgeInv, AsPurged, SameClaims
  <2> QED
    BY <1>1, <1>2, <2>1 DEF PurgeInv, AsPurged, UnderWay, SameClaims
<1>8. CountedOnce'
  <2>1. PICK paid \in [Archivings -> SUBSET Photos], owed \in [Sweepers -> SUBSET Photos] : Counting(paid, owed)
    BY DEF PurgeInv, CountedOnce
  <2>2. PICK left \in [Sweepers -> SUBSET Photos] :
            left[w] = {} /\ \A v \in Sweepers \ {w} : left[v] = owed[v]
    <3> DEFINE l == [owed EXCEPT ![w] = {}]
    <3>1. l \in [Sweepers -> SUBSET Photos] /\ l[w] = {} /\ \A v \in Sweepers \ {w} : l[v] = owed[v]
      OBVIOUS
    <3> QED
      BY <3>1
  <2>3. ASSUME NEW k \in Archivings
        PROVE  /\ paid[k] \subseteq purge'[k].covers /\ paid[k] \subseteq Gone
               /\ purge'[k].count <= Cardinality(paid[k])
    BY <1>1, <2>1 DEF Counting, SameClaims
  <2>4. ASSUME NEW v \in Sweepers
        PROVE  /\ left[v] \subseteq Gone /\ sweeper'[v].count <= Cardinality(left[v])
               /\ AtWork(sweeper'[v]) => left[v] \subseteq purge'[sweeper'[v].key].covers
               /\ \A u \in Sweepers : u # v => left[u] \cap left[v] = {}
               /\ \A k \in Archivings : paid[k] \cap left[v] = {}
    <3>1. CASE v = w
      <4>1. left[v] = {} /\ Cardinality(left[v]) = 0
        BY <2>2, <3>1, NoneOf
      <4>2. left[v] \subseteq Gone /\ \A u \in Sweepers : left[u] \cap left[v] = {}
        BY <4>1
      <4>3. sweeper'[v].count <= Cardinality(left[v])
        BY <1>1, <3>1, <4>1
      <4> QED
        BY <4>1, <4>2, <4>3
    <3>2. CASE v # w
      <4>1. left[v] = owed[v] /\ sweeper'[v] = sweeper[v]
        BY <1>1, <2>2, <3>2
      <4>2. AtWork(sweeper[v]) => left[v] \subseteq purge'[sweeper[v].key].covers
        BY <1>1, <2>1, <4>1 DEF Counting, SameClaims, AtWork
      <4>3. \A u \in Sweepers : u # v => left[u] \cap left[v] = {}
        BY <2>1, <2>2, <4>1 DEF Counting
      <4> QED
        BY <2>1, <4>1, <4>2, <4>3 DEF Counting
    <3> QED
      BY <3>1, <3>2
  <2>5. Counting(paid, left)'
    BY <1>2, <2>3, <2>4 DEF Counting
  <2> QED
    BY <2>5 DEF CountedOnce
<1> QED
  BY <1>4, <1>5, <1>6, <1>7, <1>8 DEF PurgeInv

\* A file goes only while a purge that covers it is under way.
LEMMA BatchPurge ==
    ASSUME RetentionTypes, PurgeInv, NEW w \in Sweepers, NEW i \in Photos, DeleteBatch(w, i)
    PROVE  PurgeInv'
<1>1. /\ AtWork(sweeper[w]) /\ sweeper[w].step = "delete" /\ i \in sweeper[w].todo
      /\ \A v \in Sweepers \ {w} : sweeper'[v] = sweeper[v]
      /\ AtWork(sweeper'[w]) /\ sweeper'[w].key = sweeper[w].key /\ sweeper'[w].seen = sweeper[w].seen
      /\ sweeper'[w].count = sweeper[w].count /\ sweeper'[w].holds = sweeper[w].holds
      /\ sweeper'[w].todo = sweeper[w].todo \ {i}
      /\ \/ /\ file' = file \ {i} /\ sweeper'[w].step = "mark" /\ sweeper'[w].mark = i
            /\ sweeper'[w].failed = sweeper[w].failed
         \/ file' \in {file, file \ {i}} /\ sweeper'[w].step = "delete" /\ sweeper'[w].failed
      /\ UNCHANGED <<photo, purge>>
  BY BatchDeleted DEF claimVars
<1>2. Taken' = Taken /\ Gone' = Gone /\ Unpurged' = Unpurged
  BY <1>1 DEF Taken, Gone, Unpurged
<1>3. file \ {i} \subseteq file' /\ file' \subseteq file
  BY <1>1
<1>4. SeenBefore'
  BY <1>1, <1>2 DEF PurgeInv, SeenBefore
<1>5. Attempts'
  <2> SUFFICES ASSUME NEW v \in Sweepers, AtWork(sweeper'[v]) PROVE AtPurge(sweeper[v])'
    BY DEF Attempts
  <2>1. CASE v = w
    <3>1. AtPurge(sweeper[w])
      BY <1>1 DEF PurgeInv, Attempts
    <3> QED
      BY <1>1, <1>2, <2>1, <3>1 DEF AtPurge
  <2>2. CASE v # w
    <3>1. sweeper'[v] = sweeper[v] /\ AtPurge(sweeper[v])
      BY <1>1, <2>2 DEF PurgeInv, Attempts
    <3> QED
      BY <1>1, <1>2, <1>3, <3>1 DEF AtPurge
  <2> QED
    BY <2>1, <2>2
<1>6. OneLease'
  BY <1>1 DEF PurgeInv, OneLease
<1>7. AsPurged'
  <2>1. i \in Unpurged => UnderWay(i)
    <3>1. i \in purge[sweeper[w].key].covers /\ sweeper[w].key \in Archivings
      BY <1>1 DEF PurgeInv, Attempts, AtPurge, AtWork
    <3>2. i \in Unpurged => ~purge[sweeper[w].key].done
      BY <3>1, Kinds DEF PurgeInv, AsPurged
    <3> QED
      BY <3>1, <3>2 DEF UnderWay
  <2>2. \A j \in Unpurged : j \in file' \/ UnderWay(j)
    BY <1>3, <2>1 DEF PurgeInv, AsPurged
  <2> QED
    BY <1>1, <1>2, <1>3, <2>2 DEF PurgeInv, AsPurged, UnderWay
<1>8. CountedOnce'
  <2>1. PICK paid \in [Archivings -> SUBSET Photos], owed \in [Sweepers -> SUBSET Photos] : Counting(paid, owed)
    BY DEF PurgeInv, CountedOnce
  <2>2. \A v \in Sweepers : /\ sweeper'[v].count = sweeper[v].count /\ sweeper'[v].key = sweeper[v].key
                            /\ AtWork(sweeper'[v]) => AtWork(sweeper[v])
    BY <1>1
  <2>3. Counting(paid, owed)'
    BY <1>1, <1>2, <2>1, <2>2 DEF Counting
  <2> QED
    BY <2>3 DEF CountedOnce
<1> QED
  BY <1>4, <1>5, <1>6, <1>7, <1>8 DEF PurgeInv

\* An item is marked once its file is gone, and counted by whoever marks it.
LEMMA MarkPurge ==
    ASSUME RetentionTypes, PurgeInv, NEW w \in Sweepers, MarkPurged(w)
    PROVE  PurgeInv'
<1> DEFINE m == sweeper[w].mark
<1>1. /\ AtWork(sweeper[w]) /\ sweeper[w].step = "mark"
      /\ photo' = IF m \in Unpurged THEN [photo EXCEPT ![m] = "purged"] ELSE photo
      /\ \A v \in Sweepers \ {w} : sweeper'[v] = sweeper[v]
      /\ AtWork(sweeper'[w]) /\ sweeper'[w].step = "delete" /\ sweeper'[w].key = sweeper[w].key
      /\ sweeper'[w].seen = sweeper[w].seen /\ sweeper'[w].todo = sweeper[w].todo
      /\ sweeper'[w].failed = sweeper[w].failed /\ sweeper'[w].holds = sweeper[w].holds
      /\ sweeper'[w].count = IF m \in Unpurged THEN sweeper[w].count + 1 ELSE sweeper[w].count
      /\ UNCHANGED <<file, purge>>
  BY PurgeMarked DEF claimVars
<1>m. /\ AtPurge(sweeper[w]) /\ sweeper[w].key \in Archivings
      /\ m \in purge[sweeper[w].key].covers /\ m \notin file /\ m \in Unpurged \cup Gone
  <2>1. /\ AtPurge(sweeper[w]) /\ sweeper[w].key \in Archivings
        /\ m \in purge[sweeper[w].key].covers /\ m \notin file
    BY <1>1 DEF PurgeInv, Attempts, AtPurge, AtWork
  <2> QED
    BY <2>1, Kinds DEF PurgeInv, SeenBefore
<1>2. Taken' = Taken /\ Gone' = Gone \cup {m} /\ Unpurged' = Unpurged \ {m}
  <2>1. photo \in [Photos -> {"none", "live", "kept", "purged", "unhid"}]
    BY DEF RetentionTypes
  <2>2. CASE m \in Unpurged
    <3>1. m \in Photos /\ photo' = [photo EXCEPT ![m] = "purged"] /\ photo[m] \in {"live", "kept"}
      BY <1>1, <2>2 DEF Unpurged
    <3> HIDE DEF m
    <3> QED
      BY <2>1, <3>1 DEF Taken, Gone, Unpurged
  <2>3. CASE m \notin Unpurged
    BY <1>1, <1>m, <2>3 DEF Taken, Gone, Unpurged
  <2> QED
    BY <2>2, <2>3
<1> HIDE DEF m
<1>4. SeenBefore'
  BY <1>1, <1>2 DEF PurgeInv, SeenBefore
<1>5. Attempts'
  <2> SUFFICES ASSUME NEW v \in Sweepers, AtWork(sweeper'[v]) PROVE AtPurge(sweeper[v])'
    BY DEF Attempts
  <2>1. CASE v = w
    BY <1>1, <1>2, <1>m, <2>1 DEF AtPurge, m
  <2>2. CASE v # w
    <3>1. sweeper'[v] = sweeper[v] /\ AtPurge(sweeper[v])
      BY <1>1, <2>2 DEF PurgeInv, Attempts
    <3> QED
      BY <1>1, <1>2, <3>1 DEF AtPurge
  <2> QED
    BY <2>1, <2>2
<1>6. OneLease'
  BY <1>1 DEF PurgeInv, OneLease
<1>7. AsPurged'
  BY <1>1, <1>2, <1>m DEF PurgeInv, AsPurged, UnderWay
<1>8. CountedOnce'
  <2>1. PICK paid \in [Archivings -> SUBSET Photos], owed \in [Sweepers -> SUBSET Photos] : Counting(paid, owed)
    BY DEF PurgeInv, CountedOnce
  <2>2. CASE m \notin Unpurged
    <3>1. Gone' = Gone /\ sweeper'[w].count = sweeper[w].count
      BY <1>1, <1>2, <1>m, <2>2
    <3>2. \A v \in Sweepers : /\ sweeper'[v].count = sweeper[v].count /\ sweeper'[v].key = sweeper[v].key
                              /\ AtWork(sweeper'[v]) => AtWork(sweeper[v])
      BY <1>1, <3>1
    <3>3. Counting(paid, owed)'
      BY <1>1, <2>1, <3>1, <3>2 DEF Counting
    <3> QED
      BY <3>3 DEF CountedOnce
  <2>3. CASE m \in Unpurged
    <3>1. m \in Photos /\ m \notin Gone /\ sweeper'[w].count = sweeper[w].count + 1
      BY <1>1, <2>3, Kinds
    <3>2. PICK left \in [Sweepers -> SUBSET Photos] :
              left[w] = owed[w] \cup {m} /\ \A v \in Sweepers \ {w} : left[v] = owed[v]
      <4> DEFINE l == [owed EXCEPT ![w] = owed[w] \cup {m}]
      <4>1. l \in [Sweepers -> SUBSET Photos] /\ l[w] = owed[w] \cup {m}
            /\ \A v \in Sweepers \ {w} : l[v] = owed[v]
        BY <3>1
      <4> QED
        BY <4>1
    <3>3. sweeper'[w].count <= Cardinality(left[w])
      <4>1. owed[w] \subseteq Gone /\ sweeper[w].count <= Cardinality(owed[w])
        BY <2>1 DEF Counting
      <4>2. IsFiniteSet(owed[w]) /\ Cardinality(owed[w]) \in Nat
        BY SomeOf
      <4>3. m \notin owed[w]
        BY <3>1, <4>1
      <4>4. Cardinality(left[w]) = Cardinality(owed[w]) + 1
        BY <3>2, <4>2, <4>3, FS_AddElement
      <4>5. sweeper[w].count \in Nat
        BY DEF RetentionTypes, SweepRows
      <4> QED
        BY <3>1, <4>1, <4>2, <4>4, <4>5
    <3>4. ASSUME NEW v \in Sweepers
          PROVE  /\ left[v] \subseteq Gone' /\ sweeper'[v].count <= Cardinality(left[v])
                 /\ AtWork(sweeper'[v]) => left[v] \subseteq purge'[sweeper'[v].key].covers
                 /\ \A u \in Sweepers : u # v => left[u] \cap left[v] = {}
                 /\ \A k \in Archivings : paid[k] \cap left[v] = {}
      <4>0. /\ \A u \in Sweepers : owed[u] \subseteq Gone /\ \A x \in Sweepers : x # u => owed[x] \cap owed[u] = {}
            /\ \A k \in Archivings : paid[k] \subseteq Gone /\ paid[k] \cap owed[v] = {}
        BY <2>1 DEF Counting
      <4>1. \A u \in Sweepers : u # v => left[u] \cap left[v] = {}
        BY <3>1, <3>2, <4>0
      <4>2. \A k \in Archivings : paid[k] \cap left[v] = {}
        BY <3>1, <3>2, <4>0
      <4>3. left[v] \subseteq Gone'
        BY <1>2, <3>2, <4>0
      <4>4. CASE v = w
        <5>1. owed[w] \subseteq purge[sweeper[w].key].covers
          BY <1>1, <2>1 DEF Counting
        <5> QED
          BY <1>1, <1>m, <3>2, <3>3, <4>1, <4>2, <4>3, <4>4, <5>1
      <4>5. CASE v # w
        <5>1. left[v] = owed[v] /\ sweeper'[v] = sweeper[v]
          BY <1>1, <3>2, <4>5
        <5> QED
          BY <1>1, <2>1, <4>1, <4>2, <4>3, <5>1 DEF Counting
      <4> QED
        BY <4>4, <4>5
    <3>5. \A k \in Archivings : /\ paid[k] \subseteq purge'[k].covers /\ paid[k] \subseteq Gone'
                                /\ purge'[k].count <= Cardinality(paid[k])
      BY <1>1, <1>2, <2>1 DEF Counting
    <3>6. Counting(paid, left)'
      BY <3>4, <3>5 DEF Counting
    <3> QED
      BY <3>6 DEF CountedOnce
  <2> QED
    BY <2>2, <2>3
<1> QED
  BY <1>4, <1>5, <1>6, <1>7, <1>8 DEF PurgeInv

LEMMA PurgeNext ==
    ASSUME RetentionTypes, PurgeInv, [RetentionNext]_retentionVars
    PROVE  PurgeInv'
<1>1. CASE UNCHANGED retentionVars
  <2>1. UNCHANGED <<photo, file, purge, sweeper>>
    BY <1>1 DEF retentionVars, photoVars, claimVars
  <2>2. Taken' = Taken /\ Gone' = Gone /\ Unpurged' = Unpurged
    BY <2>1 DEF Taken, Gone, Unpurged
  <2> QED
    BY <2>1, <2>2, PurgeStays
<1>2. ASSUME NEW w \in Sweepers, AttemptSteps(w) PROVE PurgeInv'
  BY <1>2, MarkPurge, EndPurge, LeaseTakenPurge, BatchPurge DEF AttemptSteps
<1>3. CASE RetentionNext
  BY <1>2, <1>3, RetentionCases, AlbumPurge, ClockPurge, LeasePurge, TurnPurge
<1> QED
  BY <1>1, <1>3

LEMMA PurgeInit ==
    ASSUME RetentionInit
    PROVE  PromiseInv /\ PurgeInv
<1>t. RetentionTypes
  BY RetentionInitTypes
<1>1. /\ Taken = {} /\ Unpurged = {} /\ Gone = {}
      /\ \A k \in Archivings : purge[k] = NoPurge /\ emails[k] = 0
      /\ \A w \in Sweepers : sweeper[w] = Asleep /\ Elsewhere(sweeper[w]) /\ ~AtWork(sweeper[w]) /\ ~sweeper[w].holds
                             /\ sweeper[w].count = 0
  BY NothingYet DEF RetentionInit, Taken, Unpurged, Gone, Elsewhere, AtWork
<1>2. PromiseInv
  <2>1. age = 0 /\ ~(age > 0) /\ \A k \in Archivings : emails[k] <= 1
    BY <1>1 DEF RetentionInit
  <2> QED
    BY <1>1, <2>1, NothingYet DEF PromiseInv, Calm, WarnedOnce, StillDue, Promised
<1>3. SeenBefore /\ Attempts /\ OneLease /\ AsPurged
  BY <1>1, NothingYet DEF SeenBefore, Attempts, OneLease, AsPurged
<1>4. CountedOnce
  <2> DEFINE paid == [k \in Archivings |-> {}]
             owed == [w \in Sweepers |-> {}]
  <2>1. paid \in [Archivings -> SUBSET Photos] /\ owed \in [Sweepers -> SUBSET Photos]
    OBVIOUS
  <2>2. /\ \A k \in Archivings : paid[k] = {}
        /\ \A w \in Sweepers : owed[w] = {}
    OBVIOUS
  <2> HIDE DEF paid, owed
  <2>3. \A k \in Archivings : /\ paid[k] \subseteq purge[k].covers /\ paid[k] \subseteq Gone
                              /\ purge[k].count <= Cardinality(paid[k])
    <3> SUFFICES ASSUME NEW k \in Archivings
                 PROVE  /\ paid[k] \subseteq purge[k].covers /\ paid[k] \subseteq Gone
                        /\ purge[k].count <= Cardinality(paid[k])
      OBVIOUS
    <3>1. purge[k].count = 0
      BY <1>1, NothingYet
    <3>2. paid[k] = {} /\ Cardinality(paid[k]) = 0
      BY <2>2, NoneOf
    <3> QED
      BY <3>1, <3>2
  <2>4. \A w \in Sweepers : owed[w] \subseteq Gone /\ sweeper[w].count <= Cardinality(owed[w])
    BY <1>1, <2>2, NoneOf
  <2>5. Counting(paid, owed)
    BY <1>1, <2>2, <2>3, <2>4 DEF Counting
  <2> QED
    BY <2>1, <2>5 DEF CountedOnce
<1> QED
  BY <1>2, <1>3, <1>4 DEF PurgeInv

\* Media is purged no sooner than was promised, and nothing else is: the
\* reminder goes out once, the sweep waits for the days it gave, a purge takes
\* what was there when it began and nothing of a later archiving, a complete one
\* has left no file, and overlapping attempts never count an item twice
\* (media-retention.service.ts).
THEOREM PurgesAreAsPromised == RetentionSpec => []PurgesAsPromised
<1>1. RetentionInit => RetentionTypes /\ PromiseInv /\ PurgeInv
  BY RetentionInitTypes, PurgeInit
<1>2. RetentionTypes /\ PromiseInv /\ PurgeInv /\ [RetentionNext]_retentionVars
        => RetentionTypes' /\ PromiseInv' /\ PurgeInv'
  BY RetentionNextTypes, PromiseNext, PurgeNext
<1>3. RetentionTypes /\ PromiseInv /\ PurgeInv => PurgesAsPromised
  <2> SUFFICES ASSUME RetentionTypes, PromiseInv, PurgeInv PROVE PurgesAsPromised
    OBVIOUS
  <2>1. WeekToDownload
    BY DEF WeekToDownload, PromiseInv, WarnedOnce, Promised
  <2>2. ASSUME NEW i \in Taken
        PROVE  /\ photo[i] = "purged" => \E k \in Archivings : i \in purge[k].covers
               /\ photo[i] = "live" /\ i \notin file => Purging(i)
    <3>1. i \in Photos
      BY DEF Taken
    <3>2. ASSUME photo[i] = "purged" PROVE \E k \in Archivings : i \in purge[k].covers
      BY <3>1, <3>2 DEF PurgeInv, AsPurged, Gone
    <3>3. ASSUME photo[i] = "live", i \notin file PROVE Purging(i)
      <4>1. PICK k \in Archivings : ~purge[k].done /\ i \in purge[k].covers
        BY <3>1, <3>3 DEF PurgeInv, AsPurged, Unpurged, UnderWay
      <4> QED
        BY <4>1, NothingYet DEF Purging
    <3> QED
      BY <3>2, <3>3
  <2>3. ASSUME NEW k \in Archivings
        PROVE  /\ purge[k].done => \A i \in purge[k].covers : photo[i] \in {"purged", "unhid"} /\ i \notin file
               /\ purge[k].count <= Cardinality(purge[k].covers)
               /\ Cardinality({w \in Sweepers : sweeper[w].key = k /\ sweeper[w].holds}) <= 1
    <3>1. purge[k].done => \A i \in purge[k].covers : photo[i] \in {"purged", "unhid"} /\ i \notin file
      BY DEF PurgeInv, AsPurged, Gone
    <3>2. purge[k].count <= Cardinality(purge[k].covers)
      <4>1. PICK paid \in [Archivings -> SUBSET Photos], owed \in [Sweepers -> SUBSET Photos] : Counting(paid, owed)
        BY DEF PurgeInv, CountedOnce
      <4>2. paid[k] \subseteq purge[k].covers /\ purge[k].count <= Cardinality(paid[k])
        BY <4>1 DEF Counting
      <4>3. purge[k].covers \in SUBSET Photos /\ purge[k].count \in Nat
        BY DEF RetentionTypes, PurgeRows
      <4>4. IsFiniteSet(purge[k].covers) /\ Cardinality(purge[k].covers) \in Nat /\ Cardinality(paid[k]) \in Nat
        BY <4>3, SomeOf
      <4>5. Cardinality(paid[k]) <= Cardinality(purge[k].covers)
        BY <4>2, <4>4, FS_Subset
      <4> QED
        BY <4>2, <4>3, <4>4, <4>5
    <3>3. Cardinality({w \in Sweepers : sweeper[w].key = k /\ sweeper[w].holds}) <= 1
      <4> DEFINE holders == {w \in Sweepers : sweeper[w].key = k /\ sweeper[w].holds}
      <4>1. \A w, v \in holders : w = v
        BY DEF PurgeInv, OneLease
      <4>2. CASE holders = {}
        <5>1. Cardinality({}) <= 1
          BY NoneOf
        <5> QED
          BY <4>2, <5>1
      <4>3. CASE holders # {}
        <5>1. PICK w \in holders : holders = {w}
          BY <4>1, <4>3
        <5> HIDE DEF holders
        <5>2. Cardinality(holders) = 1
          BY <5>1, FS_Singleton
        <5> QED
          BY <5>2 DEF holders
      <4> QED
        BY <4>2, <4>3
    <3> QED
      BY <3>1, <3>2, <3>3
  <2>4. PurgesWhatItSaw
    BY <2>2, <2>3 DEF PurgesWhatItSaw
  <2> QED
    BY <2>1, <2>4 DEF PurgesAsPromised
<1> QED
  BY <1>1, <1>2, <1>3, PTL DEF RetentionSpec
=============================================================================
