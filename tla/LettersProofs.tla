---------------------------- MODULE LettersProofs ----------------------------
(***************************************************************************)
(* Theorems about Reminders and Announcements, for every number of guests, *)
(* invites and concurrent requests, and whatever the limits.               *)
(***************************************************************************)
EXTENDS Letters, Integers, FiniteSetTheorems, WellFoundedInduction, TLAPS

-----------------------------------------------------------------------------
(* Reminders: types.                                                       *)

LetterRows == [answered : BOOLEAN, live : BOOLEAN, delivered : BOOLEAN, reminded : {"never", "today", "before"}]
Befores == UNION {[S -> {"never", "before"}] : S \in SUBSET Letters}
JobRows == [op : {"none", "INVITE", "REMINDER"}, step : {"idle", "claim", "emails", "batch", "mark", "text", "end"},
            pick : SUBSET Letters, before : Befores, todo : SUBSET Letters, ok : SUBSET Letters]

\* What a job reached and has still to send is of its pick; a reminder knows when
\* each of its pick was reminded before.
JobFits(j) ==
    /\ j \in JobRows
    /\ j.op = "none" <=> j.step = "idle"
    /\ j.step = "idle" => j.pick = {}
    /\ j.step = "claim" => j.op = "REMINDER"
    /\ j.step \in {"idle", "claim", "emails", "batch"} => j.ok = {} /\ j.todo = {}
    /\ j.ok \subseteq j.pick /\ j.todo \subseteq j.pick \cap ByText /\ j.todo \cap j.ok = {}
    /\ j.op = "REMINDER" => j.pick \subseteq DOMAIN j.before

RemindersTypes ==
    /\ letter \in [Letters -> LetterRows] /\ latest \in [Guests -> 0..MaxLetters]
    /\ posted \in 0..EmailLimit /\ texts \in Nat /\ mailed \in Nat
    /\ reached \in [Guests -> Nat] /\ blurred \in SUBSET (Guests \cup {Texts})
    /\ job \in [Senders -> JobRows] /\ \A r \in Senders : JobFits(job[r])

LEMMA LetterBounds ==
    /\ MaxLetters \in Nat /\ EmailLimit \in Nat /\ TextQuota \in Nat
    /\ Holder \in [Letters -> Guests] /\ ByText \subseteq Letters /\ Texts \notin Guests
    /\ IsFiniteSet(Letters) /\ Letters \subseteq Nat
<1>1. /\ MaxLetters \in Nat /\ EmailLimit \in Nat /\ TextQuota \in Nat
      /\ Holder \in [Letters -> Guests] /\ ByText \subseteq Letters /\ Texts \notin Guests
  BY RemindersAssumption DEF Letters
<1>2. IsFiniteSet(1..MaxLetters) /\ 1..MaxLetters \subseteq Nat
  BY <1>1, FS_Interval
<1> QED
  BY <1>1, <1>2 DEF Letters

LEMMA SomeLetters ==
    ASSUME NEW S \in SUBSET Letters
    PROVE  IsFiniteSet(S) /\ Cardinality(S) \in Nat
<1>1. IsFiniteSet(S)
  BY LetterBounds, FS_Subset
<1> QED
  BY <1>1, FS_CardinalityType

LEMMA JobMade ==
    ASSUME NEW op \in {"none", "INVITE", "REMINDER"},
           NEW step \in {"idle", "claim", "emails", "batch", "mark", "text", "end"},
           NEW pick \in SUBSET Letters, NEW before \in Befores
    PROVE  LET j == Job(op, step, pick, before)
           IN  /\ j \in JobRows /\ j.op = op /\ j.step = step /\ j.pick = pick /\ j.before = before
               /\ j.todo = {} /\ j.ok = {}
BY DEF Job, JobRows

LEMMA NothingBefore == <<>> \in Befores
<1>1. <<>> \in [{} -> {"never", "before"}] /\ {} \in SUBSET Letters
  OBVIOUS
<1> QED
  BY <1>1 DEF Befores

LEMMA NoJobIs ==
    /\ JobFits(NoJob) /\ NoJob \in JobRows /\ NoJob.op = "none" /\ NoJob.step = "idle" /\ NoJob.pick = {}
    /\ NoJob.ok = {} /\ NoJob.todo = {}
<1>1. /\ NoJob.op = "none" /\ NoJob.step = "idle" /\ NoJob.pick = {}
      /\ NoJob.ok = {} /\ NoJob.todo = {}
  BY DEF NoJob, Job
<1>2. NoJob \in JobRows
  BY NothingBefore DEF NoJob, Job, JobRows
<1> QED
  BY <1>1, <1>2 DEF JobFits

\* One request goes on with j.
NowDoing(r, j) == job'[r] = j /\ \A q \in Senders \ {r} : job'[q] = job[q]

LEMMA DoesFit ==
    ASSUME RemindersTypes, NEW r \in Senders, NEW j, Does(r, j), JobFits(j)
    PROVE  NowDoing(r, j) /\ job' \in [Senders -> JobRows] /\ \A q \in Senders : JobFits(job'[q])
<1>1. job' = [job EXCEPT ![r] = j] /\ j \in JobRows /\ job \in [Senders -> JobRows]
      /\ \A q \in Senders : JobFits(job[q])
  BY DEF Does, RemindersTypes, JobFits
<1>2. NowDoing(r, j)
  BY <1>1 DEF NowDoing
<1> QED
  BY <1>1, <1>2 DEF NowDoing

LEMMA BlursGuests ==
    ASSUME NEW S \in SUBSET Letters
    PROVE  Blurs(S) \subseteq Guests
BY LetterBounds DEF Blurs

\* A set of naturals that is not empty has a least element.
LEMMA Fewest ==
    ASSUME NEW S \in SUBSET Nat, S # {}
    PROVE  \E x \in S : \A y \in S : x <= y
<1> DEFINE R == OpToRel(<, Nat)
<1>1. IsWellFoundedOn(R, Nat)
  BY NatLessThanWellFounded
<1>2. PICK x \in S : \A y \in S : <<y, x>> \notin R
  BY <1>1, WFMin
<1>3. \A y \in S : ~(y < x)
  BY <1>2 DEF OpToRel
<1> QED
  BY <1>3

\* Some invites have a highest: the one with the fewest above it.
LEMMA HighestOf ==
    ASSUME NEW S \in SUBSET Letters, S # {}
    PROVE  Max(S) \in S
<1> DEFINE T == {MaxLetters - i : i \in S}
<1>1. MaxLetters \in Nat /\ \A i \in S : i \in Nat /\ MaxLetters - i \in Nat
  BY LetterBounds DEF Letters
<1>2. T \in SUBSET Nat /\ T # {}
  BY <1>1
<1>3. PICK t \in T : \A u \in T : t <= u
  BY <1>2, Fewest
<1>4. PICK x \in S : t = MaxLetters - x
  BY <1>3
<1>5. ASSUME NEW y \in S PROVE x >= y
  <2>1. MaxLetters - y \in T
    OBVIOUS
  <2>2. MaxLetters - x <= MaxLetters - y
    BY <1>3, <1>4, <2>1
  <2> QED
    BY <1>1, <2>2
<1>6. \E m \in S : \A y \in S : m >= y
  BY <1>4, <1>5
<1> QED
  BY <1>6 DEF Max

LEMMA TargetIs ==
    ASSUME NEW g \in Guests, Remindable(g)
    PROVE  Target(g) \in Of(g)
<1>1. CASE latest[g] \in Of(g)
  BY <1>1 DEF Target
<1>2. CASE latest[g] \notin Of(g)
  <2> DEFINE S == {i \in Of(g) : letter[i].delivered}
  <2>1. S # {} /\ S \in SUBSET Letters /\ S \subseteq Of(g)
    BY DEF Remindable, Of, Live
  <2>2. Target(g) = Max(S)
    BY <1>2 DEF Target
  <2> HIDE DEF S
  <2>3. Max(S) \in S
    BY <2>1, HighestOf
  <2> QED
    BY <2>1, <2>2, <2>3
<1> QED
  BY <1>1, <1>2

\* What a step of one request leaves well formed, and of whom else nothing changed.
NextJobs(r) ==
    /\ job' \in [Senders -> JobRows] /\ \A q \in Senders : JobFits(job'[q])
    /\ \A q \in Senders \ {r} : job'[q] = job[q]

SameReminded == \A i \in Letters : letter'[i].reminded = letter[i].reminded

LEMMA JobStepped ==
    ASSUME NEW j \in JobRows, NEW step \in {"idle", "claim", "emails", "batch", "mark", "text", "end"}
    PROVE  LET n == [j EXCEPT !.step = step]
           IN  /\ n \in JobRows /\ n.op = j.op /\ n.step = step /\ n.pick = j.pick /\ n.before = j.before
               /\ n.todo = j.todo /\ n.ok = j.ok
BY DEF JobRows

LEMMA JobTexted ==
    ASSUME NEW j \in JobRows, NEW i \in Letters
    PROVE  /\ LET n == [j EXCEPT !.todo = @ \ {i}]
              IN  /\ n \in JobRows /\ n.op = j.op /\ n.step = j.step /\ n.pick = j.pick /\ n.before = j.before
                  /\ n.todo = j.todo \ {i} /\ n.ok = j.ok
           /\ LET n == [j EXCEPT !.todo = @ \ {i}, !.ok = @ \cup {i}]
              IN  /\ n \in JobRows /\ n.op = j.op /\ n.step = j.step /\ n.pick = j.pick /\ n.before = j.before
                  /\ n.todo = j.todo \ {i} /\ n.ok = j.ok \cup {i}
BY DEF JobRows

LEMMA JobClaimed ==
    ASSUME NEW j \in JobRows, NEW S \in SUBSET Letters
    PROVE  LET n == [j EXCEPT !.step = "emails", !.pick = S]
           IN  /\ n \in JobRows /\ n.op = j.op /\ n.step = "emails" /\ n.pick = S /\ n.before = j.before
               /\ n.todo = j.todo /\ n.ok = j.ok
BY DEF JobRows

LEMMA GoesOn ==
    ASSUME RemindersTypes, NEW r \in Senders, NEW n, Does(r, n), JobFits(n)
    PROVE  NextJobs(r) /\ job'[r] = n
BY DoesFit DEF NextJobs, NowDoing

LEMMA DeliversIs ==
    ASSUME RemindersTypes, NEW S \in SUBSET Letters, NEW op, Delivers(op, S)
    PROVE  /\ letter' \in [Letters -> LetterRows] /\ latest' \in [Guests -> 0..MaxLetters]
           /\ \A i \in Letters : letter'[i].reminded = letter[i].reminded /\ letter'[i].live = letter[i].live
           /\ op = "REMINDER" => UNCHANGED <<letter, latest>>
           /\ \A i \in Letters \ S : letter'[i] = letter[i]
           /\ \A g \in Guests : (\A i \in S : Holder[i] # g) => latest'[g] = latest[g]
<1>t. letter \in [Letters -> LetterRows] /\ latest \in [Guests -> 0..MaxLetters]
  BY DEF RemindersTypes
<1>1. CASE op = "REMINDER"
  BY <1>t, <1>1 DEF Delivers
<1>2. CASE op # "REMINDER"
  <2>1. /\ letter' = [i \in Letters |-> IF i \in S THEN [letter[i] EXCEPT !.delivered = TRUE] ELSE letter[i]]
        /\ latest' = [g \in Guests |-> LET D == {i \in S : Holder[i] = g} IN IF D = {} THEN latest[g] ELSE Max(D)]
    BY <1>2 DEF Delivers
  <2>2. ASSUME NEW i \in Letters
        PROVE  /\ letter'[i] \in LetterRows /\ letter'[i].reminded = letter[i].reminded
               /\ letter'[i].live = letter[i].live /\ (i \notin S => letter'[i] = letter[i])
    <3>1. letter'[i] = IF i \in S THEN [letter[i] EXCEPT !.delivered = TRUE] ELSE letter[i]
      BY <2>1
    <3> QED
      BY <1>t, <3>1 DEF LetterRows
  <2>3. ASSUME NEW g \in Guests
        PROVE  latest'[g] \in 0..MaxLetters /\ ((\A i \in S : Holder[i] # g) => latest'[g] = latest[g])
    <3> DEFINE D == {i \in S : Holder[i] = g}
    <3>1. latest'[g] = IF D = {} THEN latest[g] ELSE Max(D)
      BY <2>1
    <3>2. ASSUME D # {} PROVE Max(D) \in D
      <4>1. D \in SUBSET Letters
        OBVIOUS
      <4> HIDE DEF D
      <4> QED
        BY <3>2, <4>1, HighestOf
    <3>3. \A i \in Letters : i \in 0..MaxLetters
      BY LetterBounds DEF Letters
    <3> QED
      BY <1>t, <3>1, <3>2, <3>3
  <2>4. letter' \in [Letters -> LetterRows] /\ latest' \in [Guests -> 0..MaxLetters]
    BY <2>1, <2>2, <2>3
  <2> QED
    BY <1>2, <2>2, <2>3, <2>4
<1> QED
  BY <1>1, <1>2

LEMMA SendReads ==
    ASSUME RemindersTypes, NEW r \in Senders, NEW S \in SUBSET Letters, SendRead(r, S)
    PROVE  /\ NextJobs(r) /\ job[r] = NoJob /\ job'[r].op = "INVITE" /\ job'[r].step = "emails" /\ job'[r].pick = S
           /\ TextsAllow(S) /\ blurred' = blurred \cup Overlaps(S)
           /\ UNCHANGED <<letter, latest, posted, texts, reached, mailed>>
<1>1. /\ job[r] = NoJob /\ TextsAllow(S) /\ Does(r, Job("INVITE", "emails", S, <<>>)) /\ blurred' = blurred \cup Overlaps(S)
      /\ UNCHANGED <<letter, latest, posted, texts, reached, mailed>>
  BY DEF SendRead
<1> DEFINE n == Job("INVITE", "emails", S, <<>>)
<1>2. n \in JobRows /\ n.op = "INVITE" /\ n.step = "emails" /\ n.pick = S /\ n.todo = {} /\ n.ok = {}
  BY NothingBefore DEF Job, JobRows
<1> HIDE DEF n
<1>3. JobFits(n)
  BY <1>2 DEF JobFits
<1>4. Does(r, n)
  BY <1>1 DEF n
<1>5. NextJobs(r) /\ job'[r] = n
  BY <1>3, <1>4, GoesOn
<1> QED
  BY <1>1, <1>2, <1>5

LEMMA EmailsClaimed ==
    ASSUME RemindersTypes, NEW r \in Senders, ClaimEmails(r)
    PROVE  /\ NextJobs(r) /\ job[r].step = "emails" /\ job'[r].op = job[r].op /\ job'[r].pick = job[r].pick
           /\ job'[r].ok = {} /\ job'[r].todo = {} /\ job[r].ok = {} /\ job[r].todo = {}
           /\ \/ /\ EmailsAllow(job[r].pick) /\ posted' = posted + Cardinality(Emailed(job[r].pick))
                 /\ job'[r].step = "batch"
              \/ UNCHANGED posted /\ job'[r].step = "end"
           /\ UNCHANGED <<letter, latest, texts, reached, mailed, blurred>>
<1>t. JobFits(job[r]) /\ job[r] \in JobRows /\ job[r].step = "emails" /\ job[r].op # "none"
      /\ job[r].ok = {} /\ job[r].todo = {}
  BY DEF RemindersTypes, JobFits, ClaimEmails
<1>0. UNCHANGED <<letter, latest, texts, reached, mailed, blurred>>
  BY DEF ClaimEmails
<1>1. ASSUME NEW step \in {"batch", "end"}, Does(r, [job[r] EXCEPT !.step = step])
      PROVE  /\ NextJobs(r) /\ job'[r].op = job[r].op /\ job'[r].pick = job[r].pick
             /\ job'[r].ok = {} /\ job'[r].todo = {} /\ job'[r].step = step
  <2> DEFINE n == [job[r] EXCEPT !.step = step]
  <2>1. /\ n \in JobRows /\ n.op = job[r].op /\ n.step = step /\ n.pick = job[r].pick /\ n.before = job[r].before
        /\ n.todo = job[r].todo /\ n.ok = job[r].ok
    <3>1. job[r] \in JobRows
      BY <1>t
    <3>2. step \in {"idle", "claim", "emails", "batch", "mark", "text", "end"}
      OBVIOUS
    <3> QED
      BY <3>1, <3>2, JobStepped, Zenon
  <2>2. Does(r, n)
    BY <1>1
  <2> HIDE DEF n
  <2>3. JobFits(n)
    BY <1>t, <2>1 DEF JobFits
  <2>4. NextJobs(r) /\ job'[r] = n
    BY <2>2, <2>3, GoesOn
  <2> QED
    BY <1>t, <2>1, <2>4
<1>2. CASE EmailsAllow(job[r].pick)
  <2>1. posted' = posted + Cardinality(Emailed(job[r].pick)) /\ Does(r, [job[r] EXCEPT !.step = "batch"])
    BY <1>2 DEF ClaimEmails
  <2> QED
    BY <1>t, <1>0, <1>1, <1>2, <2>1
<1>3. CASE ~EmailsAllow(job[r].pick)
  <2>1. UNCHANGED posted /\ Does(r, [job[r] EXCEPT !.step = "end"])
    BY <1>3 DEF ClaimEmails
  <2> QED
    BY <1>t, <1>0, <1>1, <2>1
<1> QED
  BY <1>2, <1>3

LEMMA EmailsSent ==
    ASSUME RemindersTypes, NEW r \in Senders, NEW went \in SUBSET Letters, NEW ok \in SUBSET went, SendEmails(r, went, ok)
    PROVE  /\ NextJobs(r) /\ job[r].step = "batch" /\ job'[r].op = job[r].op /\ job'[r].pick = job[r].pick
           /\ job[r].ok = {} /\ job'[r].ok = ok /\ job'[r].step = "mark" /\ ok \subseteq job[r].pick
           /\ job'[r].todo = job[r].pick \cap ByText
           /\ went \subseteq Emailed(job[r].pick) /\ mailed' = mailed + Cardinality(went)
           /\ \A g \in Guests : reached'[g] = IF job[r].op = "INVITE" THEN reached[g]
                                              ELSE reached[g] + Cardinality({i \in ok : Holder[i] = g})
           /\ reached' \in [Guests -> Nat]
           /\ UNCHANGED <<letter, latest, posted, texts, blurred>>
<1>t. JobFits(job[r]) /\ job[r] \in JobRows /\ job[r].step = "batch" /\ job[r].op # "none"
      /\ job[r].ok = {} /\ job[r].todo = {} /\ job[r].pick \in SUBSET Letters
  BY DEF RemindersTypes, JobFits, JobRows, SendEmails
<1>1. /\ ok \subseteq Emailed(job[r].pick) /\ went \subseteq Emailed(job[r].pick) /\ mailed' = mailed + Cardinality(went)
      /\ reached' = [g \in Guests |-> IF job[r].op = "INVITE" THEN reached[g]
                                      ELSE reached[g] + Cardinality({i \in ok : Holder[i] = g})]
      /\ Does(r, [job[r] EXCEPT !.step = "mark", !.ok = ok, !.todo = job[r].pick \cap ByText])
      /\ UNCHANGED <<letter, latest, posted, texts, blurred>>
  BY DEF SendEmails
<1> DEFINE n == [job[r] EXCEPT !.step = "mark", !.ok = ok, !.todo = job[r].pick \cap ByText]
<1>2. /\ n \in JobRows /\ n.op = job[r].op /\ n.step = "mark" /\ n.pick = job[r].pick /\ n.before = job[r].before
      /\ n.todo = job[r].pick \cap ByText /\ n.ok = ok
  <2> DEFINE todo == job[r].pick \cap ByText
  <2>1. todo \in SUBSET Letters
    BY <1>t
  <2>3. job[r] \in JobRows
    BY <1>t
  <2>4. ok \in SUBSET Letters
    OBVIOUS
  <2> HIDE DEF todo
  <2>2. LET m == [job[r] EXCEPT !.step = "mark", !.ok = ok, !.todo = todo]
        IN  /\ m \in JobRows /\ m.op = job[r].op /\ m.step = "mark" /\ m.pick = job[r].pick
            /\ m.before = job[r].before /\ m.todo = todo /\ m.ok = ok
    BY <2>1, <2>3, <2>4 DEF JobRows
  <2> QED
    BY <2>2 DEF todo
<1>3. Does(r, n)
  BY <1>1
<1> HIDE DEF n
<1>4. JobFits(n)
  BY <1>1, <1>2, <1>t DEF JobFits, Emailed
<1>5. NextJobs(r) /\ job'[r] = n
  BY <1>3, <1>4, GoesOn
<1>6. ASSUME NEW g \in Guests
      PROVE  /\ reached'[g] = IF job[r].op = "INVITE" THEN reached[g]
                              ELSE reached[g] + Cardinality({i \in ok : Holder[i] = g})
             /\ reached'[g] \in Nat
  <2>1. Cardinality({i \in ok : Holder[i] = g}) \in Nat
    BY SomeLetters
  <2> QED
    BY <1>1, <2>1 DEF RemindersTypes
<1>7. reached' \in [Guests -> Nat]
  BY <1>1, <1>6
<1>8. ok \subseteq job[r].pick
  BY <1>1 DEF Emailed
<1> QED
  BY <1>t, <1>1, <1>2, <1>5, <1>6, <1>7, <1>8

LEMMA DeliveryMarked ==
    ASSUME RemindersTypes, NEW r \in Senders, MarkDelivered(r)
    PROVE  /\ NextJobs(r) /\ job[r].step = "mark" /\ job'[r].op = job[r].op /\ job'[r].pick = job[r].pick
           /\ job'[r].ok = job[r].ok /\ job'[r].todo = job[r].todo /\ job'[r].step = "text"
           /\ job[r].ok \in SUBSET Letters /\ Delivers(job[r].op, job[r].ok)
           /\ blurred' = IF job[r].op = "INVITE" THEN blurred \cup Blurs(job[r].ok) ELSE blurred
           /\ UNCHANGED <<posted, texts, reached, mailed>>
<1>t. JobFits(job[r]) /\ job[r] \in JobRows /\ job[r].step = "mark" /\ job[r].op # "none"
      /\ job[r].ok \in SUBSET Letters
  BY DEF RemindersTypes, JobFits, JobRows, MarkDelivered
<1>1. /\ Delivers(job[r].op, job[r].ok)
      /\ blurred' = IF job[r].op = "INVITE" THEN blurred \cup Blurs(job[r].ok) ELSE blurred
      /\ Does(r, [job[r] EXCEPT !.step = "text"])
      /\ UNCHANGED <<posted, texts, reached, mailed>>
  BY DEF MarkDelivered
<1> DEFINE n == [job[r] EXCEPT !.step = "text"]
<1>2. /\ n \in JobRows /\ n.op = job[r].op /\ n.step = "text" /\ n.pick = job[r].pick /\ n.before = job[r].before
      /\ n.todo = job[r].todo /\ n.ok = job[r].ok
  BY <1>t, JobStepped
<1>3. Does(r, n)
  BY <1>1
<1> HIDE DEF n
<1>4. JobFits(n)
  BY <1>2, <1>t DEF JobFits
<1>5. NextJobs(r) /\ job'[r] = n
  BY <1>3, <1>4, GoesOn
<1> QED
  BY <1>t, <1>1, <1>2, <1>5

\* One text: not sent, sent, or sent with no row.
LEMMA TextSent ==
    ASSUME RemindersTypes, NEW r \in Senders, NEW i \in Letters, SendText(r, i)
    PROVE  /\ NextJobs(r) /\ job[r].step = "text" /\ i \in job[r].todo /\ i \in job[r].pick /\ i \notin job[r].ok
           /\ job'[r].op = job[r].op /\ job'[r].pick = job[r].pick
           /\ \/ /\ job'[r].step = "text" /\ job'[r].todo = job[r].todo \ {i} /\ job'[r].ok = job[r].ok
                 /\ UNCHANGED <<letter, latest, texts, reached, blurred>>
              \/ /\ Delivers(job[r].op, {i})
                 /\ reached' = IF job[r].op = "INVITE" THEN reached ELSE [reached EXCEPT ![Holder[i]] = @ + 1]
                 /\ \/ /\ job'[r].step = "text" /\ job'[r].todo = job[r].todo \ {i} /\ job'[r].ok = job[r].ok \cup {i}
                       /\ texts' = texts + 1
                       /\ blurred' = blurred \cup (IF job[r].op = "INVITE" THEN Blurs({i}) ELSE {})
                    \/ /\ job'[r].step = "end" /\ job'[r].todo = job[r].todo /\ job'[r].ok = job[r].ok
                       /\ UNCHANGED texts
                       /\ blurred' = blurred \cup {Texts, Holder[i]} \cup (IF job[r].op = "INVITE" THEN Blurs({i}) ELSE {})
           /\ UNCHANGED <<posted, mailed>>
<1>t. /\ JobFits(job[r]) /\ job[r] \in JobRows /\ job[r].step = "text" /\ i \in job[r].todo /\ job[r].op # "none"
      /\ i \in job[r].pick /\ i \notin job[r].ok
  BY DEF RemindersTypes, JobFits, SendText
<1>0. UNCHANGED <<posted, mailed>>
  BY DEF SendText
<1>1. ASSUME NEW n, Does(r, n), n \in JobRows, n.op = job[r].op, n.step \in {"text", "end"}, n.pick = job[r].pick,
             n.before = job[r].before, n.todo \subseteq job[r].todo, n.ok \subseteq job[r].ok \cup {i}, n.todo \cap n.ok = {}
      PROVE  NextJobs(r) /\ job'[r] = n
  <2>1. JobFits(n)
    BY <1>t, <1>1 DEF JobFits
  <2> QED
    BY <1>1, <2>1, GoesOn
<1>2. CASE Does(r, [job[r] EXCEPT !.todo = @ \ {i}]) /\ UNCHANGED <<letter, latest, texts, reached, blurred>>
  <2> DEFINE n == [job[r] EXCEPT !.todo = @ \ {i}]
  <2>1. /\ n \in JobRows /\ n.op = job[r].op /\ n.step = job[r].step /\ n.pick = job[r].pick /\ n.before = job[r].before
        /\ n.todo = job[r].todo \ {i} /\ n.ok = job[r].ok
    BY <1>t DEF JobRows
  <2>2. Does(r, n)
    BY <1>2
  <2> HIDE DEF n
  <2>3. n.todo \cap n.ok = {}
    BY <1>t, <2>1 DEF JobFits
  <2>4. NextJobs(r) /\ job'[r] = n
    BY <1>1, <1>t, <2>1, <2>2, <2>3
  <2> QED
    BY <1>t, <1>0, <1>2, <2>1, <2>4
<1>3. ASSUME Delivers(job[r].op, {i}),
             reached' = IF job[r].op = "INVITE" THEN reached ELSE [reached EXCEPT ![Holder[i]] = @ + 1],
             texts' = texts + 1,
             blurred' = blurred \cup {} \cup (IF job[r].op = "INVITE" THEN Blurs({i}) ELSE {}),
             Does(r, [job[r] EXCEPT !.todo = @ \ {i}, !.ok = @ \cup {i}])
      PROVE  /\ NextJobs(r) /\ job'[r].op = job[r].op /\ job'[r].pick = job[r].pick
             /\ job'[r].step = "text" /\ job'[r].todo = job[r].todo \ {i} /\ job'[r].ok = job[r].ok \cup {i}
  <2> DEFINE n == [job[r] EXCEPT !.todo = @ \ {i}, !.ok = @ \cup {i}]
  <2>1. /\ n \in JobRows /\ n.op = job[r].op /\ n.step = job[r].step /\ n.pick = job[r].pick /\ n.before = job[r].before
        /\ n.todo = job[r].todo \ {i} /\ n.ok = job[r].ok \cup {i}
    BY <1>t DEF JobRows
  <2>2. Does(r, n)
    BY <1>3
  <2> HIDE DEF n
  <2>3. n.todo \cap n.ok = {}
    BY <1>t, <2>1 DEF JobFits
  <2>4. NextJobs(r) /\ job'[r] = n
    BY <1>1, <1>t, <2>1, <2>2, <2>3
  <2> QED
    BY <1>t, <2>1, <2>4
<1>4. ASSUME Does(r, [job[r] EXCEPT !.step = "end"])
      PROVE  /\ NextJobs(r) /\ job'[r].op = job[r].op /\ job'[r].pick = job[r].pick
             /\ job'[r].step = "end" /\ job'[r].todo = job[r].todo /\ job'[r].ok = job[r].ok
  <2> DEFINE n == [job[r] EXCEPT !.step = "end"]
  <2>1. /\ n \in JobRows /\ n.op = job[r].op /\ n.step = "end" /\ n.pick = job[r].pick /\ n.before = job[r].before
        /\ n.todo = job[r].todo /\ n.ok = job[r].ok
    BY <1>t DEF JobRows
  <2>2. Does(r, n)
    BY <1>4
  <2> HIDE DEF n
  <2>3. n.todo \cap n.ok = {}
    BY <1>t, <2>1 DEF JobFits
  <2>4. NextJobs(r) /\ job'[r] = n
    BY <1>1, <1>t, <2>1, <2>2, <2>3
  <2> QED
    BY <2>1, <2>4
<1>5. \/ Does(r, [job[r] EXCEPT !.todo = @ \ {i}]) /\ UNCHANGED <<letter, latest, texts, reached, blurred>>
      \/ /\ Delivers(job[r].op, {i})
         /\ reached' = IF job[r].op = "INVITE" THEN reached ELSE [reached EXCEPT ![Holder[i]] = @ + 1]
         /\ \/ /\ texts' = texts + 1
               /\ blurred' = blurred \cup {} \cup (IF job[r].op = "INVITE" THEN Blurs({i}) ELSE {})
               /\ Does(r, [job[r] EXCEPT !.todo = @ \ {i}, !.ok = @ \cup {i}])
            \/ /\ UNCHANGED texts
               /\ blurred' = blurred \cup {Texts, Holder[i]} \cup (IF job[r].op = "INVITE" THEN Blurs({i}) ELSE {})
               /\ Does(r, [job[r] EXCEPT !.step = "end"])
  BY DEF SendText
<1>6. blurred \cup {} = blurred
  OBVIOUS
<1> QED
  BY <1>t, <1>0, <1>2, <1>3, <1>4, <1>5, <1>6

\* A reminder picks one invite of each guest, who was not reminded today.
LEMMA RemindReads ==
    ASSUME RemindersTypes, NEW r \in Senders, NEW G \in SUBSET Guests, RemindRead(r, G)
    PROVE  /\ NextJobs(r) /\ job[r] = NoJob /\ job'[r].op = "REMINDER" /\ job'[r].step = "claim"
           /\ TextsAllow(job'[r].pick) /\ blurred' = blurred \cup Overlaps(job'[r].pick)
           /\ \A i \in job'[r].pick : i \in Letters /\ Remindable(Holder[i]) /\ i = Target(Holder[i])
           /\ UNCHANGED <<letter, latest, posted, texts, reached, mailed>>
<1> DEFINE S == {Target(g) : g \in {h \in G : Remindable(h)}}
           b == [i \in S |-> letter[i].reminded]
           n == Job("REMINDER", "claim", S, b)
<1>1. /\ job[r] = NoJob /\ TextsAllow(S) /\ Does(r, n) /\ blurred' = blurred \cup Overlaps(S)
      /\ UNCHANGED <<letter, latest, posted, texts, reached, mailed>>
  BY DEF RemindRead
<1>2. ASSUME NEW i \in S
      PROVE  /\ i \in Letters /\ Remindable(Holder[i]) /\ i = Target(Holder[i])
             /\ letter[i].reminded \in {"never", "before"}
  <2>1. PICK g \in Guests : Remindable(g) /\ i = Target(g)
    OBVIOUS
  <2>2. i \in Of(g)
    BY <2>1, TargetIs
  <2>3. i \in Letters /\ Holder[i] = g /\ letter[i].reminded # "today"
    BY <2>1, <2>2 DEF Of, Live, Remindable
  <2>4. letter[i] \in LetterRows
    BY <2>3 DEF RemindersTypes
  <2> QED
    BY <2>1, <2>3, <2>4 DEF LetterRows
<1> HIDE DEF S
<1>3. S \in SUBSET Letters /\ b \in [S -> {"never", "before"}] /\ DOMAIN b = S
  BY <1>2
<1> HIDE DEF b
<1>4. b \in Befores
  BY <1>3 DEF Befores
<1>5. /\ n \in JobRows /\ n.op = "REMINDER" /\ n.step = "claim" /\ n.pick = S /\ n.before = b
      /\ n.todo = {} /\ n.ok = {}
  BY <1>3, <1>4 DEF Job, JobRows
<1> HIDE DEF n
<1>6. JobFits(n)
  BY <1>3, <1>5 DEF JobFits
<1>7. NextJobs(r) /\ job'[r] = n
  BY <1>1, <1>6, GoesOn
<1> QED
  BY <1>1, <1>2, <1>5, <1>7

LEMMA RemindersClaimed ==
    ASSUME RemindersTypes, NEW r \in Senders, ClaimReminders(r)
    PROVE  /\ NextJobs(r) /\ job[r].step = "claim" /\ job[r].op = "REMINDER" /\ job'[r].op = "REMINDER"
           /\ job'[r].step = "emails" /\ job'[r].pick = {i \in job[r].pick : Claimable(i)}
           /\ job'[r].ok = {} /\ job'[r].todo = {} /\ job[r].pick \in SUBSET Letters
           /\ letter' \in [Letters -> LetterRows]
           /\ \A i \in Letters : /\ letter'[i].live = letter[i].live /\ letter'[i].delivered = letter[i].delivered
                                 /\ letter'[i].reminded = IF i \in job'[r].pick THEN "today" ELSE letter[i].reminded
           /\ UNCHANGED <<latest, posted, texts, reached, mailed, blurred>>
<1>t. /\ JobFits(job[r]) /\ job[r] \in JobRows /\ job[r].step = "claim" /\ job[r].op = "REMINDER"
      /\ job[r].ok = {} /\ job[r].todo = {} /\ job[r].pick \in SUBSET Letters
      /\ letter \in [Letters -> LetterRows]
  BY DEF RemindersTypes, JobFits, JobRows, ClaimReminders
<1> DEFINE S == {i \in job[r].pick : Claimable(i)}
           n == [job[r] EXCEPT !.step = "emails", !.pick = S]
<1>1. /\ letter' = [i \in Letters |-> IF i \in S THEN [letter[i] EXCEPT !.reminded = "today"] ELSE letter[i]]
      /\ Does(r, n) /\ UNCHANGED <<latest, posted, texts, reached, mailed, blurred>>
  BY DEF ClaimReminders
<1>2. S \in SUBSET Letters /\ S \subseteq job[r].pick
  BY <1>t
<1> HIDE DEF S
<1>3. /\ n \in JobRows /\ n.op = job[r].op /\ n.step = "emails" /\ n.pick = S /\ n.before = job[r].before
      /\ n.todo = job[r].todo /\ n.ok = job[r].ok
  BY <1>t, <1>2 DEF JobRows
<1> HIDE DEF n
<1>4. JobFits(n)
  BY <1>t, <1>2, <1>3 DEF JobFits
<1>5. NextJobs(r) /\ job'[r] = n
  BY <1>1, <1>4, GoesOn
<1>6. ASSUME NEW i \in Letters
      PROVE  /\ letter'[i] \in LetterRows /\ letter'[i].live = letter[i].live
             /\ letter'[i].delivered = letter[i].delivered
             /\ letter'[i].reminded = IF i \in S THEN "today" ELSE letter[i].reminded
  <2>1. letter'[i] = IF i \in S THEN [letter[i] EXCEPT !.reminded = "today"] ELSE letter[i]
    BY <1>1
  <2> QED
    BY <1>t, <2>1 DEF LetterRows
<1>7. letter' \in [Letters -> LetterRows]
  BY <1>1, <1>6
<1> QED
  BY <1>t, <1>1, <1>3, <1>5, <1>6, <1>7 DEF S

LEMMA JobEnded ==
    ASSUME RemindersTypes, NEW r \in Senders, EndJob(r)
    PROVE  /\ NextJobs(r) /\ job'[r] = NoJob
           /\ letter' \in [Letters -> LetterRows]
           /\ \A i \in Letters : /\ letter'[i].live = letter[i].live /\ letter'[i].delivered = letter[i].delivered
                                 /\ letter'[i].reminded # letter[i].reminded =>
                                       /\ job[r].op = "REMINDER" /\ job[r].step # "claim"
                                       /\ i \in job[r].pick \ job[r].ok /\ letter'[i].reminded # "today"
                                 /\ letter'[i].reminded = "today" => letter[i].reminded = "today"
           /\ UNCHANGED <<latest, posted, texts, reached, mailed, blurred>>
<1>t. JobFits(job[r]) /\ job[r] \in JobRows /\ letter \in [Letters -> LetterRows] /\ job[r].step \in {"end", "text"}
  BY DEF RemindersTypes, EndJob
<1>1. /\ letter' = [i \in Letters |-> IF job[r].op = "REMINDER" /\ i \in job[r].pick \ job[r].ok
                                      THEN [letter[i] EXCEPT !.reminded = job[r].before[i]] ELSE letter[i]]
      /\ Does(r, NoJob) /\ UNCHANGED <<latest, posted, texts, reached, mailed, blurred>>
  BY DEF EndJob
<1>2. ASSUME job[r].op = "REMINDER", NEW i \in job[r].pick
      PROVE  job[r].before[i] \in {"never", "before"}
  <2>1. job[r].before \in Befores /\ i \in DOMAIN job[r].before
    BY <1>t, <1>2 DEF JobFits, JobRows
  <2> QED
    BY <2>1 DEF Befores
<1>3. NextJobs(r) /\ job'[r] = NoJob
  BY <1>1, NoJobIs, GoesOn
<1>6. ASSUME NEW i \in Letters
      PROVE  /\ letter'[i] \in LetterRows /\ letter'[i].live = letter[i].live
             /\ letter'[i].delivered = letter[i].delivered
             /\ letter'[i].reminded # letter[i].reminded =>
                   /\ job[r].op = "REMINDER" /\ i \in job[r].pick \ job[r].ok /\ letter'[i].reminded # "today"
             /\ letter'[i].reminded = "today" => letter[i].reminded = "today"
  <2>1. CASE job[r].op = "REMINDER" /\ i \in job[r].pick \ job[r].ok
    <3>1. letter'[i] = [letter[i] EXCEPT !.reminded = job[r].before[i]] /\ job[r].before[i] \in {"never", "before"}
      BY <1>1, <1>2, <2>1
    <3> QED
      BY <1>t, <2>1, <3>1 DEF LetterRows
  <2>2. CASE ~(job[r].op = "REMINDER" /\ i \in job[r].pick \ job[r].ok)
    <3>1. letter'[i] = letter[i]
      BY <1>1, <2>2
    <3> QED
      BY <1>t, <3>1
  <2> QED
    BY <2>1, <2>2
<1>7. letter' \in [Letters -> LetterRows]
  BY <1>1, <1>6
<1> QED
  BY <1>t, <1>1, <1>3, <1>6, <1>7

LEMMA JobStopped ==
    ASSUME RemindersTypes, NEW r \in Senders, StopJob(r)
    PROVE  NextJobs(r) /\ job'[r] = NoJob /\ UNCHANGED <<letter, latest, posted, texts, reached, mailed, blurred>>
<1>1. Does(r, NoJob) /\ UNCHANGED <<letter, latest, posted, texts, reached, mailed, blurred>>
  BY DEF StopJob
<1> QED
  BY <1>1, NoJobIs, GoesOn

\* What guests do, and the day.
LEMMA LetterTouched ==
    ASSUME RemindersTypes, NEW i \in Letters, Reply(i) \/ ArchiveOrRestore(i)
    PROVE  /\ letter' \in [Letters -> LetterRows] /\ SameReminded
           /\ \A k \in Letters : letter'[k].delivered = letter[k].delivered /\ (k # i => letter'[k] = letter[k])
           /\ \/ letter'[i].live = letter[i].live /\ UNCHANGED blurred
              \/ blurred' = blurred \cup Blurs({i}) \cup (IF letter[i].reminded = "today" THEN {Holder[i]} ELSE {})
           /\ UNCHANGED <<latest, posted, texts, job, reached, mailed>>
<1>t. letter \in [Letters -> LetterRows]
  BY DEF RemindersTypes
<1>1. CASE Reply(i)
  <2>1. letter' = [letter EXCEPT ![i].answered = TRUE] /\ UNCHANGED <<latest, posted, texts, job, reached, mailed, blurred>>
    BY <1>1 DEF Reply
  <2> QED
    BY <1>t, <2>1 DEF LetterRows, SameReminded
<1>2. CASE ArchiveOrRestore(i)
  <2>1. /\ letter' = [letter EXCEPT ![i].live = ~@]
        /\ blurred' = blurred \cup Blurs({i}) \cup (IF letter[i].reminded = "today" THEN {Holder[i]} ELSE {})
        /\ UNCHANGED <<latest, posted, texts, job, reached, mailed>>
    BY <1>2 DEF ArchiveOrRestore
  <2> QED
    BY <1>t, <2>1 DEF LetterRows, SameReminded
<1> QED
  BY <1>1, <1>2

LEMMA DayEnded ==
    ASSUME RemindersTypes, DayEnds
    PROVE  /\ letter' \in [Letters -> LetterRows] /\ \A i \in Letters : letter'[i].reminded # "today"
           /\ \A r \in Senders : job[r] = NoJob
           /\ posted' = 0 /\ mailed' = 0 /\ reached' = [g \in Guests |-> 0]
           /\ UNCHANGED <<latest, texts, job, blurred>>
<1>t. letter \in [Letters -> LetterRows]
  BY DEF RemindersTypes
<1>1. letter' = [i \in Letters |-> [letter[i] EXCEPT !.reminded = IF @ = "today" THEN "before" ELSE @]]
  BY DEF DayEnds
<1>2. ASSUME NEW i \in Letters
      PROVE  letter'[i] \in LetterRows /\ letter'[i].reminded # "today"
  <2>1. letter'[i] = [letter[i] EXCEPT !.reminded = IF @ = "today" THEN "before" ELSE @] /\ letter[i] \in LetterRows
    BY <1>t, <1>1
  <2> QED
    BY <2>1 DEF LetterRows
<1>3. letter' \in [Letters -> LetterRows]
  BY <1>1, <1>2
<1> QED
  BY <1>2, <1>3 DEF DayEnds

JobSteps(r) ==
    \/ ClaimEmails(r) \/ MarkDelivered(r) \/ ClaimReminders(r) \/ EndJob(r) \/ StopJob(r)
    \/ \E S \in SUBSET Letters : SendRead(r, S) \/ \E ok \in SUBSET S : SendEmails(r, S, ok)
    \/ \E i \in Letters : SendText(r, i)
    \/ \E G \in SUBSET Guests : RemindRead(r, G)

LEMMA RemindersCases ==
    ASSUME RemindersNext
    PROVE  \/ DayEnds \/ \E i \in Letters : Reply(i) \/ ArchiveOrRestore(i)
           \/ \E r \in Senders : JobSteps(r)
<1>1. ASSUME NEW r \in Senders, NEW i \in Letters, ResendRead(r, i) PROVE JobSteps(r)
  <2>1. SendRead(r, {i}) /\ {i} \in SUBSET Letters
    BY <1>1 DEF ResendRead
  <2> QED
    BY <2>1 DEF JobSteps
<1> QED
  BY <1>1, Zenon DEF RemindersNext, JobSteps

LEMMA JobTypes ==
    ASSUME RemindersTypes, NEW r \in Senders, JobSteps(r)
    PROVE  RemindersTypes'
<1>t. /\ letter \in [Letters -> LetterRows] /\ latest \in [Guests -> 0..MaxLetters]
      /\ posted \in 0..EmailLimit /\ texts \in Nat /\ mailed \in Nat
      /\ reached \in [Guests -> Nat] /\ blurred \in SUBSET (Guests \cup {Texts})
  BY DEF RemindersTypes
<1>o. ASSUME NEW S PROVE Overlaps(S) \subseteq Guests \cup {Texts}
  BY DEF Overlaps
<1>b. ASSUME NEW S \in SUBSET Letters PROVE Blurs(S) \subseteq Guests \cup {Texts}
  BY BlursGuests
<1>1. CASE ClaimEmails(r)
  <2>1. /\ NextJobs(r) /\ UNCHANGED <<letter, latest, texts, reached, mailed, blurred>>
        /\ \/ UNCHANGED posted
           \/ EmailsAllow(job[r].pick) /\ posted' = posted + Cardinality(Emailed(job[r].pick))
    BY <1>1, EmailsClaimed
  <2>2. posted' \in 0..EmailLimit
    <3>1. Emailed(job[r].pick) \in SUBSET Letters
      BY DEF RemindersTypes, JobRows, Emailed
    <3>2. Cardinality(Emailed(job[r].pick)) \in Nat
      BY <3>1, SomeLetters
    <3> QED
      BY <1>t, <2>1, <3>2, LetterBounds DEF EmailsAllow
  <2> QED
    BY <1>t, <2>1, <2>2 DEF RemindersTypes, NextJobs
<1>2. CASE MarkDelivered(r)
  <2>1. /\ NextJobs(r) /\ job[r].ok \in SUBSET Letters /\ Delivers(job[r].op, job[r].ok)
        /\ blurred' = IF job[r].op = "INVITE" THEN blurred \cup Blurs(job[r].ok) ELSE blurred
        /\ UNCHANGED <<posted, texts, reached, mailed>>
    BY <1>2, DeliveryMarked
  <2>2. letter' \in [Letters -> LetterRows] /\ latest' \in [Guests -> 0..MaxLetters]
    BY <2>1, DeliversIs
  <2>3. blurred' \in SUBSET (Guests \cup {Texts})
    BY <1>t, <1>b, <2>1
  <2> QED
    BY <1>t, <2>1, <2>2, <2>3 DEF RemindersTypes, NextJobs
<1>3. CASE ClaimReminders(r)
  BY <1>t, <1>3, RemindersClaimed DEF RemindersTypes, NextJobs
<1>4. CASE EndJob(r)
  BY <1>t, <1>4, JobEnded DEF RemindersTypes, NextJobs
<1>5. CASE StopJob(r)
  BY <1>t, <1>5, JobStopped DEF RemindersTypes, NextJobs
<1>6. ASSUME NEW S \in SUBSET Letters, SendRead(r, S) PROVE RemindersTypes'
  <2>1. NextJobs(r) /\ blurred' = blurred \cup Overlaps(S) /\ UNCHANGED <<letter, latest, posted, texts, reached, mailed>>
    BY <1>6, SendReads
  <2>2. blurred' \in SUBSET (Guests \cup {Texts})
    BY <1>t, <1>o, <2>1
  <2> QED
    BY <1>t, <2>1, <2>2 DEF RemindersTypes, NextJobs
<1>7. ASSUME NEW S \in SUBSET Letters, NEW ok \in SUBSET S, SendEmails(r, S, ok) PROVE RemindersTypes'
  <2>1. /\ NextJobs(r) /\ mailed' = mailed + Cardinality(S) /\ reached' \in [Guests -> Nat]
        /\ UNCHANGED <<letter, latest, posted, texts, blurred>>
    BY <1>7, EmailsSent
  <2>2. mailed' \in Nat
    BY <1>t, <2>1, SomeLetters
  <2> QED
    BY <1>t, <2>1, <2>2 DEF RemindersTypes, NextJobs
<1>8. ASSUME NEW i \in Letters, SendText(r, i) PROVE RemindersTypes'
  <2>1. /\ NextJobs(r) /\ UNCHANGED <<posted, mailed>>
        /\ \/ UNCHANGED <<letter, latest, texts, reached, blurred>>
           \/ /\ Delivers(job[r].op, {i})
              /\ reached' = IF job[r].op = "INVITE" THEN reached ELSE [reached EXCEPT ![Holder[i]] = @ + 1]
              /\ texts' \in {texts, texts + 1}
              /\ \/ blurred' = blurred \cup (IF job[r].op = "INVITE" THEN Blurs({i}) ELSE {})
                 \/ blurred' = blurred \cup {Texts, Holder[i]} \cup (IF job[r].op = "INVITE" THEN Blurs({i}) ELSE {})
    BY <1>8, TextSent
  <2>2. CASE UNCHANGED <<letter, latest, texts, reached, blurred>>
    BY <1>t, <2>1, <2>2 DEF RemindersTypes, NextJobs
  <2>3. CASE ~UNCHANGED <<letter, latest, texts, reached, blurred>>
    <3>1. {i} \in SUBSET Letters /\ Holder[i] \in Guests
      BY LetterBounds
    <3>2. letter' \in [Letters -> LetterRows] /\ latest' \in [Guests -> 0..MaxLetters]
      BY <2>1, <2>3, <3>1, DeliversIs
    <3>3. blurred' \in SUBSET (Guests \cup {Texts})
      BY <1>t, <1>b, <2>1, <2>3, <3>1
    <3>4. reached' \in [Guests -> Nat] /\ texts' \in Nat
      BY <1>t, <2>1, <2>3, <3>1
    <3> QED
      BY <1>t, <2>1, <3>2, <3>3, <3>4 DEF RemindersTypes, NextJobs
  <2> QED
    BY <2>2, <2>3
<1>9. ASSUME NEW G \in SUBSET Guests, RemindRead(r, G) PROVE RemindersTypes'
  <2>1. NextJobs(r) /\ blurred' = blurred \cup Overlaps(job'[r].pick) /\ UNCHANGED <<letter, latest, posted, texts, reached, mailed>>
    BY <1>9, RemindReads
  <2>2. blurred' \in SUBSET (Guests \cup {Texts})
    BY <1>t, <1>o, <2>1
  <2> QED
    BY <1>t, <2>1, <2>2 DEF RemindersTypes, NextJobs
<1> QED
  BY <1>1, <1>2, <1>3, <1>4, <1>5, <1>6, <1>7, <1>8, <1>9 DEF JobSteps

LEMMA RemindersInitTypes == RemindersInit => RemindersTypes
<1> SUFFICES ASSUME RemindersInit PROVE RemindersTypes
  OBVIOUS
<1>1. NewLetter \in LetterRows /\ 0 \in 0..MaxLetters /\ 0 \in 0..EmailLimit
  BY LetterBounds DEF NewLetter, LetterRows
<1> QED
  BY <1>1, NoJobIs DEF RemindersInit, RemindersTypes

LEMMA RemindersNextTypes == RemindersTypes /\ [RemindersNext]_reminderVars => RemindersTypes'
<1> SUFFICES ASSUME RemindersTypes, [RemindersNext]_reminderVars PROVE RemindersTypes'
  OBVIOUS
<1>1. CASE UNCHANGED reminderVars
  BY <1>1 DEF reminderVars, RemindersTypes
<1>2. CASE DayEnds
  <2>1. 0 \in 0..EmailLimit
    BY LetterBounds
  <2> QED
    BY <1>2, <2>1, DayEnded DEF RemindersTypes
<1>3. ASSUME NEW i \in Letters, Reply(i) \/ ArchiveOrRestore(i) PROVE RemindersTypes'
  <2>1. /\ letter' \in [Letters -> LetterRows] /\ UNCHANGED <<latest, posted, texts, job, reached, mailed>>
        /\ \/ UNCHANGED blurred
           \/ blurred' = blurred \cup Blurs({i}) \cup (IF letter[i].reminded = "today" THEN {Holder[i]} ELSE {})
    BY <1>3, LetterTouched
  <2>2. Blurs({i}) \subseteq Guests /\ Holder[i] \in Guests
    BY LetterBounds, BlursGuests
  <2>3. blurred' \in SUBSET (Guests \cup {Texts})
    BY <2>1, <2>2 DEF RemindersTypes
  <2> QED
    BY <2>1, <2>3 DEF RemindersTypes
<1> QED
  BY <1>1, <1>2, <1>3, RemindersCases, JobTypes

\* What reaches guests was claimed and is in no answer yet.
Reaches(r, S) ==
    /\ S \subseteq job[r].pick \ job[r].ok /\ job[r].step \in {"batch", "text"}
    /\ Repeats(job[r].op, S)

LEMMA ReachesCases ==
    ASSUME RemindersTypes, RemindersNext
    PROVE  (UNCHANGED again) \/ \E r \in Senders : \E S \in SUBSET Letters : Reaches(r, S)
<1>1. ASSUME NEW r \in Senders, NEW S \in SUBSET Letters, NEW ok \in SUBSET S, SendEmails(r, S, ok) PROVE Reaches(r, S)
  <2>1. job[r].step = "batch" /\ job[r].ok = {} /\ S \subseteq job[r].pick /\ Repeats(job[r].op, S)
    BY <1>1 DEF SendEmails, Emailed, RemindersTypes, JobFits
  <2> QED
    BY <2>1 DEF Reaches
<1>2. ASSUME NEW r \in Senders, NEW i \in Letters, SendText(r, i) PROVE (UNCHANGED again) \/ Reaches(r, {i})
  <2>1. job[r].step = "text" /\ i \in job[r].pick /\ i \notin job[r].ok
    BY <1>2, TextSent
  <2>2. (UNCHANGED again) \/ Repeats(job[r].op, {i})
    BY <1>2 DEF SendText
  <2> QED
    BY <2>1, <2>2 DEF Reaches
<1>3. ASSUME NEW r \in Senders, JobSteps(r)
      PROVE  (UNCHANGED again) \/ \E q \in Senders : \E S \in SUBSET Letters : Reaches(q, S)
  <2>1. CASE ClaimEmails(r) \/ MarkDelivered(r) \/ ClaimReminders(r) \/ EndJob(r) \/ StopJob(r)
    BY <2>1 DEF ClaimEmails, MarkDelivered, ClaimReminders, EndJob, StopJob
  <2>2. ASSUME NEW S \in SUBSET Letters, SendRead(r, S) PROVE UNCHANGED again
    BY <2>2 DEF SendRead
  <2>3. ASSUME NEW G \in SUBSET Guests, RemindRead(r, G) PROVE UNCHANGED again
    BY <2>3 DEF RemindRead
  <2>4. ASSUME NEW i \in Letters, SendText(r, i)
        PROVE  (UNCHANGED again) \/ \E q \in Senders : \E S \in SUBSET Letters : Reaches(q, S)
    <3>1. {i} \in SUBSET Letters
      OBVIOUS
    <3> QED
      BY <1>2, <2>4, <3>1
  <2> QED
    BY <1>1, <1>3, <2>1, <2>2, <2>3, <2>4, Zenon DEF JobSteps
<1>4. ASSUME NEW i \in Letters, Reply(i) \/ ArchiveOrRestore(i) PROVE UNCHANGED again
  BY <1>4 DEF Reply, ArchiveOrRestore
<1>5. DayEnds => UNCHANGED again
  BY DEF DayEnds
<1> QED
  BY <1>3, <1>4, <1>5, RemindersCases

LEMMA AgainTypes == RemindersTypes /\ again \subseteq Guests /\ [RemindersNext]_reminderVars => again' \subseteq Guests
<1> SUFFICES ASSUME RemindersTypes, again \subseteq Guests, [RemindersNext]_reminderVars PROVE again' \subseteq Guests
  OBVIOUS
<1>1. CASE UNCHANGED again
  BY <1>1
<1>2. ASSUME NEW r \in Senders, NEW S \in SUBSET Letters, Reaches(r, S) PROVE again' \subseteq Guests
  BY <1>2, LetterBounds DEF Reaches, Repeats
<1>3. CASE RemindersNext
  BY <1>1, <1>2, <1>3, ReachesCases
<1> QED
  BY <1>1, <1>3 DEF reminderVars

\* The invites, the requests and what was sent are what the types say.
THEOREM RemindersTypeCorrect == RemindersSpec => []RemindersTypeOK
<1>1. RemindersTypes /\ again \subseteq Guests => RemindersTypeOK
  <2> SUFFICES ASSUME RemindersTypes, again \subseteq Guests PROVE RemindersTypeOK
    OBVIOUS
  <2>1. \A r \in Senders : job[r] \in JobRows /\ job[r].todo \subseteq job[r].pick
    BY DEF RemindersTypes, JobFits
  <2>2. letter \in [Letters -> [answered : BOOLEAN, live : BOOLEAN, delivered : BOOLEAN,
                                reminded : {"never", "today", "before"}]]
    BY DEF RemindersTypes, LetterRows
  <2> QED
    BY <2>1, <2>2 DEF RemindersTypes, RemindersTypeOK, JobRows
<1>2. RemindersInit => RemindersTypes /\ again \subseteq Guests
  BY RemindersInitTypes DEF RemindersInit
<1>3. RemindersTypes /\ again \subseteq Guests /\ [RemindersNext]_reminderVars => (RemindersTypes /\ again \subseteq Guests)'
  BY RemindersNextTypes, AgainTypes
<1> QED
  BY <1>1, <1>2, <1>3, PTL DEF RemindersSpec

-----------------------------------------------------------------------------
(* Reminders: the limits.                                                  *)

\* Every email sent, and every one a request has claimed and may send yet, can be
\* told from all the others that were claimed this day.
MailCounts(used, sent) ==
    /\ sent \subseteq 1..posted /\ mailed <= Cardinality(sent)
    /\ \A r \in Senders :
          /\ used[r] \subseteq 1..posted /\ used[r] \cap sent = {}
          /\ job[r].step = "batch" => Cardinality(Emailed(job[r].pick)) <= Cardinality(used[r])
          /\ \A q \in Senders : q # r => used[q] \cap used[r] = {}

MailInv ==
    \E used \in [Senders -> SUBSET (1..EmailLimit)], sent \in SUBSET (1..EmailLimit) : MailCounts(used, sent)

LEMMA SomeEmails ==
    ASSUME NEW n \in Nat, NEW S \in SUBSET (1..n)
    PROVE  IsFiniteSet(S) /\ Cardinality(S) \in Nat /\ Cardinality(S) <= n
<1>1. IsFiniteSet(1..n) /\ Cardinality(1..n) = n
  BY FS_Interval
<1>2. IsFiniteSet(S) /\ Cardinality(S) <= Cardinality(1..n)
  BY <1>1, FS_Subset
<1> QED
  BY <1>1, <1>2, FS_CardinalityType

LEMMA MailStays ==
    ASSUME MailInv, UNCHANGED <<posted, mailed>>,
           \A r \in Senders : job'[r].step = "batch" => job[r].step = "batch" /\ job'[r].pick = job[r].pick
    PROVE  MailInv'
<1>1. PICK used \in [Senders -> SUBSET (1..EmailLimit)], sent \in SUBSET (1..EmailLimit) : MailCounts(used, sent)
  BY DEF MailInv
<1>2. MailCounts(used, sent)'
  BY <1>1 DEF MailCounts, Emailed
<1> QED
  BY <1>2 DEF MailInv

LEMMA ClaimMail ==
    ASSUME RemindersTypes, MailInv, NEW r \in Senders, ClaimEmails(r)
    PROVE  MailInv'
<1>t. /\ posted \in 0..EmailLimit /\ EmailLimit \in Nat /\ Emailed(job[r].pick) \in SUBSET Letters
  BY LetterBounds DEF RemindersTypes, JobRows, Emailed
<1>1. /\ NextJobs(r) /\ job'[r].pick = job[r].pick /\ UNCHANGED mailed
      /\ \/ /\ EmailsAllow(job[r].pick) /\ posted' = posted + Cardinality(Emailed(job[r].pick))
            /\ job'[r].step = "batch"
         \/ UNCHANGED posted /\ job'[r].step = "end"
  BY EmailsClaimed
<1>2. CASE UNCHANGED posted /\ job'[r].step = "end"
  BY <1>1, <1>2, MailStays DEF NextJobs
<1>3. CASE /\ EmailsAllow(job[r].pick) /\ posted' = posted + Cardinality(Emailed(job[r].pick))
           /\ job'[r].step = "batch"
  <2>1. PICK used \in [Senders -> SUBSET (1..EmailLimit)], sent \in SUBSET (1..EmailLimit) : MailCounts(used, sent)
    BY DEF MailInv
  <2>2. PICK n \in Nat : n = Cardinality(Emailed(job[r].pick))
    BY <1>t, SomeLetters
  <2>3. posted' = posted + n /\ posted + n <= EmailLimit /\ posted \in Nat
    BY <1>t, <1>3, <2>2 DEF EmailsAllow
  <2>4. PICK new \in SUBSET (1..EmailLimit) : new = (posted + 1)..(posted + n)
    BY <1>t, <2>3
  <2>5. Cardinality(new) = n
    <3>1. posted + 1 \in Int /\ posted + n \in Int
      BY <2>3
    <3>2. Cardinality((posted + 1)..(posted + n)) = IF posted + 1 > posted + n THEN 0 ELSE (posted + n) - (posted + 1) + 1
      BY <3>1, FS_Interval
    <3> QED
      BY <2>3, <2>4, <3>2
  <2>6. PICK now \in [Senders -> SUBSET (1..EmailLimit)] :
            now[r] = new /\ \A q \in Senders \ {r} : now[q] = used[q]
    <3> DEFINE u == [used EXCEPT ![r] = new]
    <3>1. u \in [Senders -> SUBSET (1..EmailLimit)] /\ u[r] = new /\ \A q \in Senders \ {r} : u[q] = used[q]
      OBVIOUS
    <3> QED
      BY <3>1
  <2>7. 1..posted \subseteq 1..posted' /\ new \subseteq 1..posted' /\ new \cap (1..posted) = {}
    BY <2>3, <2>4
  <2>8. \A q \in Senders : used[q] \subseteq 1..posted /\ sent \subseteq 1..posted
    BY <2>1 DEF MailCounts
  <2>9. ASSUME NEW q \in Senders
        PROVE  /\ now[q] \subseteq 1..posted' /\ now[q] \cap sent = {}
               /\ job'[q].step = "batch" => Cardinality(Emailed(job'[q].pick)) <= Cardinality(now[q])
               /\ \A x \in Senders : x # q => now[x] \cap now[q] = {}
    <3>1. now[q] \subseteq 1..posted' /\ now[q] \cap sent = {}
      BY <2>1, <2>6, <2>7, <2>8 DEF MailCounts
    <3>2. \A x \in Senders : x # q => now[x] \cap now[q] = {}
      BY <2>1, <2>6, <2>7, <2>8 DEF MailCounts
    <3>3. job'[q].step = "batch" => Cardinality(Emailed(job'[q].pick)) <= Cardinality(now[q])
      <4>1. CASE q = r
        <5>1. job'[q].pick = job[r].pick /\ now[q] = new
          BY <1>1, <2>6, <4>1
        <5>2. Cardinality(Emailed(job'[q].pick)) = n /\ Cardinality(now[q]) = n
          BY <2>2, <2>5, <5>1
        <5> QED
          BY <5>2
      <4>2. CASE q # r
        BY <1>1, <2>1, <2>6, <4>2 DEF MailCounts, NextJobs
      <4> QED
        BY <4>1, <4>2
    <3> QED
      BY <3>1, <3>2, <3>3
  <2>10. sent \subseteq 1..posted' /\ mailed' <= Cardinality(sent)
    BY <1>1, <2>1, <2>7, <2>8 DEF MailCounts
  <2>11. MailCounts(now, sent)'
    BY <2>9, <2>10 DEF MailCounts, Emailed
  <2> QED
    BY <2>11 DEF MailInv
<1> QED
  BY <1>1, <1>2, <1>3

LEMMA SendMail ==
    ASSUME RemindersTypes, MailInv, NEW r \in Senders, NEW went \in SUBSET Letters, NEW ok \in SUBSET went,
           SendEmails(r, went, ok)
    PROVE  MailInv'
<1>t. /\ posted \in 0..EmailLimit /\ EmailLimit \in Nat /\ Emailed(job[r].pick) \in SUBSET Letters /\ mailed \in Nat
  BY LetterBounds DEF RemindersTypes, JobRows, Emailed
<1>1. /\ NextJobs(r) /\ job[r].step = "batch" /\ job'[r].step = "mark" /\ went \subseteq Emailed(job[r].pick)
      /\ mailed' = mailed + Cardinality(went) /\ UNCHANGED posted
  BY EmailsSent
<1>2. PICK used \in [Senders -> SUBSET (1..EmailLimit)], sent \in SUBSET (1..EmailLimit) : MailCounts(used, sent)
  BY DEF MailInv
<1>3. PICK all \in SUBSET (1..EmailLimit) : all = sent \cup used[r]
  OBVIOUS
<1>4. PICK now \in [Senders -> SUBSET (1..EmailLimit)] :
          now[r] = {} /\ \A q \in Senders \ {r} : now[q] = used[q]
  <2> DEFINE u == [used EXCEPT ![r] = {}]
  <2>1. u \in [Senders -> SUBSET (1..EmailLimit)] /\ u[r] = {} /\ \A q \in Senders \ {r} : u[q] = used[q]
    OBVIOUS
  <2> QED
    BY <2>1
<1>5. mailed' <= Cardinality(all)
  <2>1. Cardinality(Emailed(job[r].pick)) <= Cardinality(used[r]) /\ used[r] \cap sent = {} /\ mailed <= Cardinality(sent)
    BY <1>1, <1>2 DEF MailCounts
  <2>2. /\ IsFiniteSet(used[r]) /\ Cardinality(used[r]) \in Nat
        /\ IsFiniteSet(sent) /\ Cardinality(sent) \in Nat
    <3>1. used[r] \in SUBSET (1..EmailLimit)
      OBVIOUS
    <3> QED
      BY <1>t, <3>1, SomeEmails
  <2>3. /\ Cardinality(went) <= Cardinality(Emailed(job[r].pick))
        /\ Cardinality(went) \in Nat /\ Cardinality(Emailed(job[r].pick)) \in Nat
    BY <1>t, <1>1, SomeLetters, FS_Subset
  <2>4. sent \cap used[r] = {}
    BY <2>1
  <2>5. Cardinality(sent \cup used[r]) = Cardinality(sent) + Cardinality(used[r])
    <3>1. Cardinality(sent \cup used[r]) = Cardinality(sent) + Cardinality(used[r]) - Cardinality(sent \cap used[r])
      BY <2>2, FS_Union
    <3>2. Cardinality(sent \cap used[r]) = 0
      BY <2>4, FS_EmptySet
    <3> QED
      BY <2>2, <3>1, <3>2
  <2> QED
    BY <1>t, <1>1, <1>3, <2>1, <2>2, <2>3, <2>5
<1>6. ASSUME NEW q \in Senders
      PROVE  /\ now[q] \subseteq 1..posted /\ now[q] \cap all = {}
             /\ job'[q].step = "batch" => Cardinality(Emailed(job'[q].pick)) <= Cardinality(now[q])
             /\ \A x \in Senders : x # q => now[x] \cap now[q] = {}
  <2>1. CASE q = r
    BY <1>1, <1>4, <2>1
  <2>2. CASE q # r
    BY <1>1, <1>2, <1>3, <1>4, <2>2 DEF MailCounts, NextJobs
  <2> QED
    BY <2>1, <2>2
<1>7. all \subseteq 1..posted
  BY <1>2, <1>3 DEF MailCounts
<1>8. MailCounts(now, all)'
  BY <1>1, <1>5, <1>6, <1>7 DEF MailCounts, Emailed
<1> QED
  BY <1>8 DEF MailInv

LEMMA MailNext ==
    ASSUME RemindersTypes, MailInv, [RemindersNext]_reminderVars
    PROVE  MailInv'
<1>1. CASE UNCHANGED reminderVars
  BY <1>1, MailStays DEF reminderVars
<1>2. CASE DayEnds
  <2>1. (\A r \in Senders : job'[r] = NoJob) /\ posted' = 0 /\ mailed' = 0
    BY <1>2, DayEnded
  <2> DEFINE used == [r \in Senders |-> {}]
  <2>2. used \in [Senders -> SUBSET (1..EmailLimit)] /\ {} \in SUBSET (1..EmailLimit) /\ \A r \in Senders : used[r] = {}
    OBVIOUS
  <2> HIDE DEF used
  <2>3. mailed' <= Cardinality({}) /\ {} \subseteq 1..posted'
    BY <2>1, FS_EmptySet
  <2>4. \A r \in Senders : job'[r].step # "batch"
    BY <2>1, NoJobIs
  <2>5. PICK u \in [Senders -> SUBSET (1..EmailLimit)] : \A r \in Senders : u[r] = {}
    BY <2>2
  <2>6. MailCounts(u, {})'
    BY <2>3, <2>4, <2>5 DEF MailCounts
  <2> QED
    BY <2>2, <2>6 DEF MailInv
<1>3. ASSUME NEW i \in Letters, Reply(i) \/ ArchiveOrRestore(i) PROVE MailInv'
  BY <1>3, LetterTouched, MailStays
<1>4. ASSUME NEW r \in Senders, JobSteps(r) PROVE MailInv'
  <2>0. ASSUME NextJobs(r), job'[r].step # "batch", UNCHANGED <<posted, mailed>> PROVE MailInv'
    BY <2>0, MailStays DEF NextJobs
  <2>1. CASE MarkDelivered(r) \/ ClaimReminders(r)
    BY <2>0, <2>1, DeliveryMarked, RemindersClaimed
  <2>2. CASE EndJob(r) \/ StopJob(r)
    BY <2>0, <2>2, JobEnded, JobStopped, NoJobIs
  <2>3. ASSUME NEW S \in SUBSET Letters, SendRead(r, S) PROVE MailInv'
    BY <2>0, <2>3, SendReads
  <2>4. ASSUME NEW i \in Letters, SendText(r, i) PROVE MailInv'
    BY <2>0, <2>4, TextSent
  <2>5. ASSUME NEW G \in SUBSET Guests, RemindRead(r, G) PROVE MailInv'
    BY <2>0, <2>5, RemindReads
  <2> QED
    BY <1>4, <2>1, <2>2, <2>3, <2>4, <2>5, ClaimMail, SendMail DEF JobSteps
<1> QED
  BY <1>1, <1>2, <1>3, <1>4, RemindersCases

LEMMA MailedWithin ==
    ASSUME RemindersTypes, MailInv
    PROVE  mailed <= posted
<1>1. PICK used \in [Senders -> SUBSET (1..EmailLimit)], sent \in SUBSET (1..EmailLimit) : MailCounts(used, sent)
  BY DEF MailInv
<1>2. sent \in SUBSET (1..posted) /\ mailed <= Cardinality(sent) /\ posted \in Nat /\ mailed \in Nat
  BY <1>1, LetterBounds DEF MailCounts, RemindersTypes
<1>3. Cardinality(sent) <= posted /\ Cardinality(sent) \in Nat
  BY <1>2, SomeEmails
<1> QED
  BY <1>2, <1>3

\* Of the texts the quota was asked for, those that are still to be sent.
TextsLeft(j) == IF j.step = "text" THEN j.todo ELSE j.pick \cap ByText
Texting(j) == j.pick \cap ByText # {}

\* While no check of the quota overlapped, one request has texts to send, and
\* there is room for them.
TextInv ==
    Texts \notin blurred =>
        /\ texts <= TextQuota
        /\ \A r, q \in Senders : Texting(job[r]) /\ Texting(job[q]) => r = q
        /\ \A r \in Senders : Texting(job[r]) /\ job[r].step # "end" =>
              texts + Cardinality(TextsLeft(job[r])) <= TextQuota

LEMMA LeftOf ==
    ASSUME NEW j, JobFits(j)
    PROVE  TextsLeft(j) \in SUBSET Letters /\ TextsLeft(j) \subseteq j.pick \cap ByText
BY DEF JobFits, JobRows, TextsLeft

LEMMA TextStays ==
    ASSUME RemindersTypes, RemindersTypes', TextInv, UNCHANGED texts, blurred \subseteq blurred',
           \A r \in Senders : /\ Texting(job'[r]) => Texting(job[r])
                              /\ Texting(job'[r]) /\ job'[r].step # "end" =>
                                    job[r].step # "end" /\ TextsLeft(job'[r]) \subseteq TextsLeft(job[r])
    PROVE  TextInv'
<1> SUFFICES ASSUME Texts \notin blurred'
             PROVE  /\ texts <= TextQuota
                    /\ \A r, q \in Senders : Texting(job'[r]) /\ Texting(job'[q]) => r = q
                    /\ \A r \in Senders : Texting(job'[r]) /\ job'[r].step # "end" =>
                          texts + Cardinality(TextsLeft(job'[r])) <= TextQuota
  BY DEF TextInv, Texting, TextsLeft
<1>1. Texts \notin blurred
  OBVIOUS
<1>2. ASSUME NEW r \in Senders, Texting(job'[r]), job'[r].step # "end"
      PROVE  texts + Cardinality(TextsLeft(job'[r])) <= TextQuota
  <2>1. TextsLeft(job[r]) \in SUBSET Letters /\ TextsLeft(job'[r]) \subseteq TextsLeft(job[r])
    BY <1>2, LeftOf DEF RemindersTypes
  <2>2. texts + Cardinality(TextsLeft(job[r])) <= TextQuota
    BY <1>1, <1>2 DEF TextInv
  <2>3. /\ Cardinality(TextsLeft(job[r])) \in Nat /\ Cardinality(TextsLeft(job'[r])) \in Nat
        /\ Cardinality(TextsLeft(job'[r])) <= Cardinality(TextsLeft(job[r]))
    <3>1. IsFiniteSet(TextsLeft(job[r])) /\ TextsLeft(job'[r]) \in SUBSET Letters
      BY <2>1, SomeLetters
    <3> QED
      BY <2>1, <3>1, SomeLetters, FS_Subset
  <2>4. texts \in Nat /\ TextQuota \in Nat
    BY LetterBounds DEF RemindersTypes
  <2> QED
    BY <2>2, <2>3, <2>4
<1> QED
  BY <1>1, <1>2 DEF TextInv

\* Whoever asks for texts finds room for them.
LEMMA TextsAsked ==
    ASSUME RemindersTypes, RemindersTypes', TextInv, NEW r \in Senders, NextJobs(r), job[r] = NoJob,
           job'[r].step \in {"claim", "emails"}, TextsAllow(job'[r].pick),
           blurred' = blurred \cup Overlaps(job'[r].pick), UNCHANGED texts
    PROVE  TextInv'
<1>0. ~Texting(job[r])
  BY NoJobIs DEF Texting
<1>1. \A q \in Senders \ {r} : job'[q] = job[q]
  BY DEF NextJobs
<1>2. CASE ~Texting(job'[r])
  BY <1>1, <1>2, TextStays
<1>3. CASE Texting(job'[r])
  <2> SUFFICES ASSUME Texts \notin blurred'
               PROVE  /\ texts <= TextQuota
                      /\ \A x, q \in Senders : Texting(job'[x]) /\ Texting(job'[q]) => x = q
                      /\ \A q \in Senders : Texting(job'[q]) /\ job'[q].step # "end" =>
                            texts + Cardinality(TextsLeft(job'[q])) <= TextQuota
    BY DEF TextInv, Texting, TextsLeft
  <2>1. Texts \notin blurred /\ ~\E q \in Senders : job[q].pick \cap ByText # {}
    BY <1>3 DEF Overlaps, Texting
  <2>2. \A q \in Senders : Texting(job'[q]) => q = r
    BY <1>1, <2>1 DEF Texting
  <2>3. texts + Cardinality(job'[r].pick \cap ByText) <= TextQuota /\ TextsLeft(job'[r]) = job'[r].pick \cap ByText
    BY <1>3 DEF TextsAllow, Texting, TextsLeft
  <2> QED
    BY <2>1, <2>2, <2>3 DEF TextInv
<1> QED
  BY <1>2, <1>3

LEMMA SendsText ==
    ASSUME RemindersTypes, RemindersTypes', TextInv, NEW r \in Senders, NEW i \in Letters, SendText(r, i)
    PROVE  TextInv'
<1>1. /\ NextJobs(r) /\ job[r].step = "text" /\ i \in job[r].todo /\ job'[r].pick = job[r].pick
      /\ \/ /\ job'[r].step = "text" /\ job'[r].todo = job[r].todo \ {i} /\ UNCHANGED <<texts, blurred>>
         \/ /\ job'[r].step = "text" /\ job'[r].todo = job[r].todo \ {i} /\ texts' = texts + 1
            /\ blurred \subseteq blurred'
         \/ Texts \in blurred'
  BY TextSent
<1>2. \A q \in Senders \ {r} : job'[q] = job[q]
  BY <1>1 DEF NextJobs
<1>3. CASE job'[r].step = "text" /\ job'[r].todo = job[r].todo \ {i} /\ UNCHANGED <<texts, blurred>>
  BY <1>1, <1>2, <1>3, TextStays DEF Texting, TextsLeft
<1>4. CASE Texts \in blurred'
  BY <1>4 DEF TextInv
<1>5. CASE job'[r].step = "text" /\ job'[r].todo = job[r].todo \ {i} /\ texts' = texts + 1 /\ blurred \subseteq blurred'
  <2> SUFFICES ASSUME Texts \notin blurred'
               PROVE  /\ texts' <= TextQuota
                      /\ \A x, q \in Senders : Texting(job'[x]) /\ Texting(job'[q]) => x = q
                      /\ \A q \in Senders : Texting(job'[q]) /\ job'[q].step # "end" =>
                            texts' + Cardinality(TextsLeft(job'[q])) <= TextQuota
    BY DEF TextInv, Texting, TextsLeft
  <2>1. Texts \notin blurred
    BY <1>5
  <2>2. Texting(job[r]) /\ \A q \in Senders : Texting(job'[q]) <=> Texting(job[q])
    BY <1>1, <1>2 DEF RemindersTypes, JobFits, Texting
  <2>3. \A q \in Senders : Texting(job'[q]) => q = r
    BY <2>1, <2>2 DEF TextInv
  <2>4. texts + Cardinality(job[r].todo) <= TextQuota
    BY <1>1, <2>1, <2>2 DEF TextInv, TextsLeft
  <2>5. /\ Cardinality(job[r].todo) \in Nat /\ IsFiniteSet(job[r].todo)
    <3>1. job[r].todo \in SUBSET Letters
      BY DEF RemindersTypes, JobRows
    <3> QED
      BY <3>1, SomeLetters
  <2>6. Cardinality(job[r].todo \ {i}) = Cardinality(job[r].todo) - 1
    BY <1>1, <2>5, FS_RemoveElement
  <2>7. Cardinality(job[r].todo \ {i}) \in Nat
    BY <2>5, FS_RemoveElement, FS_CardinalityType
  <2>8. texts' + Cardinality(job'[r].todo) <= TextQuota /\ texts' <= TextQuota
    <3>1. texts \in Nat /\ TextQuota \in Nat
      BY LetterBounds DEF RemindersTypes
    <3> QED
      BY <1>5, <2>4, <2>5, <2>6, <2>7, <3>1
  <2> QED
    BY <1>5, <2>3, <2>8 DEF TextsLeft
<1> QED
  BY <1>1, <1>3, <1>4, <1>5

LEMMA TextNext ==
    ASSUME RemindersTypes, RemindersTypes', TextInv, [RemindersNext]_reminderVars
    PROVE  TextInv'
<1>1. CASE UNCHANGED reminderVars
  BY <1>1, TextStays DEF reminderVars
<1>2. CASE DayEnds
  BY <1>2, DayEnded, TextStays
<1>3. ASSUME NEW i \in Letters, Reply(i) \/ ArchiveOrRestore(i) PROVE TextInv'
  <2>1. UNCHANGED <<texts, job>> /\ blurred \subseteq blurred'
    BY <1>3, LetterTouched
  <2> QED
    BY <2>1, TextStays
<1>4. ASSUME NEW r \in Senders, JobSteps(r) PROVE TextInv'
  <2>0. ASSUME NextJobs(r), UNCHANGED texts, blurred \subseteq blurred',
               Texting(job'[r]) => Texting(job[r]),
               Texting(job'[r]) /\ job'[r].step # "end" =>
                   job[r].step # "end" /\ TextsLeft(job'[r]) \subseteq TextsLeft(job[r])
        PROVE  TextInv'
    BY <2>0, TextStays DEF NextJobs
  <2>1. CASE ClaimEmails(r)
    <3>1. /\ NextJobs(r) /\ job[r].step = "emails" /\ job'[r].step \in {"batch", "end"} /\ job'[r].pick = job[r].pick
          /\ UNCHANGED <<texts, blurred>>
      BY <2>1, EmailsClaimed
    <3> QED
      BY <2>0, <3>1 DEF Texting, TextsLeft
  <2>2. CASE MarkDelivered(r)
    <3>1. /\ NextJobs(r) /\ job[r].step = "mark" /\ job'[r].step = "text" /\ job'[r].pick = job[r].pick
          /\ job'[r].todo = job[r].todo /\ UNCHANGED texts /\ blurred \subseteq blurred'
      BY <2>2, DeliveryMarked
    <3>2. job[r].todo \subseteq job[r].pick \cap ByText
      BY DEF RemindersTypes, JobFits
    <3> QED
      BY <2>0, <3>1, <3>2 DEF Texting, TextsLeft
  <2>3. CASE ClaimReminders(r)
    <3>1. /\ NextJobs(r) /\ job[r].step = "claim" /\ job'[r].step = "emails" /\ job'[r].pick \subseteq job[r].pick
          /\ UNCHANGED <<texts, blurred>>
      BY <2>3, RemindersClaimed
    <3> QED
      BY <2>0, <3>1 DEF Texting, TextsLeft
  <2>4. CASE EndJob(r) \/ StopJob(r)
    <3>1. NextJobs(r) /\ job'[r] = NoJob /\ UNCHANGED <<texts, blurred>>
      BY <2>4, JobEnded, JobStopped
    <3> QED
      BY <2>0, <3>1, NoJobIs DEF Texting
  <2>5. ASSUME NEW S \in SUBSET Letters, SendRead(r, S) PROVE TextInv'
    <3>1. /\ NextJobs(r) /\ job[r] = NoJob /\ job'[r].step = "emails" /\ TextsAllow(job'[r].pick)
          /\ blurred' = blurred \cup Overlaps(job'[r].pick) /\ UNCHANGED texts
      BY <2>5, SendReads
    <3> QED
      BY <3>1, TextsAsked
  <2>6. ASSUME NEW S \in SUBSET Letters, NEW ok \in SUBSET S, SendEmails(r, S, ok) PROVE TextInv'
    <3>1. /\ NextJobs(r) /\ job[r].step = "batch" /\ job'[r].step = "mark" /\ job'[r].pick = job[r].pick
          /\ UNCHANGED <<texts, blurred>>
      BY <2>6, EmailsSent
    <3> QED
      BY <2>0, <3>1 DEF Texting, TextsLeft
  <2>7. ASSUME NEW G \in SUBSET Guests, RemindRead(r, G) PROVE TextInv'
    <3>1. /\ NextJobs(r) /\ job[r] = NoJob /\ job'[r].step = "claim" /\ TextsAllow(job'[r].pick)
          /\ blurred' = blurred \cup Overlaps(job'[r].pick) /\ UNCHANGED texts
      BY <2>7, RemindReads
    <3> QED
      BY <3>1, TextsAsked
  <2> QED
    BY <1>4, <2>1, <2>2, <2>3, <2>4, <2>5, <2>6, <2>7, SendsText DEF JobSteps
<1> QED
  BY <1>1, <1>2, <1>3, <1>4, RemindersCases

\* The invites a reminder has claimed.
HeldBy(j) == IF j.op = "REMINDER" /\ j.step # "claim" THEN j.pick ELSE {}
Reminded(i) == letter[i].reminded = "today"

HeldWell ==
    \A r \in Senders : \A i \in HeldBy(job[r]) : Reminded(i) /\ \A q \in Senders \ {r} : i \notin HeldBy(job[q])

\* Of a guest about whom no two requests read different things, one invite at
\* most was reminded today, and a reminder that is about to claim is about that one.
OneAtMost(g) ==
    \A i \in Letters : Holder[i] = g /\ Reminded(i) =>
        letter[i].live /\ \A k \in Letters : Holder[k] = g /\ Reminded(k) => k = i

Aimed(g) ==
    \A r \in Senders : job[r].step = "claim" =>
        \A i \in job[r].pick : Holder[i] = g =>
            i = Target(g) /\ \A k \in Letters : Holder[k] = g /\ Reminded(k) => k = i

Spent(g) ==
    \/ reached[g] = 0
    \/ /\ reached[g] = 1
       /\ \E i \in Letters : Holder[i] = g /\ Reminded(i) /\ \A r \in Senders : i \in HeldBy(job[r]) => i \in job[r].ok

Known(g) == OneAtMost(g) /\ Aimed(g) /\ Spent(g)

ChaseInv == HeldWell /\ \A g \in Guests \ blurred : Known(g)

LEMMA HeldLetters ==
    ASSUME RemindersTypes, NEW r \in Senders
    PROVE  HeldBy(job[r]) \in SUBSET Letters
BY DEF RemindersTypes, JobRows, HeldBy

LEMMA TargetSame ==
    ASSUME NEW g \in Guests, latest'[g] = latest[g],
           \A i \in Letters : Holder[i] = g =>
               letter'[i].live = letter[i].live /\ letter'[i].delivered = letter[i].delivered
    PROVE  Target(g)' = Target(g)
<1>1. Of(g)' = Of(g) /\ \A i \in Of(g) : letter'[i].delivered = letter[i].delivered
  BY DEF Of, Live
<1>2. {i \in Of(g)' : letter'[i].delivered} = {i \in Of(g) : letter[i].delivered}
  BY <1>1
<1> QED
  BY <1>1, <1>2 DEF Target

LEMMA HeldWellStays ==
    ASSUME HeldWell, \A r \in Senders : HeldBy(job'[r]) \subseteq HeldBy(job[r]),
           \A r \in Senders : \A i \in HeldBy(job'[r]) : letter[i].reminded = "today" => letter'[i].reminded = "today"
    PROVE  HeldWell'
<1>1. ASSUME NEW r \in Senders, NEW i \in HeldBy(job'[r])
      PROVE  letter'[i].reminded = "today" /\ \A q \in Senders \ {r} : i \notin HeldBy(job'[q])
  <2>1. i \in HeldBy(job[r])
    BY <1>1
  <2>2. letter[i].reminded = "today" /\ \A q \in Senders \ {r} : i \notin HeldBy(job[q])
    BY <2>1 DEF HeldWell, Reminded
  <2> QED
    BY <1>1, <2>2
<1>2. \A r \in Senders : \A i \in HeldBy(job'[r]) :
          letter'[i].reminded = "today" /\ \A q \in Senders \ {r} : i \notin HeldBy(job'[q])
  BY <1>1
<1> QED
  BY <1>2 DEF HeldWell, Reminded, HeldBy

\* Whatever gives back only what reached nobody leaves a guest's account as it was.
LEMMA AccountStays ==
    ASSUME NEW g \in Guests, Known(g), reached'[g] = reached[g],
           \A i \in Letters : Holder[i] = g =>
               /\ letter'[i].reminded = "today" => letter[i].reminded = "today" /\ letter'[i].live = letter[i].live
               /\ letter[i].reminded = "today" /\ (\A r \in Senders : i \in HeldBy(job[r]) => i \in job[r].ok) =>
                      letter'[i].reminded = "today",
           \A r \in Senders : job'[r].step = "claim" =>
               \A i \in job'[r].pick : Holder[i] = g =>
                   job[r].step = "claim" /\ i \in job[r].pick /\ Target(g)' = Target(g),
           \A r \in Senders : \A i \in HeldBy(job'[r]) : Holder[i] = g =>
               i \in HeldBy(job[r]) /\ (i \in job[r].ok => i \in job'[r].ok)
    PROVE  Known(g)'
<1>1. OneAtMost(g)'
  <2>1. OneAtMost(g)
    BY DEF Known
  <2> QED
    BY <2>1 DEF OneAtMost, Reminded
<1>2. Aimed(g)'
  <2> SUFFICES ASSUME NEW r \in Senders, job'[r].step = "claim", NEW i \in job'[r].pick, Holder[i] = g
               PROVE  i = Target(g)' /\ \A k \in Letters : Holder[k] = g /\ letter'[k].reminded = "today" => k = i
    BY DEF Aimed, Reminded
  <2>1. job[r].step = "claim" /\ i \in job[r].pick /\ Target(g)' = Target(g)
    OBVIOUS
  <2>2. i = Target(g) /\ \A k \in Letters : Holder[k] = g /\ letter[k].reminded = "today" => k = i
    BY <2>1 DEF Known, Aimed, Reminded
  <2> QED
    BY <2>1, <2>2
<1>3. Spent(g)'
  <2>1. CASE reached[g] = 0
    BY <2>1 DEF Spent
  <2>2. CASE reached[g] # 0
    <3>1. PICK i \in Letters : /\ Holder[i] = g /\ letter[i].reminded = "today" /\ reached[g] = 1
                               /\ \A r \in Senders : i \in HeldBy(job[r]) => i \in job[r].ok
      BY <2>2 DEF Known, Spent, Reminded
    <3>2. letter'[i].reminded = "today" /\ reached'[g] = 1
      BY <3>1
    <3>3. \A r \in Senders : i \in HeldBy(job'[r]) => i \in job'[r].ok
      BY <3>1
    <3>4. \E m \in Letters : /\ Holder[m] = g /\ letter'[m].reminded = "today"
                             /\ \A r \in Senders : m \in HeldBy(job'[r]) => m \in job'[r].ok
      BY <3>1, <3>2, <3>3
    <3> QED
      BY <3>2, <3>4 DEF Spent, Reminded, HeldBy
  <2> QED
    BY <2>1, <2>2
<1> QED
  BY <1>1, <1>2, <1>3 DEF Known

\* Nobody was told yet that a guest was reminded about whom a reminder is to go.
LEMMA UntoldYet ==
    ASSUME RemindersTypes, HeldWell, NEW g \in Guests, Known(g), NEW r \in Senders,
           NEW i \in HeldBy(job[r]), i \notin job[r].ok, Holder[i] = g
    PROVE  reached[g] = 0
<1>1. i \in Letters /\ letter[i].reminded = "today"
  BY HeldLetters DEF HeldWell, Reminded
<1> SUFFICES ASSUME reached[g] # 0 PROVE FALSE
  OBVIOUS
<1>2. PICK k \in Letters : /\ Holder[k] = g /\ letter[k].reminded = "today"
                           /\ \A q \in Senders : k \in HeldBy(job[q]) => k \in job[q].ok
  BY DEF Known, Spent, Reminded
<1>3. k = i
  BY <1>1, <1>2 DEF Known, OneAtMost, Reminded
<1> QED
  BY <1>2, <1>3

\* A reminder that reaches its guest is the first this day.
LEMMA ReachedOnce ==
    ASSUME RemindersTypes, HeldWell, NEW g \in Guests, Known(g), NEW r \in Senders, NextJobs(r),
           UNCHANGED <<letter, latest>>, NEW i \in HeldBy(job[r]), i \notin job[r].ok, Holder[i] = g,
           reached'[g] = reached[g] + 1, job'[r].op = job[r].op, job'[r].pick = job[r].pick,
           job'[r].step # "claim", i \in job'[r].ok
    PROVE  Known(g)'
<1>1. \A q \in Senders \ {r} : job'[q] = job[q]
  BY DEF NextJobs
<1>2. i \in Letters /\ letter[i].reminded = "today" /\ \A q \in Senders \ {r} : i \notin HeldBy(job[q])
  BY HeldLetters DEF HeldWell, Reminded
<1>3. reached[g] = 0
  BY UntoldYet
<1>4. OneAtMost(g)'
  BY DEF Known, OneAtMost, Reminded
<1>5. Aimed(g)'
  <2>1. Target(g)' = Target(g)
    BY TargetSame
  <2> SUFFICES ASSUME NEW q \in Senders, job'[q].step = "claim", NEW m \in job'[q].pick, Holder[m] = g
               PROVE  m = Target(g)' /\ \A k \in Letters : Holder[k] = g /\ letter'[k].reminded = "today" => k = m
    BY DEF Aimed, Reminded
  <2>2. job'[q] = job[q]
    BY <1>1
  <2> QED
    BY <2>1, <2>2 DEF Known, Aimed, Reminded
<1>6. Spent(g)'
  <2>1. \A q \in Senders : i \in HeldBy(job'[q]) => i \in job'[q].ok
    BY <1>1, <1>2
  <2>2. \E m \in Letters : /\ Holder[m] = g /\ letter'[m].reminded = "today"
                           /\ \A q \in Senders : m \in HeldBy(job'[q]) => m \in job'[q].ok
    BY <1>2, <2>1
  <2>3. reached'[g] = 1
    BY <1>3
  <2> QED
    BY <2>2, <2>3 DEF Spent, Reminded, HeldBy
<1> QED
  BY <1>4, <1>5, <1>6 DEF Known

\* While a reminder is about to claim, a change of a guest's invites is recorded.
LEMMA NotBlurred ==
    ASSUME RemindersTypes, NEW g, NEW S, g \notin Blurs(S), NEW r \in Senders, job[r].step = "claim"
    PROVE  \A i \in S : Holder[i] # g
<1>1. job[r].op = "REMINDER"
  BY DEF RemindersTypes, JobFits
<1> QED
  BY <1>1 DEF Blurs

\* A step of one request that leaves what was reminded, and to whom it went, alone.
LEMMA ChaseStays ==
    ASSUME RemindersTypes, ChaseInv, NEW r \in Senders, NextJobs(r), SameReminded,
           job'[r].step # "claim", blurred \subseteq blurred',
           HeldBy(job'[r]) \subseteq HeldBy(job[r]), \A i \in HeldBy(job'[r]) : i \in job[r].ok => i \in job'[r].ok,
           \A i \in Letters : letter'[i].live = letter[i].live,
           \A g \in Guests \ blurred' :
               /\ reached'[g] = reached[g]
               /\ \/ \A q \in Senders : job[q].step # "claim" \/ q = r
                  \/ latest'[g] = latest[g] /\ \A i \in Letters : Holder[i] = g => letter'[i] = letter[i]
    PROVE  ChaseInv'
<1>1. \A q \in Senders \ {r} : job'[q] = job[q]
  BY DEF NextJobs
<1>2. HeldWell'
  <2>1. \A q \in Senders : HeldBy(job'[q]) \subseteq HeldBy(job[q])
    BY <1>1
  <2>2. \A q \in Senders : \A i \in HeldBy(job'[q]) : letter[i].reminded = "today" => letter'[i].reminded = "today"
    BY <2>1, HeldLetters DEF SameReminded
  <2> QED
    BY <2>1, <2>2, HeldWellStays DEF ChaseInv
<1>3. ASSUME NEW g \in Guests \ blurred' PROVE Known(g)'
  <2>1. Known(g) /\ reached'[g] = reached[g]
    BY DEF ChaseInv
  <2>2. ASSUME NEW q \in Senders, job'[q].step = "claim"
        PROVE  job[q].step = "claim" /\ job'[q] = job[q] /\ Target(g)' = Target(g)
    <3>1. q # r /\ job'[q] = job[q]
      BY <1>1, <2>2
    <3>2. latest'[g] = latest[g] /\ \A i \in Letters : Holder[i] = g => letter'[i] = letter[i]
      BY <2>2, <3>1
    <3>3. Target(g)' = Target(g)
      BY <3>2, TargetSame
    <3> QED
      BY <2>2, <3>1, <3>3
  <2>3. \A q \in Senders : \A i \in HeldBy(job'[q]) : i \in HeldBy(job[q]) /\ (i \in job[q].ok => i \in job'[q].ok)
    BY <1>1
  <2> QED
    BY <2>1, <2>2, <2>3, AccountStays DEF SameReminded
<1> QED
  BY <1>2, <1>3 DEF ChaseInv

LEMMA ChaseTouched ==
    ASSUME RemindersTypes, ChaseInv, NEW i \in Letters, Reply(i) \/ ArchiveOrRestore(i)
    PROVE  ChaseInv'
<1>1. /\ SameReminded
      /\ \A k \in Letters : letter'[k].delivered = letter[k].delivered /\ (k # i => letter'[k] = letter[k])
      /\ \/ letter'[i].live = letter[i].live /\ UNCHANGED blurred
         \/ blurred' = blurred \cup Blurs({i}) \cup (IF letter[i].reminded = "today" THEN {Holder[i]} ELSE {})
      /\ UNCHANGED <<latest, job, reached>>
  BY LetterTouched
<1>2. HeldWell'
  BY <1>1, HeldLetters, HeldWellStays DEF ChaseInv, SameReminded
<1>3. ASSUME NEW g \in Guests \ blurred' PROVE Known(g)'
  <2>1. g \notin blurred /\ Known(g)
    BY <1>1 DEF ChaseInv
  <2>2. CASE letter'[i].live = letter[i].live \/ Holder[i] # g
    <3>1. \A k \in Letters : Holder[k] = g =>
              letter'[k].live = letter[k].live /\ letter'[k].delivered = letter[k].delivered
      BY <1>1, <2>2
    <3>2. Target(g)' = Target(g)
      BY <1>1, <3>1, TargetSame
    <3> QED
      BY <1>1, <2>1, <3>1, <3>2, AccountStays DEF SameReminded
  <2>3. CASE ~(letter'[i].live = letter[i].live \/ Holder[i] # g)
    <3>1. /\ Holder[i] = g /\ letter[i].reminded # "today" /\ g \notin Blurs({i})
      BY <1>1, <2>3
    <3>2. \A r \in Senders : job[r].step # "claim"
      BY <3>1, NotBlurred
    <3>3. \A k \in Letters : letter'[k].reminded = "today" => letter'[k].live = letter[k].live
      BY <1>1, <3>1 DEF SameReminded
    <3> QED
      BY <1>1, <2>1, <3>2, <3>3, AccountStays DEF SameReminded
  <2> QED
    BY <2>2, <2>3
<1> QED
  BY <1>2, <1>3 DEF ChaseInv

LEMMA ChaseDay ==
    ASSUME RemindersTypes, DayEnds
    PROVE  ChaseInv'
<1>1. /\ \A i \in Letters : letter'[i].reminded # "today"
      /\ \A r \in Senders : job'[r] = NoJob
      /\ \A g \in Guests : reached'[g] = 0
  BY DayEnded
<1>2. \A r \in Senders : job'[r].step # "claim" /\ HeldBy(job'[r]) = {}
  BY <1>1, NoJobIs DEF HeldBy
<1>3. HeldWell'
  <2>1. \A r \in Senders : \A i \in HeldBy(job'[r]) : FALSE
    BY <1>2
  <2> QED
    BY <2>1 DEF HeldWell, HeldBy
<1>4. ASSUME NEW g \in Guests PROVE Known(g)'
  BY <1>1, <1>2, <1>4 DEF Known, OneAtMost, Aimed, Spent, Reminded
<1> QED
  BY <1>3, <1>4 DEF ChaseInv

\* The emails of a request.
LEMMA ChaseEmails ==
    ASSUME RemindersTypes, ChaseInv, NEW r \in Senders, NEW went \in SUBSET Letters, NEW ok \in SUBSET went,
           SendEmails(r, went, ok)
    PROVE  ChaseInv'
<1>0. /\ NextJobs(r) /\ job[r].step = "batch" /\ job'[r].op = job[r].op /\ job'[r].pick = job[r].pick
      /\ job[r].ok = {} /\ job'[r].ok = ok /\ job'[r].step = "mark" /\ ok \subseteq job[r].pick
      /\ job'[r].todo = job[r].pick \cap ByText
      /\ went \subseteq Emailed(job[r].pick) /\ mailed' = mailed + Cardinality(went)
      /\ \A g \in Guests : reached'[g] = IF job[r].op = "INVITE" THEN reached[g]
                                         ELSE reached[g] + Cardinality({i \in ok : Holder[i] = g})
      /\ reached' \in [Guests -> Nat]
      /\ UNCHANGED <<letter, latest, posted, texts, blurred>>
  BY EmailsSent, Zenon
<1>1. /\ NextJobs(r) /\ job[r].step = "batch" /\ job'[r].op = job[r].op /\ job'[r].pick = job[r].pick
      /\ job[r].ok = {} /\ job'[r].ok = ok /\ job'[r].step = "mark" /\ ok \subseteq job[r].pick
      /\ \A g \in Guests : reached'[g] = IF job[r].op = "INVITE" THEN reached[g]
                                         ELSE reached[g] + Cardinality({i \in ok : Holder[i] = g})
      /\ UNCHANGED <<letter, latest, blurred>>
  BY <1>0
<1>2. HeldBy(job'[r]) = HeldBy(job[r])
  BY <1>1 DEF HeldBy
<1>3. \A q \in Senders \ {r} : job'[q] = job[q]
  BY <1>1 DEF NextJobs
<1>4. HeldWell'
  <2>1. \A q \in Senders : HeldBy(job'[q]) \subseteq HeldBy(job[q])
    BY <1>2, <1>3
  <2> QED
    BY <1>1, <2>1, HeldWellStays DEF ChaseInv
<1>5. ASSUME NEW g \in Guests \ blurred' PROVE Known(g)'
  <2>1. Known(g) /\ HeldWell
    BY <1>1 DEF ChaseInv
  <2> DEFINE D == {i \in ok : Holder[i] = g}
  <2>2. CASE job[r].op = "INVITE" \/ D = {}
    <3>1. reached'[g] = reached[g]
      <4>1. CASE job[r].op = "INVITE"
        BY <1>1, <4>1
      <4>2. CASE job[r].op # "INVITE"
        <5>1. Cardinality(D) = 0
          BY <2>2, <4>2, FS_EmptySet
        <5>2. reached[g] \in Nat /\ reached'[g] = reached[g] + Cardinality(D)
          BY <1>1, <4>2 DEF RemindersTypes
        <5> QED
          BY <5>1, <5>2
      <4> QED
        BY <4>1, <4>2
    <3>2. Target(g)' = Target(g)
      BY <1>1, TargetSame
    <3>3. \A q \in Senders : job'[q].step = "claim" => job'[q] = job[q]
      BY <1>1, <1>3
    <3>4. \A q \in Senders : \A i \in HeldBy(job'[q]) : i \in HeldBy(job[q]) /\ (i \in job[q].ok => i \in job'[q].ok)
      BY <1>1, <1>2, <1>3
    <3> QED
      BY <1>1, <2>1, <3>1, <3>2, <3>3, <3>4, AccountStays
  <2>3. CASE job[r].op # "INVITE" /\ D # {}
    <3>1. PICK i \in ok : Holder[i] = g
      BY <2>3
    <3>2. job[r].op = "REMINDER" /\ ok \subseteq HeldBy(job[r])
      BY <1>1, <2>3 DEF RemindersTypes, JobRows, JobFits, HeldBy
    <3>3. \A k \in D : k = i
      <4>1. \A k \in D : k \in Letters /\ k \in HeldBy(job[r]) /\ Holder[k] = g
        BY <3>2
      <4>2. \A k \in HeldBy(job[r]) : Reminded(k)
        BY <2>1 DEF HeldWell
      <4> QED
        BY <2>1, <3>1, <4>1, <4>2 DEF Known, OneAtMost
    <3>4. D = {i}
      BY <3>1, <3>3
    <3>5. Cardinality(D) = 1
      BY <3>4, FS_Singleton
    <3>6. reached'[g] = reached[g] + 1
      BY <1>1, <2>3, <3>5
    <3>7. i \in HeldBy(job[r]) /\ i \notin job[r].ok /\ i \in job'[r].ok /\ job'[r].step # "claim"
      BY <1>1, <3>1, <3>2
    <3> QED
      BY <1>1, <2>1, <3>1, <3>6, <3>7, ReachedOnce
  <2> QED
    BY <2>2, <2>3
<1> QED
  BY <1>4, <1>5 DEF ChaseInv

LEMMA ChaseMarks ==
    ASSUME RemindersTypes, ChaseInv, NEW r \in Senders, MarkDelivered(r)
    PROVE  ChaseInv'
<1>1. /\ NextJobs(r) /\ job[r].step = "mark" /\ job'[r].op = job[r].op /\ job'[r].pick = job[r].pick
      /\ job'[r].ok = job[r].ok /\ job'[r].step = "text"
      /\ job[r].ok \in SUBSET Letters /\ Delivers(job[r].op, job[r].ok)
      /\ blurred' = (IF job[r].op = "INVITE" THEN blurred \cup Blurs(job[r].ok) ELSE blurred)
      /\ UNCHANGED reached
  BY DeliveryMarked
<1>2. /\ \A i \in Letters : letter'[i].reminded = letter[i].reminded /\ letter'[i].live = letter[i].live
      /\ job[r].op = "REMINDER" => UNCHANGED <<letter, latest>>
      /\ \A i \in Letters \ job[r].ok : letter'[i] = letter[i]
      /\ \A g \in Guests : (\A i \in job[r].ok : Holder[i] # g) => latest'[g] = latest[g]
  <2> DEFINE op == job[r].op
             S == job[r].ok
  <2>1. S \in SUBSET Letters /\ Delivers(op, S)
    BY <1>1
  <2> HIDE DEF op, S
  <2>2. /\ \A i \in Letters : letter'[i].reminded = letter[i].reminded /\ letter'[i].live = letter[i].live
        /\ op = "REMINDER" => UNCHANGED <<letter, latest>>
        /\ \A i \in Letters \ S : letter'[i] = letter[i]
        /\ \A g \in Guests : (\A i \in S : Holder[i] # g) => latest'[g] = latest[g]
    BY <2>1, DeliversIs
  <2> QED
    BY <2>2 DEF op, S
<1>3. HeldBy(job'[r]) = HeldBy(job[r]) /\ SameReminded /\ blurred \subseteq blurred'
  BY <1>1, <1>2 DEF HeldBy, SameReminded
<1>4. ASSUME NEW g \in Guests \ blurred'
      PROVE  \/ \A q \in Senders : job[q].step # "claim" \/ q = r
             \/ latest'[g] = latest[g] /\ \A i \in Letters : Holder[i] = g => letter'[i] = letter[i]
  <2>1. CASE job[r].op = "REMINDER"
    BY <1>2, <2>1
  <2>2. CASE job[r].op # "REMINDER"
    <3>1. g \notin Blurs(job[r].ok)
      BY <1>1, <2>2 DEF RemindersTypes, JobRows, JobFits
    <3>2. (\A q \in Senders : job[q].step # "claim") \/ \A i \in job[r].ok : Holder[i] # g
      BY <3>1, NotBlurred
    <3> QED
      BY <1>2, <3>2
  <2> QED
    BY <2>1, <2>2
<1> QED
  BY <1>1, <1>2, <1>3, <1>4, ChaseStays

\* A text of a request.
LEMMA ChaseTexts ==
    ASSUME RemindersTypes, ChaseInv, NEW r \in Senders, NEW i \in Letters, SendText(r, i)
    PROVE  ChaseInv'
<1>0. /\ NextJobs(r) /\ job[r].step = "text" /\ i \in job[r].todo /\ i \in job[r].pick /\ i \notin job[r].ok
      /\ job'[r].op = job[r].op /\ job'[r].pick = job[r].pick
      /\ \/ /\ job'[r].step = "text" /\ job'[r].todo = job[r].todo \ {i} /\ job'[r].ok = job[r].ok
            /\ UNCHANGED <<letter, latest, texts, reached, blurred>>
         \/ /\ Delivers(job[r].op, {i})
            /\ reached' = IF job[r].op = "INVITE" THEN reached ELSE [reached EXCEPT ![Holder[i]] = @ + 1]
            /\ \/ /\ job'[r].step = "text" /\ job'[r].todo = job[r].todo \ {i} /\ job'[r].ok = job[r].ok \cup {i}
                  /\ texts' = texts + 1
                  /\ blurred' = blurred \cup (IF job[r].op = "INVITE" THEN Blurs({i}) ELSE {})
               \/ /\ job'[r].step = "end" /\ job'[r].todo = job[r].todo /\ job'[r].ok = job[r].ok
                  /\ UNCHANGED texts
                  /\ blurred' = blurred \cup {Texts, Holder[i]} \cup (IF job[r].op = "INVITE" THEN Blurs({i}) ELSE {})
      /\ UNCHANGED <<posted, mailed>>
  BY TextSent, Zenon
<1>1. /\ NextJobs(r) /\ job[r].step = "text" /\ i \in job[r].pick /\ i \notin job[r].ok
      /\ job'[r].op = job[r].op /\ job'[r].pick = job[r].pick /\ job'[r].step \in {"text", "end"}
      /\ job[r].ok \subseteq job'[r].ok
      /\ \/ UNCHANGED <<letter, latest, reached, blurred>>
         \/ /\ Delivers(job[r].op, {i}) /\ blurred \subseteq blurred'
            /\ reached' = IF job[r].op = "INVITE" THEN reached ELSE [reached EXCEPT ![Holder[i]] = @ + 1]
            /\ job[r].op = "INVITE" => Blurs({i}) \subseteq blurred'
            /\ i \in job'[r].ok \/ Holder[i] \in blurred'
  BY <1>0
<1>2. HeldBy(job'[r]) = HeldBy(job[r]) /\ job'[r].step # "claim"
  BY <1>1 DEF HeldBy
<1>3. CASE UNCHANGED <<letter, latest, reached, blurred>>
  <2>1. SameReminded
    BY <1>3 DEF SameReminded
  <2> QED
    BY <1>1, <1>2, <1>3, <2>1, ChaseStays
<1>4. CASE /\ Delivers(job[r].op, {i}) /\ blurred \subseteq blurred'
           /\ reached' = IF job[r].op = "INVITE" THEN reached ELSE [reached EXCEPT ![Holder[i]] = @ + 1]
           /\ job[r].op = "INVITE" => Blurs({i}) \subseteq blurred'
           /\ i \in job'[r].ok \/ Holder[i] \in blurred'
  <2>1. /\ \A k \in Letters : letter'[k].reminded = letter[k].reminded /\ letter'[k].live = letter[k].live
        /\ job[r].op = "REMINDER" => UNCHANGED <<letter, latest>>
        /\ \A k \in Letters \ {i} : letter'[k] = letter[k]
        /\ \A g \in Guests : Holder[i] # g => latest'[g] = latest[g]
    <3> DEFINE op == job[r].op
    <3>1. {i} \in SUBSET Letters /\ Delivers(op, {i})
      BY <1>4
    <3> HIDE DEF op
    <3>2. /\ \A k \in Letters : letter'[k].reminded = letter[k].reminded /\ letter'[k].live = letter[k].live
          /\ op = "REMINDER" => UNCHANGED <<letter, latest>>
          /\ \A k \in Letters \ {i} : letter'[k] = letter[k]
          /\ \A g \in Guests : (\A k \in {i} : Holder[k] # g) => latest'[g] = latest[g]
      BY <3>1, DeliversIs
    <3> QED
      BY <3>2 DEF op
  <2>2. CASE job[r].op = "INVITE"
    <3>1. ASSUME NEW g \in Guests \ blurred'
          PROVE  \/ \A q \in Senders : job[q].step # "claim" \/ q = r
                 \/ latest'[g] = latest[g] /\ \A k \in Letters : Holder[k] = g => letter'[k] = letter[k]
      <4>1. g \notin Blurs({i})
        BY <1>4, <2>2
      <4>2. (\A q \in Senders : job[q].step # "claim") \/ Holder[i] # g
        BY <4>1, NotBlurred
      <4> QED
        BY <2>1, <4>2
    <3>2. SameReminded /\ UNCHANGED reached
      BY <1>4, <2>1, <2>2 DEF SameReminded
    <3> QED
      BY <1>1, <1>2, <1>4, <2>1, <3>1, <3>2, ChaseStays
  <2>3. CASE job[r].op # "INVITE"
    <3>1. job[r].op = "REMINDER" /\ UNCHANGED <<letter, latest>> /\ i \in HeldBy(job[r])
      BY <1>1, <2>1, <2>3 DEF RemindersTypes, JobRows, JobFits, HeldBy
    <3>2. \A q \in Senders \ {r} : job'[q] = job[q]
      BY <1>1 DEF NextJobs
    <3>3. HeldWell'
      <4>1. \A q \in Senders : HeldBy(job'[q]) \subseteq HeldBy(job[q])
        BY <1>2, <3>2
      <4> QED
        BY <3>1, <4>1, HeldWellStays DEF ChaseInv
    <3>4. ASSUME NEW g \in Guests \ blurred' PROVE Known(g)'
      <4>1. Known(g) /\ HeldWell
        BY <1>4 DEF ChaseInv
      <4>2. CASE Holder[i] = g
        <5>1. i \in job'[r].ok
          BY <1>4, <4>2
        <5>2. reached'[g] = reached[g] + 1
          BY <1>4, <2>3, <4>2 DEF RemindersTypes
        <5> QED
          BY <1>1, <1>2, <3>1, <4>1, <4>2, <5>1, <5>2, ReachedOnce
      <4>3. CASE Holder[i] # g
        <5>1. reached'[g] = reached[g]
          BY <1>4, <2>3, <4>3 DEF RemindersTypes
        <5>2. Target(g)' = Target(g)
          BY <3>1, TargetSame
        <5>3. \A q \in Senders : job'[q].step = "claim" => job'[q] = job[q]
          BY <1>2, <3>2
        <5>4. \A q \in Senders : \A k \in HeldBy(job'[q]) : k \in HeldBy(job[q]) /\ (k \in job[q].ok => k \in job'[q].ok)
          BY <1>1, <1>2, <3>2
        <5> QED
          BY <3>1, <4>1, <5>1, <5>2, <5>3, <5>4, AccountStays
      <4> QED
        BY <4>2, <4>3
    <3> QED
      BY <3>3, <3>4 DEF ChaseInv
  <2> QED
    BY <2>2, <2>3
<1> QED
  BY <1>1, <1>3, <1>4

\* A claim of one invite of each guest it is about.
LEMMA ChaseClaims ==
    ASSUME RemindersTypes, ChaseInv, NEW r \in Senders, ClaimReminders(r)
    PROVE  ChaseInv'
<1>1. /\ NextJobs(r) /\ job[r].step = "claim" /\ job[r].op = "REMINDER" /\ job'[r].op = "REMINDER"
      /\ job'[r].step = "emails" /\ job'[r].pick = {i \in job[r].pick : Claimable(i)}
      /\ job[r].pick \in SUBSET Letters
      /\ \A i \in Letters : /\ letter'[i].live = letter[i].live /\ letter'[i].delivered = letter[i].delivered
                            /\ letter'[i].reminded = IF i \in job'[r].pick THEN "today" ELSE letter[i].reminded
      /\ UNCHANGED <<latest, reached, blurred>>
  BY RemindersClaimed
<1>2. \A q \in Senders \ {r} : job'[q] = job[q]
  BY <1>1 DEF NextJobs
<1>3. /\ HeldBy(job[r]) = {} /\ HeldBy(job'[r]) = job'[r].pick
      /\ \A i \in job'[r].pick : i \in job[r].pick /\ i \in Letters /\ letter[i].live /\ letter[i].reminded # "today"
  BY <1>1 DEF HeldBy, Claimable
<1>4. HeldWell'
  <2>1. ASSUME NEW q \in Senders, NEW i \in HeldBy(job'[q])
        PROVE  letter'[i].reminded = "today" /\ \A x \in Senders \ {q} : i \notin HeldBy(job'[x])
    <3>1. CASE q = r
      <4>1. i \in job'[r].pick /\ letter[i].reminded # "today"
        BY <1>3, <2>1, <3>1
      <4>2. \A x \in Senders : i \notin HeldBy(job[x])
        BY <4>1 DEF ChaseInv, HeldWell, Reminded
      <4> QED
        BY <1>1, <1>2, <1>3, <3>1, <4>1, <4>2
    <3>2. CASE q # r
      <4>1. i \in HeldBy(job[q]) /\ i \in Letters
        BY <1>2, <2>1, <3>2, HeldLetters
      <4>2. letter[i].reminded = "today" /\ \A x \in Senders \ {q} : i \notin HeldBy(job[x])
        BY <4>1 DEF ChaseInv, HeldWell, Reminded
      <4>3. i \notin job'[r].pick
        BY <1>3, <4>2
      <4> QED
        BY <1>1, <1>2, <1>3, <4>1, <4>2, <4>3
    <3> QED
      BY <3>1, <3>2
  <2>2. \A q \in Senders : \A i \in HeldBy(job'[q]) :
            letter'[i].reminded = "today" /\ \A x \in Senders \ {q} : i \notin HeldBy(job'[x])
    BY <2>1
  <2> QED
    BY <2>2 DEF HeldWell, Reminded, HeldBy
<1>5. ASSUME NEW g \in Guests \ blurred' PROVE Known(g)'
  <2>1. Known(g) /\ g \notin blurred
    BY <1>1 DEF ChaseInv
  <2>2. Target(g)' = Target(g)
    BY <1>1, TargetSame
  <2>3. CASE \A i \in job'[r].pick : Holder[i] # g
    <3>1. \A q \in Senders : job'[q].step = "claim" => job'[q] = job[q]
      BY <1>1, <1>2
    <3>2. \A q \in Senders : \A i \in HeldBy(job'[q]) : Holder[i] = g => i \in HeldBy(job[q]) /\ job'[q] = job[q]
      BY <1>2, <1>3, <2>3
    <3>3. \A i \in Letters : Holder[i] = g => letter'[i].reminded = letter[i].reminded /\ letter'[i].live = letter[i].live
      BY <1>1, <2>3
    <3> QED
      BY <1>1, <2>1, <2>2, <3>1, <3>2, <3>3, AccountStays
  <2>4. CASE ~\A i \in job'[r].pick : Holder[i] # g
    <3>1. PICK i \in job'[r].pick : Holder[i] = g
      BY <2>4
    <3>2. /\ i \in job[r].pick /\ i \in Letters /\ letter[i].live /\ letter[i].reminded # "today"
      BY <1>3
    <3>3. /\ i = Target(g) /\ \A k \in Letters : Holder[k] = g /\ letter[k].reminded = "today" => k = i
      BY <1>1, <2>1, <3>1, <3>2 DEF Known, Aimed, Reminded
    <3>4. \A k \in Letters : Holder[k] = g => letter[k].reminded # "today"
      BY <3>2, <3>3
    <3>5. reached'[g] = 0
      BY <1>1, <2>1, <3>4 DEF Known, Spent, Reminded
    <3>6. \A k \in Letters : Holder[k] = g /\ letter'[k].reminded = "today" => k = i
      <4> SUFFICES ASSUME NEW k \in Letters, Holder[k] = g, letter'[k].reminded = "today" PROVE k = i
        OBVIOUS
      <4>1. k \in job'[r].pick
        BY <1>1, <3>4
      <4>2. k \in job[r].pick
        BY <1>3, <4>1
      <4>3. k = Target(g)
        BY <1>1, <2>1, <4>2 DEF Known, Aimed
      <4> QED
        BY <3>3, <4>3
    <3>7. OneAtMost(g)'
      BY <1>1, <3>2, <3>6 DEF OneAtMost, Reminded
    <3>8. Aimed(g)'
      <4> SUFFICES ASSUME NEW q \in Senders, job'[q].step = "claim", NEW m \in job'[q].pick, Holder[m] = g
                   PROVE  m = Target(g)' /\ \A k \in Letters : Holder[k] = g /\ letter'[k].reminded = "today" => k = m
        BY DEF Aimed, Reminded
      <4>1. job'[q] = job[q]
        BY <1>1, <1>2
      <4>2. m = Target(g)
        BY <2>1, <4>1 DEF Known, Aimed
      <4> QED
        BY <2>2, <3>3, <3>6, <4>2
    <3> QED
      BY <3>5, <3>7, <3>8 DEF Known, Spent
  <2> QED
    BY <2>3, <2>4
<1> QED
  BY <1>4, <1>5 DEF ChaseInv

\* Whoever is chosen for a reminder was not reminded this day.
LEMMA ChaseReads ==
    ASSUME RemindersTypes, ChaseInv, NEW r \in Senders, NEW G \in SUBSET Guests, RemindRead(r, G)
    PROVE  ChaseInv'
<1>1. /\ NextJobs(r) /\ job[r] = NoJob /\ job'[r].op = "REMINDER" /\ job'[r].step = "claim"
      /\ blurred \subseteq blurred'
      /\ \A i \in job'[r].pick : i \in Letters /\ Remindable(Holder[i]) /\ i = Target(Holder[i])
      /\ UNCHANGED <<letter, latest, reached>>
  BY RemindReads
<1>2. \A q \in Senders \ {r} : job'[q] = job[q]
  BY <1>1 DEF NextJobs
<1>3. HeldBy(job'[r]) = {}
  BY <1>1 DEF HeldBy
<1>4. HeldWell'
  <2>1. \A q \in Senders : HeldBy(job'[q]) \subseteq HeldBy(job[q])
    BY <1>2, <1>3
  <2> QED
    BY <1>1, <2>1, HeldWellStays DEF ChaseInv
<1>5. ASSUME NEW g \in Guests \ blurred' PROVE Known(g)'
  <2>1. Known(g) /\ g \notin blurred
    BY <1>1 DEF ChaseInv
  <2>2. Target(g)' = Target(g)
    BY <1>1, TargetSame
  <2>3. \A q \in Senders : \A i \in HeldBy(job'[q]) : i \in HeldBy(job[q]) /\ job'[q] = job[q]
    BY <1>2, <1>3
  <2>4. CASE \A i \in job'[r].pick : Holder[i] # g
    <3>1. \A q \in Senders : job'[q].step = "claim" => job'[q] = job[q] \/ q = r
      BY <1>2
    <3> QED
      BY <1>1, <2>1, <2>2, <2>3, <2>4, <3>1, AccountStays
  <2>5. CASE ~\A i \in job'[r].pick : Holder[i] # g
    <3>1. Remindable(g)
      BY <1>1, <2>5
    <3>2. \A k \in Letters : Holder[k] = g => letter[k].reminded # "today"
      BY <2>1, <3>1 DEF Known, OneAtMost, Reminded, Remindable, Of, Live
    <3>3. reached'[g] = 0
      BY <1>1, <2>1, <3>2 DEF Known, Spent, Reminded
    <3>4. OneAtMost(g)'
      BY <1>1, <3>2 DEF OneAtMost, Reminded
    <3>5. Aimed(g)'
      <4> SUFFICES ASSUME NEW q \in Senders, job'[q].step = "claim", NEW m \in job'[q].pick, Holder[m] = g
                   PROVE  m = Target(g)'
        BY <1>1, <3>2 DEF Aimed, Reminded
      <4>1. CASE q = r
        BY <1>1, <2>2, <4>1
      <4>2. CASE q # r
        <5>1. job'[q] = job[q]
          BY <1>2, <4>2
        <5> QED
          BY <2>1, <2>2, <5>1 DEF Known, Aimed
      <4> QED
        BY <4>1, <4>2
    <3> QED
      BY <3>3, <3>4, <3>5 DEF Known, Spent
  <2> QED
    BY <2>4, <2>5
<1> QED
  BY <1>4, <1>5 DEF ChaseInv

\* A request that ends gives back only what it claimed and what reached nobody.
LEMMA ChaseEnds ==
    ASSUME RemindersTypes, ChaseInv, NEW r \in Senders, EndJob(r)
    PROVE  ChaseInv'
<1>1. /\ NextJobs(r) /\ job'[r] = NoJob
      /\ \A i \in Letters : /\ letter'[i].live = letter[i].live /\ letter'[i].delivered = letter[i].delivered
                            /\ letter'[i].reminded # letter[i].reminded =>
                                  /\ job[r].op = "REMINDER" /\ job[r].step # "claim"
                                  /\ i \in job[r].pick \ job[r].ok /\ letter'[i].reminded # "today"
                            /\ letter'[i].reminded = "today" => letter[i].reminded = "today"
      /\ UNCHANGED <<latest, reached, blurred>>
  BY JobEnded
<1>2. \A q \in Senders \ {r} : job'[q] = job[q]
  BY <1>1 DEF NextJobs
<1>3. HeldBy(job'[r]) = {} /\ job'[r].step # "claim"
  BY <1>1, NoJobIs DEF HeldBy
<1>4. \A i \in Letters : letter'[i].reminded # letter[i].reminded => i \in HeldBy(job[r]) /\ i \notin job[r].ok
  BY <1>1 DEF HeldBy
<1>5. \A q \in Senders : \A i \in HeldBy(job'[q]) : i \in HeldBy(job[q]) /\ job'[q] = job[q] /\ q # r
  BY <1>2, <1>3
<1>6. HeldWell'
  <2>1. \A q \in Senders : HeldBy(job'[q]) \subseteq HeldBy(job[q])
    BY <1>5
  <2>2. ASSUME NEW q \in Senders, NEW i \in HeldBy(job'[q]), letter[i].reminded = "today"
        PROVE  letter'[i].reminded = "today"
    <3>1. i \in HeldBy(job[q]) /\ q # r /\ i \in Letters
      BY <1>5, HeldLetters
    <3>2. i \notin HeldBy(job[r])
      BY <3>1 DEF ChaseInv, HeldWell
    <3> QED
      BY <1>4, <2>2, <3>1, <3>2
  <2> QED
    BY <2>1, <2>2, HeldWellStays DEF ChaseInv
<1>7. ASSUME NEW g \in Guests \ blurred' PROVE Known(g)'
  <2>1. Known(g) /\ reached'[g] = reached[g]
    BY <1>1 DEF ChaseInv
  <2>2. Target(g)' = Target(g)
    BY <1>1, TargetSame
  <2>3. \A q \in Senders : job'[q].step = "claim" => job'[q] = job[q]
    BY <1>2, <1>3
  <2>4. \A i \in Letters : /\ letter'[i].reminded = "today" => letter[i].reminded = "today" /\ letter'[i].live = letter[i].live
                           /\ letter[i].reminded = "today" /\ (\A q \in Senders : i \in HeldBy(job[q]) => i \in job[q].ok) =>
                                  letter'[i].reminded = "today"
    BY <1>1, <1>4
  <2> QED
    BY <1>5, <2>1, <2>2, <2>3, <2>4, AccountStays
<1> QED
  BY <1>6, <1>7 DEF ChaseInv

LEMMA ChaseNext ==
    ASSUME RemindersTypes, ChaseInv, [RemindersNext]_reminderVars
    PROVE  ChaseInv'
<1>1. CASE UNCHANGED reminderVars
  <2>1. HeldWell' /\ \A g \in Guests : Known(g)' <=> Known(g)
    BY <1>1 DEF reminderVars, ChaseInv, HeldWell, Known, OneAtMost, Aimed, Spent, Reminded, Target, Of, Live
  <2> QED
    BY <1>1, <2>1 DEF reminderVars, ChaseInv
<1>2. CASE DayEnds
  BY <1>2, ChaseDay
<1>3. ASSUME NEW i \in Letters, Reply(i) \/ ArchiveOrRestore(i) PROVE ChaseInv'
  BY <1>3, ChaseTouched
<1>4. ASSUME NEW r \in Senders, JobSteps(r) PROVE ChaseInv'
  <2>0. ASSUME NextJobs(r), job'[r].step # "claim", HeldBy(job'[r]) \subseteq HeldBy(job[r]),
               \A i \in HeldBy(job'[r]) : i \in job[r].ok => i \in job'[r].ok,
               UNCHANGED <<letter, latest, reached>>, blurred \subseteq blurred'
        PROVE  ChaseInv'
    <3>1. SameReminded
      BY <2>0 DEF SameReminded
    <3> QED
      BY <2>0, <3>1, ChaseStays
  <2>1. CASE ClaimEmails(r)
    <3>1. /\ NextJobs(r) /\ job[r].step = "emails" /\ job'[r].op = job[r].op /\ job'[r].pick = job[r].pick
          /\ job[r].ok = {} /\ job'[r].step \in {"batch", "end"} /\ UNCHANGED <<letter, latest, reached, blurred>>
      BY <2>1, EmailsClaimed
    <3> QED
      BY <2>0, <3>1 DEF HeldBy
  <2>2. CASE StopJob(r)
    <3>1. NextJobs(r) /\ job'[r] = NoJob /\ UNCHANGED <<letter, latest, reached, blurred>>
      BY <2>2, JobStopped
    <3> QED
      BY <2>0, <3>1, NoJobIs DEF HeldBy
  <2>3. ASSUME NEW S \in SUBSET Letters, SendRead(r, S) PROVE ChaseInv'
    <3>1. /\ NextJobs(r) /\ job'[r].op = "INVITE" /\ job'[r].step = "emails" /\ blurred \subseteq blurred'
          /\ UNCHANGED <<letter, latest, reached>>
      BY <2>3, SendReads
    <3> QED
      BY <2>0, <3>1 DEF HeldBy
  <2> QED
    BY <1>4, <2>1, <2>2, <2>3, ChaseMarks, ChaseClaims, ChaseEnds, ChaseEmails, ChaseTexts, ChaseReads DEF JobSteps
<1> QED
  BY <1>1, <1>2, <1>3, <1>4, RemindersCases

LEMMA BlurredGrows == [RemindersNext]_reminderVars => blurred \subseteq blurred'
<1>1. ASSUME NEW r \in Senders, JobSteps(r) PROVE blurred \subseteq blurred'
  BY <1>1 DEF JobSteps, ClaimEmails, MarkDelivered, ClaimReminders, EndJob, StopJob, SendRead, SendEmails,
              SendText, RemindRead
<1>2. ASSUME NEW i \in Letters, Reply(i) \/ ArchiveOrRestore(i) PROVE blurred \subseteq blurred'
  BY <1>2 DEF Reply, ArchiveOrRestore
<1>3. DayEnds \/ (UNCHANGED reminderVars) => blurred \subseteq blurred'
  BY DEF DayEnds, reminderVars
<1> QED
  BY <1>1, <1>2, <1>3, RemindersCases

\* Whoever was reminded again was so because of what two requests read.
AgainInv == again \subseteq Guests \cap blurred

LEMMA AgainNext ==
    ASSUME RemindersTypes, ChaseInv, AgainInv, [RemindersNext]_reminderVars
    PROVE  AgainInv'
<1>1. again' \subseteq Guests
  BY AgainTypes DEF AgainInv
<1>2. ASSUME NEW r \in Senders, NEW S \in SUBSET Letters, Reaches(r, S), NEW g \in again', g \notin blurred PROVE FALSE
  <2>1. g \notin again /\ g \in Guests
    BY <1>1, <1>2 DEF AgainInv
  <2>2. PICK k \in S : Holder[k] = g /\ reached[g] > 0 /\ job[r].op # "INVITE"
    BY <1>2, <2>1 DEF Reaches, Repeats
  <2>3. k \in HeldBy(job[r]) /\ k \notin job[r].ok
    <3>1. job[r].op = "REMINDER" /\ job[r].step # "claim"
      BY <1>2, <2>2 DEF Reaches, RemindersTypes, JobFits, JobRows
    <3> QED
      BY <1>2, <2>2, <3>1 DEF Reaches, HeldBy
  <2>4. Known(g) /\ HeldWell
    BY <1>2, <2>1 DEF ChaseInv
  <2>5. reached[g] = 0
    BY <2>1, <2>2, <2>3, <2>4, UntoldYet
  <2> QED
    BY <2>2, <2>5
<1>3. CASE UNCHANGED again
  BY <1>1, <1>3, BlurredGrows DEF AgainInv
<1>4. ASSUME NEW r \in Senders, NEW S \in SUBSET Letters, Reaches(r, S) PROVE AgainInv'
  BY <1>1, <1>2, <1>4, BlurredGrows DEF AgainInv
<1>5. CASE RemindersNext
  BY <1>3, <1>4, <1>5, ReachesCases
<1> QED
  BY <1>3, <1>5 DEF reminderVars

LEMMA RemindersInitCounts == RemindersInit => MailInv /\ TextInv /\ ChaseInv
<1> SUFFICES ASSUME RemindersInit PROVE MailInv /\ TextInv /\ ChaseInv
  OBVIOUS
<1>1. /\ \A r \in Senders : job[r] = NoJob
      /\ \A i \in Letters : letter[i].reminded # "today"
      /\ \A g \in Guests : reached[g] = 0
      /\ posted = 0 /\ mailed = 0 /\ texts = 0
  BY DEF RemindersInit, NewLetter
<1>2. \A r \in Senders : /\ job[r].step = "idle" /\ job[r].pick = {} /\ HeldBy(job[r]) = {}
  BY <1>1, NoJobIs DEF HeldBy
<1>3. MailInv
  <2>1. PICK used \in [Senders -> SUBSET (1..EmailLimit)] : \A r \in Senders : used[r] = {}
    <3> DEFINE u == [r \in Senders |-> {}]
    <3>1. u \in [Senders -> SUBSET (1..EmailLimit)] /\ \A r \in Senders : u[r] = {}
      OBVIOUS
    <3> QED
      BY <3>1
  <2>2. {} \in SUBSET (1..EmailLimit) /\ mailed <= Cardinality({})
    BY <1>1, FS_EmptySet
  <2>3. MailCounts(used, {})
    BY <1>2, <2>1, <2>2 DEF MailCounts
  <2> QED
    BY <2>2, <2>3 DEF MailInv
<1>4. TextInv
  <2>1. \A r \in Senders : ~Texting(job[r])
    BY <1>2 DEF Texting
  <2> QED
    BY <1>1, <2>1, LetterBounds DEF TextInv
<1>5. ChaseInv
  <2>1. HeldWell
    BY <1>2 DEF HeldWell
  <2>2. \A g \in Guests : Known(g)
    BY <1>1, <1>2 DEF Known, OneAtMost, Aimed, Spent, Reminded
  <2> QED
    BY <2>1, <2>2 DEF ChaseInv
<1> QED
  BY <1>3, <1>4, <1>5

\* However requests race, fail half way or stop, no reminder reaches a guest in a
\* day after one whose sender was told that it went, no more emails go out than the
\* day's limit, and no more texts are logged than the plan gives: RemindersSpec's
\* part of LettersInOrder.
LEMMA RemindersWithinTheDay == RemindersSpec => []WithinTheDay
<1> DEFINE Inv == RemindersTypes /\ MailInv /\ TextInv /\ ChaseInv /\ AgainInv
<1>1. RemindersInit => Inv
  BY RemindersInitTypes, RemindersInitCounts DEF RemindersInit, AgainInv
<1>2. Inv /\ [RemindersNext]_reminderVars => Inv'
  <2> SUFFICES ASSUME Inv, [RemindersNext]_reminderVars PROVE Inv'
    OBVIOUS
  <2>1. RemindersTypes'
    BY RemindersNextTypes
  <2> QED
    BY <2>1, MailNext, TextNext, ChaseNext, AgainNext
<1>3. Inv => WithinTheDay
  <2> SUFFICES ASSUME Inv PROVE WithinTheDay
    OBVIOUS
  <2>1. mailed <= posted
    BY MailedWithin
  <2>2. texts <= TextQuota \/ Texts \in blurred
    BY DEF TextInv
  <2>3. ASSUME NEW g \in Guests PROVE (reached[g] <= 1 /\ g \notin again) \/ g \in blurred
    BY DEF ChaseInv, Known, Spent, AgainInv
  <2> QED
    BY <2>1, <2>2, <2>3 DEF WithinTheDay
<1> QED
  BY <1>1, <1>2, <1>3, PTL DEF RemindersSpec

-----------------------------------------------------------------------------
(* Announcements.                                                          *)

SpeechRows == [op : {"none", "INVITE", "ANNOUNCE", "CANCEL"},
               step : {"idle", "mark", "claim", "deliver", "audience", "notice"}, to : SUBSET Invitees]
GuestRows == [delivered : BOOLEAN, live : BOOLEAN, answer : Answers]

AnnouncementTypes ==
    /\ standing \in {"PUBLISHED", "CANCELLED"} /\ guest \in [Invitees -> GuestRows]
    /\ posts \in 0..PostsPerDay /\ speech \in [Speakers -> SpeechRows]
    /\ heard \in SUBSET Invitees /\ listed \in SUBSET Invitees /\ strays \in SUBSET Invitees

Owed == Selection("EVERYONE")
Told == (heard \cup listed) \cup strays
Calls(j) == j.op = "CANCEL"

\* One request at most cancels, an event that it has cancelled; whoever comes
\* under its notice once that is addressed is among those it is addressed to,
\* was told or listed, or came later.
NoticeInv ==
    /\ \A s \in Speakers : speech[s].step \in {"audience", "notice"} <=> Calls(speech[s])
    /\ \A s \in Speakers : Calls(speech[s]) => standing = "CANCELLED"
    /\ \A s, q \in Speakers : Calls(speech[s]) /\ Calls(speech[q]) => s = q
    /\ heard \cup listed # {} => standing = "CANCELLED"
    /\ standing = "CANCELLED" /\ (\A s \in Speakers : ~Calls(speech[s])) => Owed \subseteq Told
    /\ \A s \in Speakers : speech[s].step = "notice" => Owed \subseteq speech[s].to \cup Told

AnnouncementsInv == AnnouncementTypes /\ NoticeInv

LEMMA OwedGuests == Owed \in SUBSET Invitees
BY DEF Owed, Selection

LEMMA SpeechMade ==
    ASSUME NEW op \in {"none", "INVITE", "ANNOUNCE", "CANCEL"},
           NEW step \in {"idle", "mark", "claim", "deliver", "audience", "notice"}, NEW to \in SUBSET Invitees
    PROVE  LET j == Speech(op, step, to) IN j \in SpeechRows /\ j.op = op /\ j.step = step /\ j.to = to
BY DEF Speech, SpeechRows

LEMMA SilentIs == Silent \in SpeechRows /\ Silent.op = "none" /\ Silent.step = "idle" /\ ~Calls(Silent)
<1>1. {} \in SUBSET Invitees
  OBVIOUS
<1> QED
  BY <1>1, SpeechMade DEF Silent, Calls

LEMMA Spoken ==
    ASSUME AnnouncementTypes, NEW s \in Speakers, NEW j \in SpeechRows, Says(s, j)
    PROVE  speech' \in [Speakers -> SpeechRows] /\ speech'[s] = j /\ \A q \in Speakers \ {s} : speech'[q] = speech[q]
BY DEF AnnouncementTypes, Says

\* A request that does not cancel goes on.
LEMMA NoticeStays ==
    ASSUME AnnouncementsInv, NEW s \in Speakers, NEW j \in SpeechRows, Says(s, j),
           ~Calls(speech[s]), ~Calls(j), j.step \notin {"audience", "notice"},
           posts' \in 0..PostsPerDay, UNCHANGED <<standing, guest, heard, listed, strays>>
    PROVE  AnnouncementsInv'
<1>1. speech' \in [Speakers -> SpeechRows] /\ speech'[s] = j /\ \A q \in Speakers \ {s} : speech'[q] = speech[q]
  BY Spoken DEF AnnouncementsInv
<1>2. Owed' = Owed /\ Told' = Told
  BY DEF Owed, Told, Selection
<1>3. \A q \in Speakers : /\ Calls(speech'[q]) <=> Calls(speech[q])
                          /\ speech'[q].step \in {"audience", "notice"} => speech'[q] = speech[q]
                          /\ Calls(speech[q]) => speech'[q] = speech[q]
  BY <1>1
<1>4. AnnouncementTypes'
  BY <1>1 DEF AnnouncementsInv, AnnouncementTypes
<1>5. NoticeInv'
  <2>1. \A q \in Speakers : speech'[q].step \in {"audience", "notice"} <=> Calls(speech'[q])
    BY <1>3 DEF AnnouncementsInv, NoticeInv
  <2>2. \A q \in Speakers : speech'[q].step = "notice" => Owed' \subseteq speech'[q].to \cup Told'
    BY <1>2, <1>3 DEF AnnouncementsInv, NoticeInv
  <2>3. /\ \A q \in Speakers : Calls(speech'[q]) => standing' = "CANCELLED"
        /\ \A p, q \in Speakers : Calls(speech'[p]) /\ Calls(speech'[q]) => p = q
        /\ heard' \cup listed' # {} => standing' = "CANCELLED"
    BY <1>3 DEF AnnouncementsInv, NoticeInv
  <2>4. standing' = "CANCELLED" /\ (\A q \in Speakers : ~Calls(speech'[q])) => Owed' \subseteq Told'
    BY <1>2, <1>3 DEF AnnouncementsInv, NoticeInv
  <2> QED
    BY <2>1, <2>2, <2>3, <2>4 DEF NoticeInv, Calls
<1> QED
  BY <1>4, <1>5 DEF AnnouncementsInv

\* A guest changes, and is a stray if the notice is addressed by then.
LEMMA GuestChanges ==
    ASSUME AnnouncementsInv, NEW g \in Invitees, NEW row \in GuestRows, guest' = [guest EXCEPT ![g] = row],
           Strays(g), UNCHANGED <<standing, posts, heard, listed>>,
           speech' \in [Speakers -> SpeechRows],
           \A q \in Speakers : \/ speech'[q] = speech[q]
                               \/ ~Calls(speech[q]) /\ ~Calls(speech'[q]) /\ speech'[q].step \notin {"audience", "notice"}
    PROVE  AnnouncementsInv'
<1>1. /\ guest' \in [Invitees -> GuestRows] /\ \A h \in Invitees \ {g} : guest'[h] = guest[h]
      /\ strays' \in SUBSET Invitees /\ strays \subseteq strays'
  BY DEF AnnouncementsInv, AnnouncementTypes, Strays
<1>2. Owed' \subseteq Owed \cup {g} /\ Told \subseteq Told'
  BY <1>1 DEF Owed, Told, Selection
<1>3. \A q \in Speakers : /\ Calls(speech'[q]) <=> Calls(speech[q])
                          /\ speech'[q].step \in {"audience", "notice"} <=> speech[q].step \in {"audience", "notice"}
                          /\ Calls(speech[q]) => speech'[q] = speech[q]
  BY DEF AnnouncementsInv, NoticeInv
<1>4. AnnouncementTypes'
  BY <1>1 DEF AnnouncementsInv, AnnouncementTypes
<1>5. ASSUME standing = "CANCELLED", \A q \in Speakers : speech[q].step # "audience"
      PROVE  g \in Told'
  BY <1>5 DEF Strays, NoticeAddressed, Told
<1>6. NoticeInv'
  <2>1. /\ \A q \in Speakers : speech'[q].step \in {"audience", "notice"} <=> Calls(speech'[q])
        /\ \A q \in Speakers : Calls(speech'[q]) => standing' = "CANCELLED"
        /\ \A p, q \in Speakers : Calls(speech'[p]) /\ Calls(speech'[q]) => p = q
        /\ heard' \cup listed' # {} => standing' = "CANCELLED"
    BY <1>3 DEF AnnouncementsInv, NoticeInv
  <2>2. ASSUME standing' = "CANCELLED", \A q \in Speakers : ~Calls(speech'[q])
        PROVE  Owed' \subseteq Told'
    <3>1. standing = "CANCELLED" /\ \A q \in Speakers : ~Calls(speech[q])
      BY <1>3, <2>2
    <3>2. \A q \in Speakers : speech[q].step # "audience"
      BY <3>1 DEF AnnouncementsInv, NoticeInv
    <3>3. Owed \subseteq Told
      BY <3>1 DEF AnnouncementsInv, NoticeInv
    <3> QED
      BY <1>2, <1>5, <3>1, <3>2, <3>3
  <2>3. ASSUME NEW q \in Speakers, speech'[q].step = "notice"
        PROVE  Owed' \subseteq speech'[q].to \cup Told'
    <3>1. Calls(speech[q]) /\ speech'[q] = speech[q] /\ speech[q].step = "notice" /\ standing = "CANCELLED"
      BY <1>3, <2>1, <2>3 DEF AnnouncementsInv, NoticeInv
    <3>2. \A p \in Speakers : speech[p].step # "audience"
      BY <3>1 DEF AnnouncementsInv, NoticeInv
    <3>3. Owed \subseteq speech[q].to \cup Told
      BY <3>1 DEF AnnouncementsInv, NoticeInv
    <3> QED
      BY <1>2, <1>5, <3>1, <3>2, <3>3
  <2> QED
    BY <2>1, <2>2, <2>3 DEF NoticeInv, Calls
<1> QED
  BY <1>4, <1>6 DEF AnnouncementsInv

\* The request that cancels is done with: whoever is owed the notice has it.
LEMMA NoticeOver ==
    ASSUME AnnouncementsInv, NEW s \in Speakers, Calls(speech[s]), Says(s, Silent),
           heard' \in SUBSET Invitees, listed' \in SUBSET Invitees, strays' \in SUBSET Invitees,
           Owed \subseteq Told', UNCHANGED <<standing, guest, posts>>
    PROVE  AnnouncementsInv'
<1>1. speech' \in [Speakers -> SpeechRows] /\ speech'[s] = Silent /\ \A q \in Speakers \ {s} : speech'[q] = speech[q]
  BY Spoken, SilentIs DEF AnnouncementsInv
<1>2. standing' = "CANCELLED"
  BY DEF AnnouncementsInv, NoticeInv
<1>3. \A q \in Speakers : ~Calls(speech'[q]) /\ speech'[q].step \notin {"audience", "notice"}
  BY <1>1, SilentIs DEF AnnouncementsInv, NoticeInv
<1>4. Owed' = Owed
  BY DEF Owed, Selection
<1>5. AnnouncementTypes'
  BY <1>1 DEF AnnouncementsInv, AnnouncementTypes
<1>6. NoticeInv'
  BY <1>2, <1>3, <1>4 DEF NoticeInv, Calls
<1> QED
  BY <1>5, <1>6 DEF AnnouncementsInv

LEMMA GuestSteps ==
    ASSUME AnnouncementsInv, NEW g \in Invitees,
           HideOrShow(g) \/ \E a \in {"ACCEPTED", "DECLINED"} : Answer(g, a)
    PROVE  AnnouncementsInv'
<1>t. guest[g] \in GuestRows /\ guest \in [Invitees -> GuestRows] /\ speech \in [Speakers -> SpeechRows]
  BY DEF AnnouncementsInv, AnnouncementTypes
<1>1. CASE HideOrShow(g)
  <2>1. guest' = [guest EXCEPT ![g].live = ~@] /\ Strays(g) /\ UNCHANGED <<standing, posts, speech, heard, listed>>
    BY <1>1 DEF HideOrShow
  <2>2. PICK row \in GuestRows : guest' = [guest EXCEPT ![g] = row]
    <3>1. [guest[g] EXCEPT !.live = ~@] \in GuestRows
      BY <1>t DEF GuestRows
    <3>2. guest' = [guest EXCEPT ![g] = [guest[g] EXCEPT !.live = ~@]]
      BY <1>t, <2>1
    <3> QED
      BY <3>1, <3>2
  <2> QED
    BY <1>t, <2>1, <2>2, GuestChanges
<1>2. ASSUME NEW a \in {"ACCEPTED", "DECLINED"}, Answer(g, a) PROVE AnnouncementsInv'
  <2>1. standing = "PUBLISHED" /\ guest' = [guest EXCEPT ![g].answer = a] /\ UNCHANGED <<standing, posts, speech, heard, listed, strays>>
    BY <1>2 DEF Answer
  <2>2. PICK row \in GuestRows : guest' = [guest EXCEPT ![g] = row]
    <3>1. [guest[g] EXCEPT !.answer = a] \in GuestRows
      BY <1>t DEF GuestRows, Answers
    <3>2. guest' = [guest EXCEPT ![g] = [guest[g] EXCEPT !.answer = a]]
      BY <1>t, <2>1
    <3> QED
      BY <3>1, <3>2
  <2>3. Strays(g)
    BY <2>1 DEF Strays, NoticeAddressed
  <2> QED
    BY <1>t, <2>1, <2>2, <2>3, GuestChanges
<1> QED
  BY <1>1, <1>2

LEMMA InvitingSteps ==
    ASSUME AnnouncementsInv, NEW s \in Speakers, NEW g \in Invitees, Invite(s, g) \/ Invited(s, g)
    PROVE  AnnouncementsInv'
<1>t. /\ guest[g] \in GuestRows /\ guest \in [Invitees -> GuestRows] /\ speech \in [Speakers -> SpeechRows]
      /\ posts \in 0..PostsPerDay /\ {g} \in SUBSET Invitees
  BY DEF AnnouncementsInv, AnnouncementTypes
<1>j. LET j == Speech("INVITE", "mark", {g}) IN j \in SpeechRows /\ ~Calls(j) /\ j.step = "mark"
  BY <1>t, SpeechMade DEF Calls
<1>1. CASE Invite(s, g)
  <2>1. /\ speech[s] = Silent /\ Says(s, Speech("INVITE", "mark", {g}))
        /\ UNCHANGED <<standing, guest, posts, heard, listed, strays>>
    BY <1>1 DEF Invite
  <2> QED
    BY <1>t, <1>j, <2>1, SilentIs, NoticeStays
<1>2. CASE Invited(s, g)
  <2>1. /\ speech[s] = Speech("INVITE", "mark", {g}) /\ guest' = [guest EXCEPT ![g].delivered = TRUE] /\ Strays(g)
        /\ Says(s, Silent) /\ UNCHANGED <<standing, posts, heard, listed>>
    BY <1>2 DEF Invited
  <2>2. PICK row \in GuestRows : guest' = [guest EXCEPT ![g] = row]
    <3>1. [guest[g] EXCEPT !.delivered = TRUE] \in GuestRows
      BY <1>t DEF GuestRows
    <3>2. guest' = [guest EXCEPT ![g] = [guest[g] EXCEPT !.delivered = TRUE]]
      BY <1>t, <2>1
    <3> QED
      BY <3>1, <3>2
  <2>3. speech' \in [Speakers -> SpeechRows] /\ speech'[s] = Silent /\ \A q \in Speakers \ {s} : speech'[q] = speech[q]
    BY <2>1, SilentIs, Spoken DEF AnnouncementsInv
  <2>4. \A q \in Speakers : \/ speech'[q] = speech[q]
                            \/ ~Calls(speech[q]) /\ ~Calls(speech'[q]) /\ speech'[q].step \notin {"audience", "notice"}
    BY <1>j, <2>1, <2>3, SilentIs
  <2> QED
    BY <2>1, <2>2, <2>3, <2>4, GuestChanges
<1> QED
  BY <1>1, <1>2

LEMMA AnnounceSteps ==
    ASSUME AnnouncementsInv, NEW s \in Speakers,
           AnnounceClaim(s) \/ AnnounceDeliver(s) \/ \E a \in Audiences : AnnounceRead(s, a)
    PROVE  AnnouncementsInv'
<1>t. /\ speech[s] \in SpeechRows /\ posts \in 0..PostsPerDay /\ PostsPerDay \in Nat
      /\ speech[s].step \in {"claim", "deliver"} => ~Calls(speech[s])
  BY AnnouncementsAssumption DEF AnnouncementsInv, AnnouncementTypes, NoticeInv
<1>1. CASE AnnounceClaim(s)
  <2>1. speech[s].step = "claim" /\ UNCHANGED <<standing, guest, heard, listed, strays>>
    BY <1>1 DEF AnnounceClaim
  <2>2. CASE standing # "CANCELLED" /\ posts < PostsPerDay
    <3>1. posts' = posts + 1 /\ Says(s, [speech[s] EXCEPT !.step = "deliver"])
      BY <1>1, <2>2 DEF AnnounceClaim
    <3>2. PICK j \in SpeechRows : Says(s, j) /\ ~Calls(j) /\ j.step = "deliver"
      <4> DEFINE n == [speech[s] EXCEPT !.step = "deliver"]
      <4>1. n \in SpeechRows /\ n.op = speech[s].op /\ n.step = "deliver"
        BY <1>t DEF SpeechRows
      <4>2. Says(s, n)
        BY <3>1
      <4> HIDE DEF n
      <4> QED
        BY <1>t, <2>1, <4>1, <4>2 DEF Calls
    <3>3. posts' \in 0..PostsPerDay
      BY <1>t, <2>2, <3>1
    <3> QED
      BY <1>t, <2>1, <3>2, <3>3, NoticeStays
  <2>3. CASE ~(standing # "CANCELLED" /\ posts < PostsPerDay)
    <3>1. UNCHANGED posts /\ Says(s, Silent)
      BY <1>1, <2>3 DEF AnnounceClaim, Refused
    <3> QED
      BY <1>t, <2>1, <3>1, SilentIs, NoticeStays
  <2> QED
    BY <2>2, <2>3
<1>2. CASE AnnounceDeliver(s)
  <2>1. /\ speech[s].step = "deliver" /\ Says(s, Silent) /\ UNCHANGED <<standing, guest, posts, heard, listed, strays>>
    BY <1>2 DEF AnnounceDeliver
  <2> QED
    BY <1>t, <2>1, SilentIs, NoticeStays
<1>3. ASSUME NEW a \in Audiences, AnnounceRead(s, a) PROVE AnnouncementsInv'
  <2> DEFINE to == Selection(a) \cap Reachable
  <2>1. to \in SUBSET Invitees
    BY DEF Selection
  <2>2. speech[s] = Silent /\ Says(s, Speech("ANNOUNCE", "claim", to)) /\ UNCHANGED <<standing, guest, posts, heard, listed, strays>>
    BY <1>3 DEF AnnounceRead
  <2> HIDE DEF to
  <2>3. LET j == Speech("ANNOUNCE", "claim", to) IN j \in SpeechRows /\ ~Calls(j) /\ j.step = "claim"
    BY <2>1, SpeechMade DEF Calls
  <2> QED
    BY <1>t, <2>2, <2>3, SilentIs, NoticeStays
<1> QED
  BY <1>1, <1>2, <1>3

LEMMA CancelSteps ==
    ASSUME AnnouncementsInv, NEW s \in Speakers,
           CancelEvent(s) \/ NoticeAudience(s)
           \/ \E went \in SUBSET Invitees : \E ok \in SUBSET went : Notify(s, went, ok)
    PROVE  AnnouncementsInv'
<1>t. AnnouncementTypes /\ NoticeInv /\ speech[s] \in SpeechRows
  BY DEF AnnouncementsInv, AnnouncementTypes
<1>1. CASE CancelEvent(s)
  <2> DEFINE j == Speech("CANCEL", "audience", {})
  <2>1. /\ speech[s] = Silent /\ standing = "PUBLISHED" /\ standing' = "CANCELLED" /\ Says(s, j)
        /\ UNCHANGED <<guest, posts, heard, listed, strays>>
    BY <1>1 DEF CancelEvent
  <2>2. j \in SpeechRows /\ Calls(j) /\ j.step = "audience"
    <3>1. {} \in SUBSET Invitees
      OBVIOUS
    <3> QED
      BY <3>1, SpeechMade DEF Calls
  <2> HIDE DEF j
  <2>3. speech' \in [Speakers -> SpeechRows] /\ speech'[s] = j /\ \A q \in Speakers \ {s} : speech'[q] = speech[q]
    BY <1>t, <2>1, <2>2, Spoken
  <2>4. \A q \in Speakers \ {s} : ~Calls(speech'[q]) /\ speech'[q].step \notin {"audience", "notice"}
    BY <1>t, <2>1, <2>3 DEF NoticeInv
  <2>5. AnnouncementTypes'
    BY <1>t, <2>1, <2>3 DEF AnnouncementTypes
  <2>6. NoticeInv'
    BY <2>1, <2>2, <2>3, <2>4 DEF NoticeInv, Calls
  <2> QED
    BY <2>5, <2>6 DEF AnnouncementsInv
<1>2. CASE NoticeAudience(s)
  <2>1. speech[s].step = "audience" /\ UNCHANGED <<standing, guest, posts, heard, strays>>
    BY <1>2 DEF NoticeAudience
  <2>2. Calls(speech[s]) /\ standing = "CANCELLED"
    BY <1>t, <2>1 DEF NoticeInv
  <2>3. CASE Says(s, Speech("CANCEL", "notice", Owed)) /\ UNCHANGED listed
    <3> DEFINE j == Speech("CANCEL", "notice", Owed)
    <3>1. j \in SpeechRows /\ Calls(j) /\ j.step = "notice" /\ j.to = Owed
      BY OwedGuests, SpeechMade DEF Calls
    <3>2. Says(s, j)
      BY <2>3
    <3> HIDE DEF j
    <3>3. speech' \in [Speakers -> SpeechRows] /\ speech'[s] = j /\ \A q \in Speakers \ {s} : speech'[q] = speech[q]
      BY <1>t, <3>1, <3>2, Spoken
    <3>4. \A q \in Speakers \ {s} : ~Calls(speech'[q]) /\ speech'[q].step \notin {"audience", "notice"}
      BY <1>t, <2>2, <3>3 DEF NoticeInv
    <3>5. Owed' = Owed
      BY <2>1 DEF Owed, Selection
    <3>6. AnnouncementTypes'
      BY <1>t, <2>1, <2>3, <3>3 DEF AnnouncementTypes
    <3>7. NoticeInv'
      BY <2>1, <2>2, <3>1, <3>3, <3>4, <3>5 DEF NoticeInv, Calls
    <3> QED
      BY <3>6, <3>7 DEF AnnouncementsInv
  <2>4. CASE Refused(s) /\ listed' = Invitees
    <3>1. Says(s, Silent) /\ Owed \subseteq Told' /\ listed' \in SUBSET Invitees
      BY <2>4, OwedGuests DEF Refused, Told
    <3>2. heard' \in SUBSET Invitees /\ strays' \in SUBSET Invitees
      BY <1>t, <2>1 DEF AnnouncementTypes
    <3> QED
      BY <2>1, <2>2, <3>1, <3>2, NoticeOver
  <2> QED
    BY <1>2, <2>3, <2>4 DEF NoticeAudience, Owed
<1>3. ASSUME NEW went \in SUBSET Invitees, NEW ok \in SUBSET went, Notify(s, went, ok) PROVE AnnouncementsInv'
  <2>1. /\ speech[s].step = "notice" /\ ok \subseteq speech[s].to \cap Reachable
        /\ heard' = heard \cup went /\ listed' = listed \cup (speech[s].to \ ok)
        /\ Says(s, Silent) /\ UNCHANGED <<standing, guest, posts, strays>>
    BY <1>3 DEF Notify
  <2>2. Calls(speech[s]) /\ Owed \subseteq speech[s].to \cup Told /\ speech[s].to \in SUBSET Invitees
    BY <1>t, <2>1 DEF NoticeInv, SpeechRows
  <2>3. Owed \subseteq Told'
    BY <2>1, <2>2 DEF Told
  <2>4. heard' \in SUBSET Invitees /\ listed' \in SUBSET Invitees /\ strays' \in SUBSET Invitees
    BY <1>t, <2>1, <2>2 DEF AnnouncementTypes
  <2> QED
    BY <2>1, <2>2, <2>3, <2>4, NoticeOver
<1> QED
  BY <1>1, <1>2, <1>3

LEMMA HushSteps ==
    ASSUME AnnouncementsInv, NEW s \in Speakers, Hush(s)
    PROVE  AnnouncementsInv'
<1>1. /\ Says(s, Silent) /\ strays' = (IF Calls(speech[s]) THEN Invitees ELSE strays)
      /\ UNCHANGED <<standing, guest, posts, heard, listed>>
  BY DEF Hush, Calls
<1>2. /\ posts \in 0..PostsPerDay /\ heard \in SUBSET Invitees /\ listed \in SUBSET Invitees
      /\ speech[s].step \in {"audience", "notice"} => Calls(speech[s])
  BY DEF AnnouncementsInv, AnnouncementTypes, NoticeInv
<1>3. CASE Calls(speech[s])
  <2>1. Owed \subseteq Told' /\ strays' \in SUBSET Invitees
    BY <1>1, <1>3, OwedGuests DEF Told
  <2> QED
    BY <1>1, <1>2, <1>3, <2>1, NoticeOver
<1>4. CASE ~Calls(speech[s])
  BY <1>1, <1>2, <1>4, SilentIs, NoticeStays
<1> QED
  BY <1>3, <1>4

LEMMA AnnouncementsStart == AnnouncementsInit => AnnouncementsInv
<1> SUFFICES ASSUME AnnouncementsInit PROVE AnnouncementsInv
  OBVIOUS
<1>1. /\ standing = "PUBLISHED" /\ posts = 0 /\ heard = {} /\ listed = {} /\ strays = {}
      /\ guest \in [Invitees -> GuestRows] /\ speech = [s \in Speakers |-> Silent]
  BY DEF AnnouncementsInit, GuestRows, Answers
<1>2. AnnouncementTypes
  BY <1>1, SilentIs, AnnouncementsAssumption DEF AnnouncementTypes
<1>3. NoticeInv
  BY <1>1, SilentIs DEF NoticeInv
<1> QED
  BY <1>2, <1>3 DEF AnnouncementsInv

LEMMA AnnouncementsStep == AnnouncementsInv /\ [AnnouncementsNext]_announcementVars => AnnouncementsInv'
<1> SUFFICES ASSUME AnnouncementsInv, [AnnouncementsNext]_announcementVars PROVE AnnouncementsInv'
  OBVIOUS
<1>1. ASSUME UNCHANGED <<standing, guest, speech, heard, listed, strays>>, posts' \in 0..PostsPerDay
      PROVE  AnnouncementsInv'
  <2>1. Owed' = Owed /\ Told' = Told
    BY <1>1 DEF Owed, Told, Selection
  <2>2. NoticeInv'
    BY <1>1, <2>1 DEF AnnouncementsInv, NoticeInv, Calls
  <2> QED
    BY <1>1, <2>2 DEF AnnouncementsInv, AnnouncementTypes
<1>2. CASE UNCHANGED announcementVars
  BY <1>1, <1>2 DEF announcementVars, AnnouncementsInv, AnnouncementTypes
<1>3. CASE DayOver
  BY <1>1, <1>3, AnnouncementsAssumption DEF DayOver
<1>4. CASE AnnouncementsNext /\ ~DayOver
  BY <1>4, GuestSteps, InvitingSteps, AnnounceSteps, CancelSteps, HushSteps DEF AnnouncementsNext
<1> QED
  BY <1>2, <1>3, <1>4

\* A message that may still go to guests of a cancelled event was on its way when
\* the event was cancelled.
Sends(j) == j.step \in {"mark", "deliver"}

LastWordInv ==
    /\ underway \subseteq Invitees /\ afterNotice \subseteq underway
    /\ standing # "CANCELLED" => afterNotice = {}
    /\ standing = "CANCELLED" => \A s \in Speakers : Sends(speech[s]) => speech[s].to \subseteq underway

LEMMA LastWordStays ==
    ASSUME AnnouncementsInv, LastWordInv, NEW s \in Speakers, NEW j \in SpeechRows, Says(s, j),
           standing = "CANCELLED" => (Sends(j) => j.to \subseteq underway),
           afterNotice' \subseteq afterNotice \cup underway, standing # "CANCELLED" => afterNotice' = afterNotice,
           UNCHANGED <<standing, underway>>
    PROVE  LastWordInv'
<1>1. speech'[s] = j /\ \A q \in Speakers \ {s} : speech'[q] = speech[q]
  BY Spoken DEF AnnouncementsInv
<1>2. underway' \subseteq Invitees /\ afterNotice' \subseteq underway' /\ (standing' # "CANCELLED" => afterNotice' = {})
  BY DEF LastWordInv
<1>3. ASSUME standing' = "CANCELLED", NEW q \in Speakers, Sends(speech'[q]) PROVE speech'[q].to \subseteq underway'
  BY <1>1, <1>3 DEF LastWordInv
<1> QED
  BY <1>2, <1>3 DEF LastWordInv, Sends

LEMMA LastWordNext ==
    ASSUME AnnouncementsInv, LastWordInv, [AnnouncementsNext]_announcementVars
    PROVE  LastWordInv'
<1>h. heard # {} => standing = "CANCELLED"
  BY DEF AnnouncementsInv, NoticeInv
<1>s. ASSUME NEW s \in Speakers, NEW S, Sends(speech[s]), speech[s].to = S PROVE S \cap heard \subseteq underway
  BY <1>h, <1>s DEF LastWordInv
<1>i. ~Sends(Silent)
  BY SilentIs DEF Sends
<1>1. ASSUME UNCHANGED <<standing, speech, underway, afterNotice>> PROVE LastWordInv'
  BY <1>1 DEF LastWordInv, Sends
<1>2. CASE (UNCHANGED announcementVars) \/ DayOver
  BY <1>1, <1>2 DEF announcementVars, DayOver
<1>3. ASSUME NEW g \in Invitees, HideOrShow(g) \/ \E a \in {"ACCEPTED", "DECLINED"} : Answer(g, a) PROVE LastWordInv'
  BY <1>1, <1>3 DEF HideOrShow, Answer
<1>4. ASSUME NEW s \in Speakers, NEW g \in Invitees, Invite(s, g) PROVE LastWordInv'
  <2>1. /\ standing = "PUBLISHED" /\ Says(s, Speech("INVITE", "mark", {g})) /\ UNCHANGED <<standing, underway, afterNotice>>
    BY <1>4 DEF Invite
  <2>2. Speech("INVITE", "mark", {g}) \in SpeechRows
    BY SpeechMade
  <2> QED
    BY <2>1, <2>2, LastWordStays
<1>5. ASSUME NEW s \in Speakers, NEW g \in Invitees, Invited(s, g) PROVE LastWordInv'
  <2>1. /\ speech[s] = Speech("INVITE", "mark", {g}) /\ Says(s, Silent) /\ afterNotice' = afterNotice \cup ({g} \cap heard)
        /\ UNCHANGED <<standing, underway>>
    BY <1>5 DEF Invited
  <2>2. Sends(speech[s]) /\ speech[s].to = {g}
    BY <2>1, SpeechMade DEF Sends
  <2>3. afterNotice' \subseteq afterNotice \cup underway /\ (standing # "CANCELLED" => afterNotice' = afterNotice)
    BY <1>h, <1>s, <2>1, <2>2
  <2> QED
    BY <1>i, <2>1, <2>3, SilentIs, LastWordStays
<1>6. ASSUME NEW s \in Speakers, NEW a \in Audiences, AnnounceRead(s, a) PROVE LastWordInv'
  <2> DEFINE to == Selection(a) \cap Reachable
  <2>1. to \in SUBSET Invitees
    BY DEF Selection
  <2>2. Says(s, Speech("ANNOUNCE", "claim", to)) /\ UNCHANGED <<standing, underway, afterNotice>>
    BY <1>6 DEF AnnounceRead
  <2> HIDE DEF to
  <2>3. LET j == Speech("ANNOUNCE", "claim", to) IN j \in SpeechRows /\ ~Sends(j)
    BY <2>1, SpeechMade DEF Sends
  <2> QED
    BY <2>2, <2>3, LastWordStays
<1>7. ASSUME NEW s \in Speakers, AnnounceClaim(s) PROVE LastWordInv'
  <2>1. UNCHANGED <<standing, underway, afterNotice>>
    BY <1>7 DEF AnnounceClaim
  <2>2. CASE standing # "CANCELLED" /\ posts < PostsPerDay
    <3>1. Says(s, [speech[s] EXCEPT !.step = "deliver"])
      BY <1>7, <2>2 DEF AnnounceClaim
    <3>2. [speech[s] EXCEPT !.step = "deliver"] \in SpeechRows
      BY DEF AnnouncementsInv, AnnouncementTypes, SpeechRows
    <3> QED
      BY <2>1, <2>2, <3>1, <3>2, LastWordStays
  <2>3. CASE ~(standing # "CANCELLED" /\ posts < PostsPerDay)
    <3>1. Says(s, Silent)
      BY <1>7, <2>3 DEF AnnounceClaim, Refused
    <3> QED
      BY <1>i, <2>1, <3>1, SilentIs, LastWordStays
  <2> QED
    BY <2>2, <2>3
<1>8. ASSUME NEW s \in Speakers, AnnounceDeliver(s) PROVE LastWordInv'
  <2>1. /\ speech[s].step = "deliver" /\ Says(s, Silent) /\ afterNotice' = afterNotice \cup (speech[s].to \cap heard)
        /\ UNCHANGED <<standing, underway>>
    BY <1>8 DEF AnnounceDeliver
  <2>2. speech[s].to \cap heard \subseteq underway
    BY <1>s, <2>1 DEF Sends
  <2>3. afterNotice' \subseteq afterNotice \cup underway /\ (standing # "CANCELLED" => afterNotice' = afterNotice)
    BY <1>h, <2>1, <2>2
  <2> QED
    BY <1>i, <2>1, <2>3, SilentIs, LastWordStays
<1>9. ASSUME NEW s \in Speakers, CancelEvent(s) PROVE LastWordInv'
  <2> DEFINE j == Speech("CANCEL", "audience", {})
             U == UNION {speech[t].to : t \in {u \in Speakers : speech[u].step \in {"mark", "deliver"}}}
  <2>1. standing = "PUBLISHED" /\ Says(s, j) /\ underway' = U /\ UNCHANGED <<heard, afterNotice>>
    BY <1>9 DEF CancelEvent
  <2>2. j \in SpeechRows /\ j.step = "audience"
    <3>1. {} \in SUBSET Invitees
      OBVIOUS
    <3> QED
      BY <3>1, SpeechMade
  <2>3. speech'[s] = j /\ \A q \in Speakers \ {s} : speech'[q] = speech[q]
    BY <2>1, <2>2, Spoken DEF AnnouncementsInv
  <2>4. U \subseteq Invitees
    BY DEF AnnouncementsInv, AnnouncementTypes, SpeechRows
  <2>5. afterNotice = {}
    BY <2>1 DEF LastWordInv
  <2>6. ASSUME NEW q \in Speakers, Sends(speech'[q]) PROVE speech'[q].to \subseteq U
    BY <2>2, <2>3, <2>6 DEF Sends
  <2> QED
    BY <2>1, <2>4, <2>5, <2>6 DEF LastWordInv, Sends
<1>10. ASSUME NEW s \in Speakers, NoticeAudience(s) PROVE LastWordInv'
  <2>1. UNCHANGED <<standing, underway, afterNotice>>
    BY <1>10 DEF NoticeAudience
  <2>2. Speech("CANCEL", "notice", Owed) \in SpeechRows /\ ~Sends(Speech("CANCEL", "notice", Owed))
    BY OwedGuests, SpeechMade DEF Sends
  <2>3. Says(s, Speech("CANCEL", "notice", Owed)) \/ Says(s, Silent)
    BY <1>10 DEF NoticeAudience, Refused, Owed
  <2> QED
    BY <1>i, <2>1, <2>2, <2>3, SilentIs, LastWordStays
<1>11. ASSUME NEW s \in Speakers, Hush(s) \/ \E went \in SUBSET Invitees : \E ok \in SUBSET went : Notify(s, went, ok)
       PROVE  LastWordInv'
  <2>1. Says(s, Silent) /\ UNCHANGED <<standing, underway, afterNotice>>
    BY <1>11 DEF Hush, Notify
  <2> QED
    BY <1>i, <2>1, SilentIs, LastWordStays
<1>12. CASE AnnouncementsNext /\ ~DayOver
  BY <1>3, <1>4, <1>5, <1>6, <1>7, <1>8, <1>9, <1>10, <1>11, <1>12 DEF AnnouncementsNext
<1> QED
  BY <1>2, <1>12

\* The notice that an event is off reaches, or lists, everyone it is owed to, is of
\* a cancelled event, and comes last but for what was on its way: AnnouncementsSpec's
\* part of LettersInOrder.
LEMMA CancelledIsLast == AnnouncementsSpec => [](AnnouncementsTypeOK /\ CancelledLast)
<1>1. AnnouncementsInv /\ LastWordInv => AnnouncementsTypeOK /\ CancelledLast
  <2> SUFFICES ASSUME AnnouncementsInv, LastWordInv PROVE AnnouncementsTypeOK /\ CancelledLast
    OBVIOUS
  <2>1. AnnouncementsTypeOK
    BY DEF AnnouncementsInv, AnnouncementTypes, AnnouncementsTypeOK, SpeechRows, GuestRows, LastWordInv
  <2>2. CancelledLast
    BY DEF AnnouncementsInv, NoticeInv, CancelledLast, Calls, Owed, Told, LastWordInv
  <2> QED
    BY <2>1, <2>2
<1>2. AnnouncementsInit => AnnouncementsInv /\ LastWordInv
  BY AnnouncementsStart DEF AnnouncementsInit, LastWordInv
<1>3. AnnouncementsInv /\ LastWordInv /\ [AnnouncementsNext]_announcementVars => (AnnouncementsInv /\ LastWordInv)'
  BY AnnouncementsStep, LastWordNext
<1> QED
  BY <1>1, <1>2, <1>3, PTL DEF AnnouncementsSpec

\* Whatever is sent to guests at once, however requests race, fail half way or
\* stop, and whatever answers are lost: in a day no reminder reaches a guest after
\* one whose sender was told that it went, no more emails go out than the limit and
\* no more texts than the plan gives; whoever is owed the notice that the event is
\* off has it or is listed, where the code can reach; and nobody who has it is sent
\* anything more but what was on its way when the event was cancelled.
THEOREM LettersAreInOrder == RemindersSpec /\ AnnouncementsSpec => []LettersInOrder
<1>1. WithinTheDay /\ CancelledLast => LettersInOrder
  BY DEF LettersInOrder
<1> QED
  BY <1>1, RemindersWithinTheDay, CancelledIsLast, PTL
=============================================================================
