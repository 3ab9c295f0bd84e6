--------------------------- MODULE MediaRetention ---------------------------
(***************************************************************************)
(* What becomes of an archived event's album (media-retention.service.ts,  *)
(* media-retention.repository.ts): its organisers are reminded, and its    *)
(* files deleted once it has been archived long enough, in attempts that   *)
(* each server's sweep makes and that a super admin can start at once.     *)
(*                                                                         *)
(* Of an item only what matters here is kept: "live" stands for one the    *)
(* organisers can see and download, "kept" for any other that has a row.   *)
(* An archiving is known by the time of it, here by its number.  Days are  *)
(* counted from it, and from its reminder, up to the number that matters.  *)
(* Creation times only tell which items existed when a purge began, and    *)
(* items are numbered as they are created.  A request or a sweep ends, or  *)
(* crashes, within the day it began.                                       *)
(***************************************************************************)
EXTENDS Naturals, FiniteSets

CONSTANTS
    MaxPhotos,      \* items the album may come to hold
    Sweepers,       \* servers that sweep, and a super admin's request
    MaxArchivings,  \* times the event may come to be archived
    RetentionDays,  \* days the album is kept
    ReminderDays,   \* days between the reminder and the purge, at least
    MaxBreaks,      \* crashes, failures and late leases there may be
    Never           \* no reminder yet

ASSUME RetentionAssumption ==
    /\ IsFiniteSet(Sweepers)
    /\ MaxPhotos \in Nat /\ MaxArchivings \in Nat /\ MaxBreaks \in Nat
    /\ RetentionDays \in Nat \ {0} /\ ReminderDays \in 0..RetentionDays
    /\ Never \notin Nat

VARIABLES
    photo,      \* MemoryItem rows: "none", "live", "kept" or "purged"; "unhid" is purged and shown
    file,       \* the items whose file Cloudinary still has
    uploading,     \* a save has read the event live and not inserted yet
    restoring,  \* the item a restore has read unpurged and not written yet, or 0
    archived,   \* Event.isArchived
    archiving,  \* the number of the latest archiving; the current one while archived
    age,        \* days since it
    archiver,   \* an archive request has read the event live
    warned,     \* MediaPurgeReminderClaim rows: days since each
    emails,     \* history: times the reminder of each archiving was sent
    purge,      \* EventMediaPurge rows
    sweeper,    \* what each sweep or super admin's request is doing
    breaks      \* crashes, failures and late leases so far

photoVars == <<photo, file, uploading, restoring>>
clockVars == <<archived, archiving, age, archiver>>
claimVars == <<warned, emails, purge>>
retentionVars == <<photoVars, clockVars, claimVars, sweeper, breaks>>

Photos == 1..MaxPhotos
Archivings == 1..MaxArchivings

Taken == {i \in Photos : photo[i] # "none"}
Unpurged == {i \in Photos : photo[i] \in {"live", "kept"}}
Viewable == {i \in Photos : photo[i] = "live"}

\* covers: the items that existed at startedAt.  since: the days the event had
\* been archived by then.  wanted: whether there was anything to download.
Purge(reason, covers, since, wanted) ==
    [reason |-> reason, covers |-> covers, since |-> since, wanted |-> wanted, leased |-> FALSE, done |-> FALSE, count |-> 0]
NoPurge == Purge("none", {}, 0, FALSE)

\* A sweep: its step, the archiving it is at, the items that existed when it
\* began, and of an attempt the items left, the one to mark, whether any
\* failed, how many it marked, and whether its lease still runs.
Task(step, key, seen) ==
    [step |-> step, key |-> key, seen |-> seen, todo |-> {}, mark |-> 0,
     failed |-> FALSE, count |-> 0, holds |-> FALSE]
Asleep == Task("asleep", 0, {})
Goes(w, t) == sweeper' = [sweeper EXCEPT ![w] = t]

RetentionInit ==
    /\ photo = [i \in Photos |-> "none"] /\ file = {} /\ uploading = FALSE /\ restoring = 0
    /\ archived = FALSE /\ archiving = 0 /\ age = 0 /\ archiver = FALSE
    /\ warned = [k \in Archivings |-> Never] /\ emails = [k \in Archivings |-> 0]
    /\ purge = [k \in Archivings |-> NoPurge]
    /\ sweeper = [w \in Sweepers |-> Asleep] /\ breaks = 0

------------------------------------------------------------------------------
\* The album, as far as it matters here.

SaveRead ==
    /\ ~archived /\ ~uploading /\ Taken # Photos
    /\ uploading' = TRUE
    /\ UNCHANGED <<photo, file, restoring, clockVars, claimVars, sweeper, breaks>>

\* The insert does not look again: the event may be archived by then.
SaveInsert ==
    /\ uploading /\ uploading' = FALSE
    /\ LET i == Cardinality(Taken) + 1
       IN  /\ photo' \in {[photo EXCEPT ![i] = st] : st \in {"live", "kept"}}
           /\ file' = file \cup {i}
    /\ UNCHANGED <<restoring, clockVars, claimVars, sweeper, breaks>>

\* Approved, rejected or archived.
Curate(i) ==
    /\ ~archived /\ photo[i] \in {"live", "kept"}
    /\ photo' = [photo EXCEPT ![i] = IF @ = "live" THEN "kept" ELSE "live"]
    /\ UNCHANGED <<file, uploading, restoring, clockVars, claimVars, sweeper, breaks>>

\* reactivateItem refuses a purged item; its write does not look again.
RestoreRead(i) ==
    /\ ~archived /\ restoring = 0 /\ photo[i] = "kept"
    /\ restoring' = i
    /\ UNCHANGED <<photo, file, uploading, clockVars, claimVars, sweeper, breaks>>

RestoreWrite ==
    /\ restoring # 0 /\ restoring' = 0
    /\ photo' = [photo EXCEPT ![restoring] = IF @ = "purged" THEN "unhid" ELSE IF @ = "kept" THEN "live" ELSE @]
    /\ UNCHANGED <<file, uploading, clockVars, claimVars, sweeper, breaks>>

------------------------------------------------------------------------------
\* Archiving, restoring and the passing of days.

ArchiveRead ==
    /\ ~archived /\ ~archiver /\ archiver' = TRUE
    /\ UNCHANGED <<archived, archiving, age, photoVars, claimVars, sweeper, breaks>>

\* The write has no condition: a second archive starts the clock again.
ArchiveEvent ==
    /\ archiver \/ ~archived
    /\ archiving < MaxArchivings
    /\ archived' = TRUE /\ archiving' = archiving + 1 /\ age' = 0 /\ archiver' = FALSE
    /\ UNCHANGED <<photoVars, claimVars, sweeper, breaks>>

RestoreEvent ==
    /\ archived /\ archived' = FALSE /\ age' = 0
    /\ UNCHANGED <<archiving, archiver, photoVars, claimVars, sweeper, breaks>>

Idle == /\ \A w \in Sweepers : sweeper[w] = Asleep
        /\ ~uploading /\ restoring = 0 /\ ~archiver

DayPasses ==
    /\ archived /\ Idle
    /\ age' = IF age < RetentionDays THEN age + 1 ELSE age
    /\ warned' = [k \in Archivings |-> IF warned[k] # Never /\ warned[k] < ReminderDays
                                       THEN warned[k] + 1 ELSE warned[k]]
    /\ <<age, warned>>' # <<age, warned>>
    /\ UNCHANGED <<archived, archiving, archiver, photoVars, emails, purge, sweeper, breaks>>

------------------------------------------------------------------------------
\* One sweep: the reminder, the claim, the attempts.

\* findReminderCandidates, and remindFor as far as its claim.
ReminderDue ==
    /\ archived /\ age >= RetentionDays - ReminderDays
    /\ warned[archiving] = Never /\ purge[archiving] = NoPurge /\ Viewable # {}

\* findDuePurgeEventIds: reminded long enough ago, or nothing to download.
Due ==
    /\ archived /\ age >= RetentionDays /\ purge[archiving] = NoPurge
    /\ warned[archiving] = ReminderDays \/ Viewable = {}

Unfinished(k) == purge[k] # NoPurge /\ ~purge[k].done /\ ~purge[k].leased

\* What a sweep turns to after its reminder.
Rest(seen) ==
    IF Due THEN Task("claim", 0, seen)
    ELSE IF \E k \in Archivings : Unfinished(k) THEN Task("run", 0, {}) ELSE Asleep

SweepBegins(w) ==
    /\ sweeper[w] = Asleep
    /\ Goes(w, IF ReminderDue THEN Task("remind", archiving, Taken) ELSE Rest(Taken))
    /\ sweeper' # sweeper
    /\ UNCHANGED <<photoVars, clockVars, claimVars, breaks>>

\* The unique (eventId, archivedAt): the sweep that inserts it sends.
Remind(w) ==
    LET k == sweeper[w].key
    IN  /\ sweeper[w].step = "remind"
        /\ warned' = [warned EXCEPT ![k] = IF @ = Never THEN 0 ELSE @]
        /\ emails' = [emails EXCEPT ![k] = IF warned[k] = Never THEN @ + 1 ELSE @]
        /\ Goes(w, Rest(sweeper[w].seen))
        /\ UNCHANGED <<photoVars, clockVars, purge, breaks>>

\* claimPurge, under the event's row lock: archived still, and for a sweep long
\* enough, whichever archiving it is now; once for each.
ClaimPurge(reason, seen) ==
    IF /\ archived /\ purge[archiving] = NoPurge
       /\ reason = "RETENTION" => age >= RetentionDays
    THEN purge' = [purge EXCEPT ![archiving] = Purge(reason, seen, age, Viewable # {})]
    ELSE UNCHANGED purge

SweepClaims(w) ==
    /\ sweeper[w].step = "claim"
    /\ ClaimPurge("RETENTION", sweeper[w].seen)
    /\ Goes(w, Task("run", 0, {}))
    /\ UNCHANGED <<photoVars, clockVars, warned, emails, breaks>>

\* purgeNowAsSuperAdmin, any time the event is archived, then one attempt.
AdminBegins(w) ==
    /\ sweeper[w] = Asleep /\ archived /\ purge[archiving] = NoPurge
    /\ Goes(w, Task("order", 0, Taken))
    /\ UNCHANGED <<photoVars, clockVars, claimVars, breaks>>

AdminClaims(w) ==
    /\ sweeper[w].step = "order"
    /\ ClaimPurge("SUPER_ADMIN", sweeper[w].seen)
    /\ Goes(w, IF archived /\ purge[archiving] = NoPurge THEN Task("run", archiving, {}) ELSE Asleep)
    /\ UNCHANGED <<photoVars, clockVars, warned, emails, breaks>>

------------------------------------------------------------------------------
\* One attempt at a purge.

\* An attempt at everything the album holds by now.
ItemsNow(k) == Unpurged

\* findItemsToPurge: whatever their status, if they existed at the start.
ItemsToPurge(k) == Unpurged \cap purge[k].covers

\* takeLease, a conditional write, and the read of the items.
TakeLease(w, k) ==
    /\ sweeper[w].step = "run" /\ sweeper[w].key \in {0, k}
    /\ Unfinished(k)
    /\ purge' = [purge EXCEPT ![k].leased = TRUE]
    /\ Goes(w, [Task("delete", k, {}) EXCEPT !.todo = ItemsToPurge(k), !.holds = TRUE])
    /\ UNCHANGED <<photoVars, clockVars, warned, emails, breaks>>

\* Another one holds it, or it is finished.
NothingToRun(w) ==
    /\ sweeper[w].step = "run"
    /\ \A k \in Archivings : sweeper[w].key \in {0, k} => ~Unfinished(k)
    /\ Goes(w, Asleep)
    /\ UNCHANGED <<photoVars, clockVars, claimVars, breaks>>

\* One batch: deleted (or found gone already), or failed, and then the file may
\* be deleted all the same, its answer lost.
DeleteBatch(w, i) ==
    LET t == sweeper[w]
    IN  /\ t.step = "delete" /\ i \in t.todo /\ \A j \in t.todo : i <= j
        /\ \/ /\ file' = file \ {i}
              /\ Goes(w, [t EXCEPT !.step = "mark", !.mark = i, !.todo = @ \ {i}])
              /\ UNCHANGED breaks
           \/ /\ breaks < MaxBreaks /\ breaks' = breaks + 1
              /\ file' \in {file, file \ {i}}
              /\ Goes(w, [t EXCEPT !.failed = TRUE, !.todo = @ \ {i}])
        /\ UNCHANGED <<photo, uploading, restoring, clockVars, claimVars>>

\* markItemsPurged: hidden too, and counted by the attempt that marks it first.
MarkPurged(w) ==
    LET t == sweeper[w]  first == t.mark \in Unpurged
    IN  /\ t.step = "mark"
        /\ photo' = IF first THEN [photo EXCEPT ![t.mark] = "purged"] ELSE photo
        /\ Goes(w, [t EXCEPT !.step = "delete", !.mark = 0, !.count = IF first THEN @ + 1 ELSE @])
        /\ UNCHANGED <<file, uploading, restoring, clockVars, claimVars, breaks>>

\* finishAttempt releases the lease, whoever holds it by then.
Ends(w, complete) ==
    LET t == sweeper[w]
    IN  /\ purge' = [purge EXCEPT ![t.key].leased = FALSE, ![t.key].done = complete,
                                  ![t.key].count = @ + t.count]
        /\ sweeper' = [v \in Sweepers |->
                          IF v = w THEN Asleep
                          ELSE IF sweeper[v].key = t.key THEN [sweeper[v] EXCEPT !.holds = FALSE]
                          ELSE sweeper[v]]
        /\ UNCHANGED <<photoVars, clockVars, warned, emails>>

FinishAttempt(w) ==
    /\ sweeper[w].step = "delete" /\ sweeper[w].todo = {}
    /\ Ends(w, ~sweeper[w].failed)
    /\ UNCHANGED breaks

DatabaseFails(w) ==
    /\ sweeper[w].step \in {"delete", "mark"} /\ breaks < MaxBreaks
    /\ Ends(w, FALSE)
    /\ breaks' = breaks + 1

Crash(w) ==
    /\ sweeper[w] # Asleep /\ breaks < MaxBreaks
    /\ Goes(w, Asleep) /\ breaks' = breaks + 1
    /\ UNCHANGED <<photoVars, clockVars, claimVars>>

\* The lease's ten minutes are over; the attempt may still be running.
LeaseRunsOut(k) ==
    /\ purge[k].leased
    /\ IF \E w \in Sweepers : sweeper[w].key = k /\ sweeper[w].holds
       THEN breaks < MaxBreaks /\ breaks' = breaks + 1 ELSE UNCHANGED breaks
    /\ purge' = [purge EXCEPT ![k].leased = FALSE]
    /\ sweeper' = [w \in Sweepers |-> IF sweeper[w].key = k THEN [sweeper[w] EXCEPT !.holds = FALSE]
                                      ELSE sweeper[w]]
    /\ UNCHANGED <<photoVars, clockVars, warned, emails>>

RetentionNext ==
    \/ SaveRead \/ SaveInsert \/ RestoreWrite
    \/ \E i \in Photos : Curate(i) \/ RestoreRead(i)
    \/ ArchiveRead \/ ArchiveEvent \/ RestoreEvent \/ DayPasses
    \/ \E k \in Archivings : LeaseRunsOut(k)
    \/ \E w \in Sweepers :
          \/ SweepBegins(w) \/ Remind(w) \/ SweepClaims(w) \/ AdminBegins(w) \/ AdminClaims(w)
          \/ NothingToRun(w) \/ MarkPurged(w) \/ FinishAttempt(w) \/ DatabaseFails(w) \/ Crash(w)
          \/ \E k \in Archivings : TakeLease(w, k)
          \/ \E i \in Photos : DeleteBatch(w, i)

RetentionSpec == RetentionInit /\ [][RetentionNext]_retentionVars

------------------------------------------------------------------------------
RetentionTypeOK ==
    /\ photo \in [Photos -> {"none", "live", "kept", "purged", "unhid"}]
    /\ file \subseteq Photos /\ uploading \in BOOLEAN /\ restoring \in 0..MaxPhotos
    /\ archived \in BOOLEAN /\ archiver \in BOOLEAN
    /\ archiving \in 0..MaxArchivings /\ age \in 0..RetentionDays
    /\ warned \in [Archivings -> (0..ReminderDays) \cup {Never}]
    /\ emails \in [Archivings -> Nat]
    /\ \A k \in Archivings :
          /\ purge[k].reason \in {"none", "RETENTION", "SUPER_ADMIN"}
          /\ purge[k].covers \subseteq Photos /\ purge[k].count \in Nat
    /\ \A w \in Sweepers :
          /\ sweeper[w].step \in {"asleep", "remind", "claim", "order", "run", "delete", "mark"}
          /\ sweeper[w].key \in 0..MaxArchivings /\ sweeper[w].todo \subseteq Photos
    /\ breaks \in 0..MaxBreaks

Purging(i) == \E k \in Archivings : purge[k] # NoPurge /\ ~purge[k].done /\ i \in purge[k].covers

\* The sweep deletes nothing of an archiving younger than the retention, nor
\* sooner than the days the reminder gave its organisers to download; and that
\* holds whatever is restored and archived again between its list and its
\* claim.  The reminder goes out once for each archiving.
WeekToDownload ==
    \A k \in Archivings :
        /\ purge[k].reason = "RETENTION" =>
              purge[k].since = RetentionDays /\ (purge[k].wanted => warned[k] = ReminderDays)
        /\ emails[k] <= 1

\* What a purge takes existed when it began: an upload to a restored event is
\* never taken by the purge of an older archiving.  An item is shown without
\* its file only while a purge that covers it is under way, or if a request
\* restored it that had read it before.  And a purge that says it is complete
\* has left no file of what it covers, and never counts more, however many
\* attempts overlapped.
PurgesWhatItSaw ==
    /\ \A i \in Taken :
          /\ photo[i] = "purged" => \E k \in Archivings : i \in purge[k].covers
          /\ photo[i] = "live" /\ i \notin file => Purging(i)
    /\ \A k \in Archivings :
          /\ purge[k].done => \A i \in purge[k].covers : photo[i] \in {"purged", "unhid"} /\ i \notin file
          /\ purge[k].count <= Cardinality(purge[k].covers)
          /\ Cardinality({w \in Sweepers : sweeper[w].key = k /\ sweeper[w].holds}) <= 1

\* Media is purged no sooner than was promised, and nothing else is
\* (media-retention.service.ts).
PurgesAsPromised == WeekToDownload /\ PurgesWhatItSaw
=============================================================================
