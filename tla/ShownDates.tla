----------------------------- MODULE ShownDates -----------------------------
(***************************************************************************)
(* The dates organisers are shown, and the rules those dates speak of: when *)
(* an archived event's photos and videos are deleted                       *)
(* (event-media-retention.util.ts, media-retention.repository.ts), when an  *)
(* event may send its next announcement (announcement.service.ts), and when *)
(* a guest may be reminded again (invite-reminder.util.ts).  An instant is  *)
(* a number of minutes; what the sweeps and sends do at it is              *)
(* MediaRetention's, Announcements' and Reminders'.                         *)
(***************************************************************************)
EXTENDS Integers, FiniteSets

CONSTANT NotYet  \* null: it has not happened

ASSUME DatesAssumption == NotYet \notin Int

DAY == 1440
MEDIA_RETENTION_DAYS == 30
MEDIA_PURGE_REMINDER_DAYS_BEFORE == 7
Kept == MEDIA_RETENTION_DAYS * DAY
Notice == MEDIA_PURGE_REMINDER_DAYS_BEFORE * DAY
ANNOUNCEMENTS_PER_EVENT_PER_DAY == 5
ANNOUNCEMENT_WINDOW == DAY
REMINDER_COOLDOWN == DAY

------------------------------------------------------------------------------
\* An archived event: since when, and this archiving's reminder and purge.
ArchivedEvents == [archivedAt : Nat, remindedAt : Nat \cup {NotYet}, startedAt : Nat \cup {NotYet}]

mediaPurgeDueAt(archivedAt, remindedAt) ==
    IF remindedAt # NotYet /\ remindedAt + Notice > archivedAt + Kept
    THEN remindedAt + Notice ELSE archivedAt + Kept

mediaPurgeReminderDueAt(archivedAt) == archivedAt + (Kept - Notice)

\* mediaPurgeAt of an event's views; off, there is no countdown.
scheduledPurgeAt(on, e, now) ==
    IF ~on THEN NotYet
    ELSE IF e.remindedAt # NotYet THEN mediaPurgeDueAt(e.archivedAt, e.remindedAt)
    ELSE mediaPurgeDueAt(e.archivedAt, IF now >= mediaPurgeReminderDueAt(e.archivedAt) THEN now ELSE NotYet)
withMediaRetention(on, e, now) == IF e.startedAt # NotYet THEN e.startedAt ELSE scheduledPurgeAt(on, e, now)

\* remindFor claims the reminder, with the sweep's own time and the date it emails.
ReminderMayGo(e, downloadable, now) ==
    /\ now >= mediaPurgeReminderDueAt(e.archivedAt)
    /\ e.startedAt = NotYet /\ e.remindedAt = NotYet
    /\ downloadable
Reminded(e, now) == [archivedAt |-> e.archivedAt, remindedAt |-> now, startedAt |-> e.startedAt]

\* findDuePurgeEventIds: those a sweep purges.
PurgeIsDue(e, downloadable, now) ==
    /\ e.archivedAt <= now - Kept
    /\ e.startedAt = NotYet
    /\ \/ e.remindedAt # NotYet /\ e.remindedAt <= now - Notice
       \/ ~downloadable

------------------------------------------------------------------------------
\* Announcements and when each was sent; those since the window opened, which
\* includes its first instant.
findSentSince(sentAt, now) == {a \in DOMAIN sentAt : sentAt[a] >= now - ANNOUNCEMENT_WINDOW}
dailyLimitRefusal(sentAt, now) == Cardinality(findSentSince(sentAt, now)) >= ANNOUNCEMENTS_PER_EVENT_PER_DAY

\* dailyLimitFrom: the oldest leaves the window a day after it was sent.
Oldest(sentAt, set) == CHOOSE a \in set : \A b \in set : sentAt[a] <= sentAt[b]
nextAvailableAt(sentAt, now) ==
    IF dailyLimitRefusal(sentAt, now)
    THEN sentAt[Oldest(sentAt, findSentSince(sentAt, now))] + ANNOUNCEMENT_WINDOW ELSE NotYet

------------------------------------------------------------------------------
\* A guest's live invites and when each was last reminded: the latest counts, and
\* the claim asks each invite it is about.
Latest(remindedAt) ==
    LET reminded == {i \in DOMAIN remindedAt : remindedAt[i] # NotYet}
    IN  CHOOSE i \in reminded : \A j \in reminded : remindedAt[j] <= remindedAt[i]
nextEligibleAt(remindedAt) ==
    IF \A i \in DOMAIN remindedAt : remindedAt[i] = NotYet THEN NotYet
    ELSE remindedAt[Latest(remindedAt)] + REMINDER_COOLDOWN
RecentlyReminded(remindedAt, now) ==
    nextEligibleAt(remindedAt) # NotYet /\ nextEligibleAt(remindedAt) > now
claimReminders(remindedAt, now) ==
    {i \in DOMAIN remindedAt : remindedAt[i] = NotYet \/ remindedAt[i] <= now - REMINDER_COOLDOWN}
=============================================================================
