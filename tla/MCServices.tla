----------------------------- MODULE MCServices -----------------------------
(***************************************************************************)
(* Small instances for TLC of the modules around an event and its guests,  *)
(* one of them in a behaviour (Services).                                  *)
(***************************************************************************)
EXTENDS Services, MCRules, TLC
CONSTANTS g1, g2

\* The same two do the work of every scene, so that one exchange of them is the
\* symmetry of each.
Symmetry == Permutations(Uploaders)

\* What changes in the scene: what a state is known by.
Seen ==
    CASE scene = "album" -> <<scene, albumVars>>
      [] scene = "retention" -> <<scene, retentionVars>>
      [] scene = "feedback" -> <<scene, feedbackVars>>
      [] scene = "reminders" -> <<scene, reminderVars>>
      [] scene = "announcements" -> <<scene, announcementVars>>
      [] scene = "pass" -> <<scene, passVars>>
      [] scene = "signIn" -> <<scene, signInVars>>
      [] scene = "team" -> <<scene, teamVars>>

\* Two invites of one guest, the second by SMS.
HolderOf == <<g1, g1>>

\* Requests about the album's items and the archive request come one at a
\* time, with one server idle and nothing broken; the second item is not
\* hidden.  Once something broke and the event was archived again, one server
\* sweeps.  The sweeps for feedback, which share only its being given with the
\* rest, are over before the first permission.
Quiet ==
    /\ ~(uploading /\ restoring # 0) /\ ~(archiver /\ (uploading \/ restoring # 0))
    /\ archiver \/ uploading \/ restoring # 0 =>
          breaks = 0 /\ \E w \in Sweepers : sweeper[w] = Asleep
    /\ photo[MaxPhotos] # "kept"
    /\ breaks > 0 => archiving = 1 \/ \E w \in Sweepers : sweeper[w] = Asleep
    /\ (\E w \in Servers : asker[w] # "idle") => consents = <<>> /\ \A r \in Requests : asking[r] = NoRequest

\* Nothing is asked of a workspace, an album or a guest's letters once a request
\* has gone by what was no longer so.  The founder is not invited, and two requests
\* cross while the events stand and no link can be followed but by one of them.
Plain ==
    /\ blurred = {} /\ ~stale /\ ~unchecked
    /\ (\A r \in Senders : job[r] # NoJob) => \A i \in Letters : letter[i].live /\ ~letter[i].answered
    /\ \A i \in Invites : invite[i].email # Founder \/ invite[i].state = "none"
    /\ (\A r \in TeamRequests : task[r] # NoTask) =>
          /\ live = Events
          /\ \A i \in Invites : Open(i) => \E r \in TeamRequests : task[r].op = "ACCEPT"
=============================================================================
