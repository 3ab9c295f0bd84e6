------------------------------ MODULE Services -------------------------------
(***************************************************************************)
(* The modules around an event and its guests.  They share no variable, so *)
(* a behaviour is a scene: it runs one of them and leaves the others in    *)
(* their initial states, and what each reaches is what it reaches in the   *)
(* product of them all.                                                    *)
(***************************************************************************)
EXTENDS MemoryHub, MediaRetention, Feedback, Letters, EventPass, SignIn, Team

CONSTANT Scenes     \* bound: the modules that are run
ASSUME ScenesAssumption ==
    Scenes \subseteq {"album", "retention", "feedback", "reminders", "announcements", "pass", "signIn", "team"}

VARIABLE scene

mediaVars == <<albumVars, retentionVars, feedbackVars>>
sendingVars == <<reminderVars, announcementVars>>
accountVars == <<passVars, signInVars, teamVars>>
servicesVars == <<scene, mediaVars, sendingVars, accountVars>>

ServicesInit ==
    /\ scene \in Scenes
    /\ AlbumInit /\ RetentionInit /\ FeedbackInit
    /\ RemindersInit /\ AnnouncementsInit
    /\ PassInit /\ SignInInit /\ TeamInit

ServicesNext ==
    /\ \/ scene = "album" /\ AlbumNext /\ UNCHANGED <<retentionVars, feedbackVars, sendingVars, accountVars>>
       \/ scene = "retention" /\ RetentionNext /\ UNCHANGED <<albumVars, feedbackVars, sendingVars, accountVars>>
       \/ scene = "feedback" /\ FeedbackNext /\ UNCHANGED <<albumVars, retentionVars, sendingVars, accountVars>>
       \/ scene = "reminders" /\ RemindersNext /\ UNCHANGED <<announcementVars, mediaVars, accountVars>>
       \/ scene = "announcements" /\ AnnouncementsNext /\ UNCHANGED <<reminderVars, mediaVars, accountVars>>
       \/ scene = "pass" /\ PassNext /\ UNCHANGED <<signInVars, teamVars, mediaVars, sendingVars>>
       \/ scene = "signIn" /\ SignInNext /\ UNCHANGED <<passVars, teamVars, mediaVars, sendingVars>>
       \/ scene = "team" /\ TeamNext /\ UNCHANGED <<passVars, signInVars, mediaVars, sendingVars>>
    /\ UNCHANGED scene

ServicesSpec == ServicesInit /\ [][ServicesNext]_servicesVars

\* What is not of the scene is as it was at first.
ServicesTypeOK ==
    /\ scene \in Scenes
    /\ scene = "album" => AlbumTypeOK
    /\ scene = "retention" => RetentionTypeOK
    /\ scene = "feedback" => FeedbackTypeOK
    /\ scene = "reminders" => RemindersTypeOK
    /\ scene = "announcements" => AnnouncementsTypeOK
    /\ scene = "pass" => PassTypeOK
    /\ scene = "signIn" => SignInTypeOK
    /\ scene = "team" => TeamTypeOK
=============================================================================
