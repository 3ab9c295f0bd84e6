------------------------------ MODULE Letters -------------------------------
(***************************************************************************)
(* What the guests of an event are sent: invitations and reminders, of a   *)
(* private event, and announcements and the notice that one is off.        *)
(***************************************************************************)
EXTENDS Reminders, Announcements

\* Whatever is sent to guests at once, a guest of whom a sender was told that the
\* reminder went is not reminded again that day; and of a cancelled event nobody
\* is forgotten, nor sent anything after the notice but what was on its way when
\* the event was cancelled.
LettersInOrder == WithinTheDay /\ CancelledLast
=============================================================================
