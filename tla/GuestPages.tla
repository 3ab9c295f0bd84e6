----------------------------- MODULE GuestPages -----------------------------
(***************************************************************************)
(* The two pages a guest sees: the one behind an invitation, and the       *)
(* public page of an event.                                                *)
(***************************************************************************)
EXTENDS InvitePage, RegistrationPage

\* The type invariant of both.
PagesTypeOK == PageTypeOK /\ PublicTypeOK
=============================================================================
