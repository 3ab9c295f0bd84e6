------------------------------ MODULE MCPages -------------------------------
(***************************************************************************)
(* Small instances for TLC of the two pages a guest sees, one of them in a *)
(* behaviour, as in MCEvents.  The page behind an invitation is followed   *)
(* in one of its matters at a time.                                        *)
(***************************************************************************)
EXTENDS GuestPages, TLC
CONSTANTS Scenes, first, last
VARIABLE scene

Matters == {"contact", "days", "questions", "party"}

\* The initial states differ in what is of the scene alone.
Init ==
    /\ scene \in Scenes
    /\ PageInit /\ PublicInit
    /\ scene = "public" \/ plan = Never
    /\ scene \in Matters \/ (guest.email /\ guest.named /\ guest.allowed = 0 /\ texts)

Next ==
    /\ \/ scene \in Matters /\ PageNext /\ UNCHANGED publicVars
       \/ scene = "public" /\ PublicNext /\ UNCHANGED pageVars
    /\ UNCHANGED scene

Spec == Init /\ [][Next]_<<scene, pageVars, publicVars>>

Symmetry == Permutations(Tabs) \cup Permutations(Company)

\* The first of two days is the day before the last.
DateOf == first :> 0 @@ last :> 1

-----------------------------------------------------------------------------
(* Bounds.                                                                 *)

\* Nothing of a guest's page but the matter in hand has been touched; a page
\* that lets nothing in is not followed.
InProgress == {t \in Tabs : visit[t] # NoVisit}
ContactAsItWas ==
    /\ guest.email # guest.phone /\ ~moved /\ ~overtaken
    /\ \A t \in InProgress : visit[t].kind = "form" /\ {visit[t].form.email, visit[t].form.phone} = {"keep"}
DaysAsTheyWere ==
    /\ attended = {} /\ running = Offered /\ link.status = (IF link.used THEN "ACCEPTED" ELSE "PENDING")
    /\ \A t \in InProgress : visit[t].kind = "form" => visit[t].form.days = {} /\ visit[t].form.attending
QuestionsAsTheyWere == \A q \in Asked : question[q].st = "none"
PartyAsItWas == guest.named /\ guest.allowed = 0
OneMatter ==
    scene \in Matters =>
        /\ admits
        /\ scene = "contact" \/ ContactAsItWas
        /\ scene = "days" \/ DaysAsTheyWere
        /\ scene = "questions" \/ QuestionsAsTheyWere
        /\ scene = "party" \/ PartyAsItWas

\* The dates are followed while nobody is on the list, and the list while they
\* are left alone; a page that is gone is not followed.
Timeless ==
    /\ clock = 0 /\ rules.closesAt = Never /\ rules.deadline = Never
    /\ rules.open = EventDays /\ kept = EventDays
    /\ \A w \in Savers : saver[w].field \notin {"closesAt", "open"}
Empty ==
    /\ OnList = {} /\ rules.cap = Never /\ rules.plusOnes = 0 /\ ~rules.restricted
    /\ \A w \in Savers : saver[w].field \in {"none", "closesAt", "open"}
DatesOrList == scene = "public" => stage = "PUBLISHED" /\ (Timeless \/ (Empty /\ shared))
=============================================================================
