----------------------------- MODULE Organising ------------------------------
(***************************************************************************)
(* The modules an organiser works in.  They share no variable, so a        *)
(* behaviour is a scene: it runs one of them and leaves the others in      *)
(* their initial states, and what each reaches is what it reaches in the   *)
(* product of them all.                                                    *)
(***************************************************************************)
EXTENDS EventStatus, EventCreation, EventContent, Vendors, PayoutAccount, GuestImport, RateLimits

CONSTANT Scenes     \* bound: the modules that are run
ASSUME ScenesAssumption ==
    Scenes \subseteq {"status", "creation", "content", "vendors", "payout", "import", "limits"}

VARIABLE scene

plannedVars == <<statusVars, creationVars, contentVars>>
tradeVars == <<vendorVars, payoutVars>>
listVars == <<importVars, limitVars>>
organiserVars == <<scene, plannedVars, tradeVars, listVars>>

OrganiserInit ==
    /\ scene \in Scenes
    /\ StatusInit /\ CreationInit /\ ContentInit
    /\ VendorsInit /\ PayoutInit /\ ImportInit /\ LimitsInit

OrganiserNext ==
    /\ \/ scene = "status" /\ StatusNext /\ UNCHANGED <<creationVars, contentVars, tradeVars, listVars>>
       \/ scene = "creation" /\ CreationNext /\ UNCHANGED <<statusVars, contentVars, tradeVars, listVars>>
       \/ scene = "content" /\ ContentNext /\ UNCHANGED <<statusVars, creationVars, tradeVars, listVars>>
       \/ scene = "vendors" /\ VendorsNext /\ UNCHANGED <<plannedVars, payoutVars, listVars>>
       \/ scene = "payout" /\ PayoutNext /\ UNCHANGED <<plannedVars, vendorVars, listVars>>
       \/ scene = "import" /\ ImportNext /\ UNCHANGED <<plannedVars, tradeVars, limitVars>>
       \/ scene = "limits" /\ LimitsNext /\ UNCHANGED <<plannedVars, tradeVars, importVars>>
    /\ UNCHANGED scene

OrganiserSpec == OrganiserInit /\ [][OrganiserNext]_organiserVars

\* What is not of the scene is as it was at first.
OrganiserTypeOK ==
    /\ scene \in Scenes
    /\ scene = "status" => StatusTypeOK
    /\ scene = "creation" => CreationTypeOK
    /\ scene = "content" => ContentTypeOK
    /\ scene = "vendors" => VendorsTypeOK
    /\ scene = "payout" => PayoutTypeOK
    /\ scene = "import" => ImportTypeOK
    /\ scene = "limits" => LimitsTypeOK

\* What a plan grants and no more: so many active events, so many spaces on the
\* marketplace, and there a priority that carries a space past no nearer one.
WithinPlan == ActiveWithinLimit /\ SpacesWithinLimit /\ NearestFirst
=============================================================================
