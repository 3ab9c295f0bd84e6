------------------------------- MODULE Vendors -------------------------------
(***************************************************************************)
(* Vendor spaces and what they offer (src/src/modules/vendor): the spaces  *)
(* of one tenant and the platform's own, the services and products under   *)
(* them, the vendor users who look after them, and what an organiser finds *)
(* on the marketplace.  Every change goes through a lookup that must find  *)
(* the row, and everything it hangs on, unarchived; the change itself is a *)
(* write by id, with no lock between the two.                              *)
(***************************************************************************)
EXTENDS Naturals, FiniteSets

CONSTANTS
    Spaces, Services, Products,
    PlatformSpaces, \* those of no tenant, which a super admin curates
    Keepers,        \* users with the role EVENT_VENDOR, of the tenant
    SpaceLimits,    \* maxVendorSpaces of the plans; 0: one without the marketplace
    PriorityLimits, \* those of the plans with vendorPriorityPlacement
    Tenths,         \* how far each space is from the venue, in tenths of a km
    Radius,         \* of the search, in tenths of a km
    Clerks,         \* requests under way
    SuperAdmin, TenantAdmin

ASSUME VendorsAssumption ==
    /\ IsFiniteSet(Spaces) /\ PlatformSpaces \subseteq Spaces /\ SpaceLimits \subseteq Nat
    /\ PriorityLimits \subseteq SpaceLimits /\ Tenths \in [Spaces -> Nat]
    /\ Services \cap Products = {}

VARIABLES
    space,      \* VendorSpace: "none", "live" or "archived", and isActive
    offer,      \* VendorService and Product: what it hangs on, and its state
    keeps,      \* VendorSpaceUser: <<space, user>>
    spaceLimit, \* of the tenant's plan in force
    errand,     \* what each request has been let through to do
    uncounted   \* history: the limit fell, a count was overtaken, or a space came back

vendorVars == <<space, offer, keeps, spaceLimit, errand, uncounted>>

Offers == Services \cup Products
Admins == {SuperAdmin, TenantAdmin}
Space(state, active) == [state |-> state, active |-> active]
Nowhere == "nowhere"
Offer(on, state) == [on |-> on, state |-> state]
Errand(op, on, to) == [op |-> op, on |-> on, to |-> to]
NoErrand == Errand("idle", Nowhere, Nowhere)

VendorsInit ==
    /\ space = [s \in Spaces |-> Space("none", FALSE)]
    /\ offer = [o \in Offers |-> Offer(Nowhere, "none")]
    /\ keeps = {} /\ spaceLimit \in SpaceLimits
    /\ errand = [c \in Clerks |-> NoErrand] /\ uncounted = FALSE

------------------------------------------------------------------------------
\* What a lookup finds.

CountActiveSpaces == Cardinality({s \in Spaces \ PlatformSpaces : space[s].state = "live"})

\* The archived are found by a restore alone.
Found(state, includeArchived) == state = "live" \/ (includeArchived /\ state = "archived")

\* A platform space is found by no one of a tenant.
FindSpace(u, s, includeArchived) ==
    Found(space[s].state, includeArchived) /\ (u = SuperAdmin \/ s \notin PlatformSpaces)

FindService(u, v, includeArchived) ==
    Found(offer[v].state, includeArchived) /\ FindSpace(u, offer[v].on, FALSE)

FindProduct(u, p, includeArchived) ==
    Found(offer[p].state, includeArchived) /\ FindService(u, offer[p].on, FALSE)

Find(u, o, includeArchived) ==
    IF o \in Services THEN FindService(u, o, includeArchived) ELSE FindProduct(u, o, includeArchived)

\* The space the request names is the user's to change.
VendorSpaceOwner(u, s) ==
    \/ u = SuperAdmin
    \/ u = TenantAdmin /\ FindSpace(u, s, FALSE)
    \/ <<s, u>> \in keeps /\ space[s].state = "live"

\* An organiser's search.
Market == {s \in Spaces : space[s].state = "live" /\ space[s].active}
IsPriority(s) == s \notin PlatformSpaces /\ spaceLimit \in PriorityLimits
Band(s) == (Tenths[s] + 5) \div 10

ByBandedDistanceThenPriority(a, b) ==
    \/ Band(a) < Band(b)
    \/ Band(a) = Band(b) /\ IsPriority(a) /\ ~IsPriority(b)
    \/ Band(a) = Band(b) /\ IsPriority(a) = IsPriority(b) /\ Tenths[a] < Tenths[b]

\* What a search may answer: every space of the market within the radius, once,
\* with none after one it comes before.  Equals stand as the database found them.
Nearby ==
    LET found == {s \in Market : Tenths[s] <= Radius}
    IN  {q \in [1..Cardinality(found) -> found] :
            /\ found = {q[i] : i \in DOMAIN q}
            /\ \A i, j \in DOMAIN q : i < j => ~ByBandedDistanceThenPriority(q[j], q[i])}

------------------------------------------------------------------------------
\* A request passes its gates, and writes.

Undertake(c, op, on, to) ==
    /\ errand[c] = NoErrand
    /\ errand' = [errand EXCEPT ![c] = Errand(op, on, to)]
    /\ UNCHANGED <<space, offer, keeps, spaceLimit, uncounted>>

Complete(c, op) == errand[c].op = op /\ errand' = [errand EXCEPT ![c] = NoErrand]
On(c) == errand[c].on

\* The plan's limit is asked for a space of a tenant.
VendorSpaceCreatable(s) == s \in PlatformSpaces \/ CountActiveSpaces < spaceLimit

CreateSpaceRead(c) ==
    \E u \in Admins, s \in Spaces :
        /\ space[s].state = "none" /\ (s \in PlatformSpaces => u = SuperAdmin)
        /\ \A d \in Clerks : errand[d].on # s
        /\ VendorSpaceCreatable(s)
        /\ Undertake(c, "createSpace", s, CountActiveSpaces)

CreateSpace(c) ==
    /\ Complete(c, "createSpace")
    /\ space' = [space EXCEPT ![On(c)] = Space("live", TRUE)]
    /\ uncounted' = (uncounted \/ (On(c) \notin PlatformSpaces /\ CountActiveSpaces > errand[c].to))
    /\ UNCHANGED <<offer, keeps, spaceLimit>>

UpdateSpaceRead(c) ==
    \E u \in Admins \cup Keepers, s \in Spaces, op \in {"activate", "deactivate"} :
        VendorSpaceOwner(u, s) /\ FindSpace(u, s, FALSE) /\ Undertake(c, op, s, Nowhere)

UpdateSpace(c) ==
    \E active \in BOOLEAN :
        /\ Complete(c, IF active THEN "activate" ELSE "deactivate")
        /\ space' = [space EXCEPT ![On(c)].active = active]
        /\ UNCHANGED <<offer, keeps, spaceLimit, uncounted>>

ArchiveSpaceRead(c) ==
    \E u \in Admins \cup Keepers, s \in Spaces :
        VendorSpaceOwner(u, s) /\ FindSpace(u, s, FALSE) /\ Undertake(c, "archiveSpace", s, Nowhere)

ArchiveSpace(c) ==
    /\ Complete(c, "archiveSpace")
    /\ space' = [space EXCEPT ![On(c)].state = "archived"]
    /\ UNCHANGED <<offer, keeps, spaceLimit, uncounted>>

\* The limit is not asked.
ReactivateSpaceRead(c) ==
    \E u \in Admins, s \in Spaces : FindSpace(u, s, TRUE) /\ Undertake(c, "reactivateSpace", s, Nowhere)

ReactivateSpace(c) ==
    /\ Complete(c, "reactivateSpace")
    /\ space' = [space EXCEPT ![On(c)].state = "live"]
    /\ uncounted' = (uncounted \/ (On(c) \notin PlatformSpaces /\ space[On(c)].state = "archived"))
    /\ UNCHANGED <<offer, keeps, spaceLimit>>

------------------------------------------------------------------------------
\* Who looks after a space.

AssignVendorUserRead(c) ==
    \E u \in Admins, s \in Spaces, k \in Keepers :
        FindSpace(u, s, FALSE) /\ <<s, k>> \notin keeps /\ Undertake(c, "assign", s, k)

\* The pair is unique: of two requests the later fails.
AssignVendorUser(c) ==
    /\ Complete(c, "assign") /\ keeps' = keeps \cup {<<On(c), errand[c].to>>}
    /\ UNCHANGED <<space, offer, spaceLimit, uncounted>>

UnassignVendorUserRead(c) ==
    \E u \in Admins, s \in Spaces, k \in Keepers :
        FindSpace(u, s, FALSE) /\ <<s, k>> \in keeps /\ Undertake(c, "unassign", s, k)

UnassignVendorUser(c) ==
    /\ Complete(c, "unassign") /\ keeps' = keeps \ {<<On(c), errand[c].to>>}
    /\ UNCHANGED <<space, offer, spaceLimit, uncounted>>

------------------------------------------------------------------------------
\* Services and products.  The gate is on the space the request names, the
\* lookup on what the row hangs on; what neither changes is left out.

Gate(u) == \E s \in Spaces : VendorSpaceOwner(u, s)

CreateServiceRead(c) ==
    \E u \in Admins \cup Keepers, s \in Spaces, v \in Services :
        /\ VendorSpaceOwner(u, s) /\ FindSpace(u, s, FALSE)
        /\ offer[v].state = "none" /\ Undertake(c, "createOffer", v, s)

CreateProductRead(c) ==
    \E u \in Admins \cup Keepers, v \in Services, p \in Products :
        /\ Gate(u) /\ FindService(u, v, FALSE)
        /\ offer[p].state = "none" /\ Undertake(c, "createOffer", p, v)

CreateOffer(c) ==
    /\ Complete(c, "createOffer") /\ offer[On(c)].state = "none"
    /\ offer' = [offer EXCEPT ![On(c)] = Offer(errand[c].to, "live")]
    /\ UNCHANGED <<space, keeps, spaceLimit, uncounted>>

ArchiveOfferRead(c) ==
    \E u \in Admins \cup Keepers, o \in Offers :
        Gate(u) /\ Find(u, o, FALSE) /\ Undertake(c, "archiveOffer", o, Nowhere)

ArchiveOffer(c) ==
    /\ Complete(c, "archiveOffer") /\ offer' = [offer EXCEPT ![On(c)].state = "archived"]
    /\ UNCHANGED <<space, keeps, spaceLimit, uncounted>>

ReactivateOfferRead(c) ==
    \E u \in Admins \cup Keepers, o \in Offers :
        Gate(u) /\ Find(u, o, TRUE) /\ Undertake(c, "reactivateOffer", o, Nowhere)

ReactivateOffer(c) ==
    /\ Complete(c, "reactivateOffer") /\ offer' = [offer EXCEPT ![On(c)].state = "live"]
    /\ UNCHANGED <<space, keeps, spaceLimit, uncounted>>

------------------------------------------------------------------------------
\* The tenant changes plan, or its plan is changed.
ChangeVendorPlan ==
    \E n \in SpaceLimits \ {spaceLimit} :
        /\ spaceLimit' = n
        /\ uncounted' = (uncounted \/ n < spaceLimit)
        /\ UNCHANGED <<space, offer, keeps, errand>>

\* The database or the server fails before the write.
Fail(c) ==
    /\ errand[c] # NoErrand /\ errand' = [errand EXCEPT ![c] = NoErrand]
    /\ UNCHANGED <<space, offer, keeps, spaceLimit, uncounted>>

VendorsNext ==
    \/ ChangeVendorPlan
    \/ \E c \in Clerks :
          \/ CreateSpaceRead(c) \/ UpdateSpaceRead(c) \/ ArchiveSpaceRead(c) \/ ReactivateSpaceRead(c)
          \/ CreateSpace(c) \/ UpdateSpace(c) \/ ArchiveSpace(c) \/ ReactivateSpace(c)
          \/ AssignVendorUserRead(c) \/ UnassignVendorUserRead(c)
          \/ AssignVendorUser(c) \/ UnassignVendorUser(c)
          \/ CreateServiceRead(c) \/ CreateProductRead(c) \/ ArchiveOfferRead(c) \/ ReactivateOfferRead(c)
          \/ CreateOffer(c) \/ ArchiveOffer(c) \/ ReactivateOffer(c)
          \/ Fail(c)

VendorsSpec == VendorsInit /\ [][VendorsNext]_vendorVars

------------------------------------------------------------------------------
VendorsTypeOK ==
    /\ space \in [Spaces -> [state : {"none", "live", "archived"}, active : BOOLEAN]]
    /\ \A v \in Services : offer[v].on \in Spaces \cup {Nowhere}
    /\ \A p \in Products : offer[p].on \in Services \cup {Nowhere}
    /\ keeps \subseteq Spaces \X Keepers /\ spaceLimit \in SpaceLimits

\* A tenant has no more live spaces than its plan allows while the plan has not
\* been lowered, no two creations crossed and no archived space was restored:
\* the limit is asked before the write, of a plan and a count read apart.
SpacesWithinLimit == uncounted \/ CountActiveSpaces <= spaceLimit

\* However far a plan's priority lifts a space, nothing above it in a search is
\* a kilometre further than it or more.
NearestFirst ==
    \A q \in Nearby : \A i, j \in DOMAIN q : i < j => Tenths[q[i]] < Tenths[q[j]] + 10
=============================================================================
