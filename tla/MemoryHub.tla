------------------------------ MODULE MemoryHub ------------------------------
(***************************************************************************)
(* The photo album of one event (memory-hub.service.ts,                    *)
(* memory-hub.repository.ts, upload.service.ts): an upload is signed,      *)
(* stored by Cloudinary, then saved by a second request that names it.     *)
(*                                                                         *)
(* A save reads the event, the hub and the space used, and inserts later;  *)
(* nothing is locked.  A refused save has its file deleted in the          *)
(* background, and public ids are not unique among the items.  Every file  *)
(* takes one unit of space.  Items are numbered in the order they are      *)
(* inserted.  Their deletion with an archived event is MediaRetention's.   *)
(***************************************************************************)
EXTENDS Naturals, FiniteSets

CONSTANTS
    MaxItems,   \* items the album may come to hold
    Assets,     \* public ids the server signs for this event's folder
    Oversized,  \* those whose file turns out larger than its type allows
    Quota,      \* space the plan gives one event
    Uploaders,  \* saves in progress at once
    Doors,      \* what the album's state may be for those who come to it
    NoAsset     \* none of Assets

ASSUME AlbumAssumption ==
    /\ IsFiniteSet(Assets) /\ NoAsset \notin Assets
    /\ MaxItems \in Nat /\ Quota \in Nat
    /\ Oversized \subseteq Assets
    /\ "open" \in Doors /\ Doors \subseteq {"open", "cancelled", "notYet", "offPlan", "eventArchived"}

VARIABLES
    hub,        \* the MemoryHub row: "live" or "archived"
    shut,       \* what keeps people out of the album, if it is not "open"
    asset,      \* Cloudinary: each file "unsigned", "signed", "stored" or "deleted"
    item,       \* MemoryItem rows
    saving,     \* what each save is about to insert
    dooming,    \* files whose deletion has been sent
    sent,       \* history: how often a save named each file: "never", "once" or "again"
    unchecked   \* history: space was taken that no check of the quota had counted

albumVars == <<hub, shut, asset, item, saving, dooming, sent, unchecked>>

Items == 1..MaxItems
Row(st, arch, a, by) == [st |-> st, arch |-> arch, asset |-> a, by |-> by]
Absent == Row("none", FALSE, NoAsset, "nobody")
Save(a, by) == [asset |-> a, by |-> by]
NoSave == Save(NoAsset, "nobody")

Rows == {i \in Items : item[i].st # "none"}

\* sumBytesForEvent: live items, the rejected ones left out.
Counted == {i \in Rows : ~item[i].arch /\ item[i].st \in {"PENDING", "APPROVED"}}
Used == Cardinality(Counted)
Approved == {i \in Counted : item[i].st = "APPROVED"}

\* What a holder of the share link is shown, a guest (who sees what awaits
\* approval too), and what the organisers may download, archived or not.
SharedView == IF hub = "live" /\ shut = "open" THEN Approved ELSE {}
GuestView == IF hub = "live" /\ shut = "open" THEN Counted ELSE {}
Downloadable == IF hub = "live" /\ shut # "offPlan" THEN Approved ELSE {}

AlbumInit ==
    /\ hub = "live" /\ shut = "open"
    /\ asset = [a \in Assets |-> "unsigned"]
    /\ item = [i \in Items |-> Absent]
    /\ saving = [u \in Uploaders |-> NoSave]
    /\ dooming = {} /\ sent = [a \in Assets |-> "never"] /\ unchecked = FALSE

------------------------------------------------------------------------------
\* The hub.

\* Archiving the event, cancelling it, its album's opening date and its plan.
ShutOrOpen ==
    /\ shut' \in Doors \ {shut}
    /\ UNCHANGED <<hub, asset, item, saving, dooming, sent, unchecked>>

ArchiveHub ==
    /\ shut # "eventArchived" /\ hub = "live" /\ hub' = "archived"
    /\ UNCHANGED <<shut, asset, item, saving, dooming, sent, unchecked>>

ReactivateHub ==
    /\ shut # "eventArchived" /\ hub = "archived" /\ hub' = "live"
    /\ UNCHANGED <<shut, asset, item, saving, dooming, sent, unchecked>>

------------------------------------------------------------------------------
\* Uploads.

OnPlan == shut # "offPlan"
GuestsWelcome == shut \notin {"eventArchived", "cancelled", "notYet"} /\ hub = "live"

\* The size of the coming file is not known yet: only a full album is refused.
RoomLeft == Used < Quota

Sign(a) ==
    /\ asset[a] = "unsigned" /\ OnPlan /\ RoomLeft
    /\ asset' = [asset EXCEPT ![a] = "signed"]
    /\ UNCHANGED <<hub, shut, item, saving, dooming, sent, unchecked>>

SignForGuest(a) == GuestsWelcome /\ Sign(a)

\* Whatever the hub's own state.
SignForOrganiser(a) == shut # "eventArchived" /\ Sign(a)

\* The browser's upload.
Upload(a) ==
    /\ asset[a] = "signed"
    /\ asset' = [asset EXCEPT ![a] = "stored"]
    /\ UNCHANGED <<hub, shut, item, saving, dooming, sent, unchecked>>

\* A check of the space that does not count the file being saved.
AcceptableByTotal(a) == a \notin Oversized /\ Used <= Quota

\* assertItemAcceptableOrDestroy, for a file of this event's folder.
Acceptable(a) == a \notin Oversized /\ Used + 1 <= Quota

Refuse(a) == dooming' = dooming \cup {a} /\ UNCHANGED saving
Accept(u, a, by) == saving' = [saving EXCEPT ![u] = Save(a, by)] /\ UNCHANGED dooming

\* A save: the client knows only that it uploaded the file.
Saves(u, a) ==
    /\ saving[u] = NoSave /\ asset[a] \in {"stored", "deleted"}
    /\ sent' = [sent EXCEPT ![a] = IF @ = "never" THEN "once" ELSE "again"]
    /\ UNCHANGED <<hub, shut, asset, item, unchecked>>

SaveByOrganiser(u, a) ==
    /\ Saves(u, a) /\ shut # "eventArchived" /\ hub = "live"
    /\ IF Acceptable(a) THEN Accept(u, a, "organiser") ELSE Refuse(a)

\* A guest's that finds the event archived since has its file deleted too.
SaveByGuest(u, a) ==
    /\ Saves(u, a)
    /\ \/ shut = "eventArchived" /\ Refuse(a)
       \/ GuestsWelcome /\ IF Acceptable(a) THEN Accept(u, a, "guest") ELSE Refuse(a)

\* An organiser's item is shown at once; a guest's waits for approval.
CreateItem(u) ==
    /\ saving[u] # NoSave
    /\ \E i \in Items \ Rows :
          /\ \A j \in Items \ Rows : i <= j
          /\ item' = [item EXCEPT ![i] = Row(IF saving[u].by = "guest" THEN "PENDING" ELSE "APPROVED",
                                             FALSE, saving[u].asset, saving[u].by)]
    /\ unchecked' = (unchecked \/ \E v \in Uploaders \ {u} : saving[v] # NoSave)
    /\ saving' = [saving EXCEPT ![u] = NoSave]
    /\ UNCHANGED <<hub, shut, asset, dooming, sent>>

\* Cloudinary's answer to a background deletion, which nobody waits for.
DestroyAnswer(a) ==
    /\ a \in dooming /\ dooming' = dooming \ {a}
    /\ asset' \in {asset, [asset EXCEPT ![a] = "deleted"]}
    /\ UNCHANGED <<hub, shut, item, saving, sent, unchecked>>

------------------------------------------------------------------------------
\* Curation.

InScope(i) == shut # "eventArchived" /\ hub = "live" /\ i \in Rows

\* A decision written as it was sent.
CurateItemUnread(i, st) ==
    /\ InScope(i) /\ ~item[i].arch /\ item[i].st # st
    /\ item' = [item EXCEPT ![i].st = IF st = "PENDING" THEN "UNDO" ELSE st]
    /\ unchecked' = (unchecked \/ item[i].st = "REJECTED")
    /\ UNCHANGED <<hub, shut, asset, saving, dooming, sent>>

\* Approving what was rejected takes space again, without a look at the quota.
CurateItem(i, st) ==
    /\ InScope(i) /\ ~item[i].arch /\ item[i].st # st
    /\ item' = [item EXCEPT ![i].st = st]
    /\ unchecked' = (unchecked \/ item[i].st = "REJECTED")
    /\ UNCHANGED <<hub, shut, asset, saving, dooming, sent>>

ArchiveItem(i) ==
    /\ InScope(i) /\ ~item[i].arch
    /\ item' = [item EXCEPT ![i].arch = TRUE]
    /\ UNCHANGED <<hub, shut, asset, saving, dooming, sent, unchecked>>

\* So does restoring one.
ReactivateItem(i) ==
    /\ InScope(i) /\ item[i].arch
    /\ item' = [item EXCEPT ![i].arch = FALSE]
    /\ unchecked' = TRUE
    /\ UNCHANGED <<hub, shut, asset, saving, dooming, sent>>

AlbumNext ==
    \/ ShutOrOpen \/ ArchiveHub \/ ReactivateHub
    \/ \E a \in Assets : SignForGuest(a) \/ SignForOrganiser(a) \/ Upload(a) \/ DestroyAnswer(a)
    \/ \E u \in Uploaders, a \in Assets : SaveByGuest(u, a) \/ SaveByOrganiser(u, a)
    \/ \E u \in Uploaders : CreateItem(u)
    \/ \E i \in Items : ArchiveItem(i) \/ ReactivateItem(i)
    \/ \E i \in Items, st \in {"PENDING", "APPROVED", "REJECTED"} : CurateItem(i, st)

AlbumSpec == AlbumInit /\ [][AlbumNext]_albumVars

------------------------------------------------------------------------------
AlbumTypeOK ==
    /\ hub \in {"live", "archived"} /\ shut \in Doors
    /\ asset \in [Assets -> {"unsigned", "signed", "stored", "deleted"}]
    /\ item \in [Items -> [st : {"none", "PENDING", "APPROVED", "REJECTED"}, arch : BOOLEAN,
                           asset : Assets \cup {NoAsset}, by : {"nobody", "guest", "organiser"}]]
    /\ saving \in [Uploaders -> [asset : Assets \cup {NoAsset}, by : {"nobody", "guest", "organiser"}]]
    /\ dooming \subseteq Assets /\ sent \in [Assets -> {"never", "once", "again"}]
    /\ unchecked \in BOOLEAN

\* The album stays within the plan's space, unless two saves were under way
\* together or an item that did not count was brought back: neither is checked.
WithinQuota == unchecked \/ Used <= Quota

\* What people are shown or may download has its file, unless a save named the
\* file more than once: then a refused save deletes the file of an item.
ShownIsStored ==
    \A i \in SharedView \cup GuestView \cup Downloadable :
        asset[item[i].asset] = "stored" \/ sent[item[i].asset] = "again"

\* The album stays within the plan's space and what it shows has its file: what
\* is saved, curated and deleted at once keeps both (memory-hub.service.ts).
AlbumKept == WithinQuota /\ ShownIsStored

\* A file whose save is refused is deleted "rather than left as an orphan
\* nobody ever references" (memory-hub.service.ts:77): no item names it.
RefusedUnreferenced == \A a \in dooming : \A i \in Rows : item[i].asset # a
=============================================================================
