---------------------------- MODULE EventContent ----------------------------
(***************************************************************************)
(* The days and the programme of one event, edited part by part            *)
(* (event-day.service.ts, event-program.service.ts,                        *)
(* program-item.service.ts) and all at once (event-full-update.service.ts).*)
(*                                                                         *)
(* A request checks what it will write against what it has read, and       *)
(* writes in a later step.  The full update plans from one read too: it    *)
(* takes the event's row lock for its transaction only, after the plan is  *)
(* made, and no other editor takes that lock, so the transaction is one    *)
(* step that applies a plan which may be out of date.  Dates are whole     *)
(* days; an item's start is the date it falls on.  Fold is what trimming   *)
(* and lowering the case make of a label.                                  *)
(***************************************************************************)
EXTENDS Naturals, FiniteSets

CONSTANTS
    Days,       \* EventDay ids
    Items,      \* ProgramItem ids
    Labels,     \* day labels, as they are stored
    Fold,       \* [Labels -> what they are compared by]
    Dates,      \* dates of days and of items
    Editors,    \* requests that can be in progress at once
    Savers,     \* those of them that may be full updates
    Unset       \* SQL NULL

ASSUME ContentAssumption ==
    /\ IsFiniteSet(Days) /\ Savers \subseteq Editors
    /\ DOMAIN Fold = Labels /\ Dates \subseteq Nat
    /\ Unset \notin Days \cup Items \cup Dates

VARIABLES
    day,        \* EventDay rows
    item,       \* ProgramItem rows
    program,    \* the event's one EventProgram row: "none", "live" or "archived"
    edit,       \* what each request has planned
    moved,      \* history: days re-dated with no look at their items, or by or past a stale plan
    twin        \* history: a day was written on a stale check

contentVars == <<day, item, program, edit, moved, twin>>
dayVars == <<day, twin>>

Day(st, label, date) == [st |-> st, label |-> label, date |-> date]
Item(st, d, start) == [st |-> st, day |-> d, start |-> start]

LiveDays == {d \in Days : day[d].st = "live"}
LiveItems == {i \in Items : item[i].st = "live"}

\* A plan: the operation, the rows it is about, what it will write, and
\* whether something has been written since it was made.
Plan(op, d, i, days, items) ==
    [op |-> op, day |-> d, item |-> i, days |-> days, items |-> items, stale |-> FALSE]
NoEdit == Plan("idle", Unset, Unset, Unset, Unset)

ContentInit ==
    /\ day = [d \in Days |-> Day("none", Unset, Unset)]
    /\ item = [i \in Items |-> Item("none", Unset, Unset)]
    /\ program = "none"
    /\ edit = [e \in Editors |-> NoEdit]
    /\ moved = {} /\ twin = FALSE

\* Ids no row has, and no request has drawn for a row it will insert.
FreeDays == {d \in Days : /\ day[d].st = "none" /\ \A f \in Editors :
                            edit[f].day # d /\ (edit[f].op = "full" => d \notin DOMAIN edit[f].days)}
FreeItems == {i \in Items : /\ item[i].st = "none" /\ \A f \in Editors :
                              /\ edit[f].item # i
                              /\ edit[f].op = "full" /\ edit[f].items # Unset => i \notin DOMAIN edit[f].items}

Start(e, p) == edit[e] = NoEdit /\ edit' = [edit EXCEPT ![e] = p]

\* The end of a request that wrote: the plans made before it are stale.
Land(e) == edit' = [f \in Editors |-> IF f = e \/ edit[f] = NoEdit THEN NoEdit
                                      ELSE [edit[f] EXCEPT !.stale = TRUE]]

\* The end of a request the database refused.
Refused(e) ==
    /\ edit' = [edit EXCEPT ![e] = NoEdit]
    /\ UNCHANGED <<day, item, program, moved, twin>>

\* An item with a day starts on it; an item with none needs an event of one day.
StartsOnItsDay(d, start) == d # Unset => start = day[d].date
HasDay(d, n) == d = Unset => n <= 1

------------------------------------------------------------------------------
\* Days.

\* assertNoDuplicateDayLabel: unique among the live days, ignoring case.
NoDuplicateLabel(label, self) == \A d \in LiveDays \ {self} : Fold[day[d].label] # Fold[label]

\* The unique (eventId, label), which counts archived days too.
LabelsIndexed(rows) ==
    \A d, e \in Days : /\ rows[d].st # "none" /\ rows[e].st # "none"
                       /\ rows[d].label = rows[e].label => d = e

WriteDays(e, rows, unjudged) ==
    IF LabelsIndexed(rows)
    THEN /\ day' = rows
         /\ moved' = moved \cup {d \in Days : /\ day[d].st # "none" /\ rows[d].date # day[d].date
                                              /\ unjudged \/ edit[e].stale}
         /\ twin' = (twin \/ edit[e].stale)
         /\ Land(e)
         /\ UNCHANGED <<item, program>>
    ELSE Refused(e)

CreateDayCheck(e, d, label, date) ==
    /\ d \in FreeDays
    /\ NoDuplicateLabel(label, Unset)
    /\ Start(e, Plan("createDay", d, Unset, Day("live", label, date), Unset))
    /\ UNCHANGED <<dayVars, item, program, moved>>

\* The plain update of a day does not look at the items on it.
UpdateDayCheck(e, d, label, date) ==
    /\ day[d].st = "live"
    /\ NoDuplicateLabel(label, d)
    /\ Start(e, Plan("updateDay", d, Unset, Day("live", label, date), Unset))
    /\ UNCHANGED <<dayVars, item, program, moved>>

WriteDay(e) ==
    LET p == edit[e]
    IN  \/ /\ p.op = "createDay"
           /\ WriteDays(e, [day EXCEPT ![p.day] = p.days], TRUE)
        \/ /\ p.op = "updateDay"
           /\ WriteDays(e, [day EXCEPT ![p.day] = Day(day[p.day].st, p.days.label, p.days.date)], TRUE)

\* An archived day keeps its row, its label and its items.
ArchiveDay(d) ==
    /\ day[d].st = "live"
    /\ day' = [day EXCEPT ![d] = Day("archived", day[d].label, day[d].date)]
    /\ edit' = [f \in Editors |-> IF edit[f] = NoEdit THEN NoEdit ELSE [edit[f] EXCEPT !.stale = TRUE]]
    /\ UNCHANGED <<item, program, moved, twin>>

------------------------------------------------------------------------------
\* The programme and its items.

CreateProgramCheck(e) ==
    /\ program # "live"
    /\ Start(e, Plan("createProgram", Unset, Unset, Unset, Unset))
    /\ UNCHANGED <<dayVars, item, program, moved>>

\* The unique eventId: the second of two, or one after an archive, fails.
CreateProgram(e) ==
    /\ edit[e].op = "createProgram"
    /\ IF program = "none"
       THEN program' = "live" /\ Land(e) /\ UNCHANGED <<dayVars, item, moved>>
       ELSE Refused(e)

ArchiveProgram ==
    /\ program = "live" /\ program' = "archived"
    /\ UNCHANGED <<dayVars, item, edit, moved>>

CreateItemCheck(e, i, d, start) ==
    /\ program = "live" /\ i \in FreeItems
    /\ d # Unset => d \in LiveDays
    /\ StartsOnItsDay(d, start) /\ HasDay(d, Cardinality(LiveDays))
    /\ Start(e, Plan("writeItem", Unset, i, Unset, Item("live", d, start)))
    /\ UNCHANGED <<dayVars, item, program, moved>>

\* An update that does not judge the item it leaves behind.
UpdateItemUnjudged(e, i, d, start) ==
    /\ program = "live" /\ i \in LiveItems
    /\ d \notin {item[i].day, Unset} => d \in LiveDays
    /\ Start(e, Plan("writeItem", Unset, i, Unset, Item("live", d, start)))
    /\ UNCHANGED <<dayVars, item, program, moved>>

\* A day that is sent is a live one; what is left out keeps the stored value.
\* The item it leaves is judged if its start or its day changes, and against
\* its stored day only while that is live.
UpdateItemCheck(e, i, d, start) ==
    /\ program = "live" /\ i \in LiveItems
    /\ d \notin {item[i].day, Unset} => d \in LiveDays
    /\ d = Unset /\ item[i].day # Unset => HasDay(d, Cardinality(LiveDays))
    /\ d \in LiveDays /\ <<d, start>> # <<item[i].day, item[i].start>> => StartsOnItsDay(d, start)
    /\ Start(e, Plan("writeItem", Unset, i, Unset, Item("live", d, start)))
    /\ UNCHANGED <<dayVars, item, program, moved>>

WriteItem(e) ==
    /\ edit[e].op = "writeItem"
    /\ LET i == edit[e].item  new == edit[e].items
       IN  /\ item' = [item EXCEPT ![i] = IF @.st = "archived" THEN Item("archived", new.day, new.start) ELSE new]
           /\ moved' = IF edit[e].stale THEN moved \cup ({new.day} \ {Unset}) ELSE moved
    /\ Land(e)
    /\ UNCHANGED <<dayVars, program>>

ArchiveItem(i) ==
    /\ i \in LiveItems
    /\ item' = [item EXCEPT ![i].st = "archived"]
    /\ edit' = [f \in Editors |-> IF edit[f] = NoEdit THEN NoEdit ELSE [edit[f] EXCEPT !.stale = TRUE]]
    /\ UNCHANGED <<dayVars, program, moved>>

------------------------------------------------------------------------------
\* The full update.  to[d] is what the edited event says of the day d, its[i]
\* of the item i: Unset when it is not in the list, which archives it.  The
\* items may be left out altogether.

Kept(to) == {d \in DOMAIN to : to[d] # Unset}

\* Only what differs from the read is written.
PlannedDays(to) ==
    LET now == [d \in DOMAIN to |-> IF to[d] # Unset THEN Day("live", to[d][1], to[d][2])
                                    ELSE IF day[d].st = "live" THEN Day("archived", day[d].label, day[d].date)
                                    ELSE day[d]]
    IN  [d \in {x \in DOMAIN to : now[x] # day[x]} |-> now[d]]

\* The items of an archived programme are not read, so not archived either.
PlannedItems(its) ==
    LET now == [i \in DOMAIN its |-> IF its[i] # Unset THEN Item("live", its[i][1], its[i][2])
                                     ELSE IF item[i].st = "live" THEN Item("archived", item[i].day, item[i].start)
                                     ELSE item[i]]
    IN  [i \in {x \in DOMAIN its : program # "archived" /\ now[x] # item[x]} |-> now[i]]

\* A saved item is judged when its start, its day or that day's date changes;
\* one that keeps a day this save archives has nothing to match.
ItemAllowed(i, d, start, to) ==
    LET fresh == item[i].st = "none"
        redated == d \in LiveDays /\ d \in Kept(to) /\ to[d][2] # day[d].date
    IN  /\ d \in Kept(to) \cup {Unset} \/ (~fresh /\ d = item[i].day)
        /\ d = Unset /\ (fresh \/ item[i].day # Unset) => HasDay(d, Cardinality(Kept(to)))
        /\ d \in Kept(to) /\ (fresh \/ redated \/ <<d, start>> # <<item[i].day, item[i].start>>)
             => start = to[d][2]

FullUpdateCheck(e, to, its) ==
    LET sent == its # Unset
    IN  /\ \A c, d \in Kept(to) : Fold[to[c][1]] = Fold[to[d][1]] => c = d
        /\ sent => /\ program = "archived" => \A i \in DOMAIN its : its[i] = Unset
                   /\ \A i \in DOMAIN its :
                        its[i] # Unset => ItemAllowed(i, its[i][1], its[i][2], to)
        /\ LET ds == PlannedDays(to)  is == IF sent THEN PlannedItems(its) ELSE Unset
           IN  /\ DOMAIN ds # {} \/ (sent /\ DOMAIN is # {})
               /\ Start(e, Plan("full", Unset,
                      IF sent /\ program = "none" /\ DOMAIN is # {} THEN "createProgram" ELSE Unset, ds, is))
    /\ UNCHANGED <<dayVars, item, program, moved>>

\* What the transaction leaves of the days: an archived row keeps what it has.
AppliedDays(p) ==
    [d \in Days |-> IF d \notin DOMAIN p.days THEN day[d]
                    ELSE IF p.days[d].st = "archived" THEN Day("archived", day[d].label, day[d].date)
                    ELSE Day(IF day[d].st = "archived" THEN "archived" ELSE "live", p.days[d].label, p.days[d].date)]

AppliedItems(p) ==
    [i \in Items |-> IF p.items = Unset \/ i \notin DOMAIN p.items THEN item[i]
                     ELSE IF p.items[i].st = "archived" THEN Item("archived", item[i].day, item[i].start)
                     ELSE Item(IF item[i].st = "archived" THEN "archived" ELSE "live", p.items[i].day, p.items[i].start)]

\* All or nothing: labels go through a placeholder, so two days may swap
\* theirs, but not take one that an archived day still holds.
FullUpdate(e) ==
    /\ edit[e].op = "full"
    /\ LET p == edit[e]  rows == AppliedDays(p)
       IN  IF LabelsIndexed(rows) /\ (p.item = "createProgram" => program = "none")
           THEN /\ day' = rows
                /\ item' = AppliedItems(p)
                /\ program' = IF p.item = "createProgram" THEN "live" ELSE program
                /\ moved' = moved
                     \cup {d \in Days : day[d].st # "none" /\ rows[d].date # day[d].date
                                         /\ (p.items = Unset \/ p.stale)}
                     \cup (IF p.stale /\ p.items # Unset
                           THEN {p.items[i].day : i \in DOMAIN p.items} \ {Unset} ELSE {})
                /\ twin' = (twin \/ (p.stale /\ DOMAIN p.days # {}))
                /\ Land(e)
           ELSE Refused(e)

DayInputs(d) == IF d \notin LiveDays \cup FreeDays THEN {Unset} ELSE {Unset} \cup (Labels \X Dates)
ItemInputs(i) == IF i \notin LiveItems \cup FreeItems THEN {Unset} ELSE {Unset} \cup ((Days \cup {Unset}) \X Dates)
DayLists == {to \in [Days -> {Unset} \cup (Labels \X Dates)] : \A d \in Days : to[d] \in DayInputs(d)}
ItemLists == {its \in [Items -> {Unset} \cup ((Days \cup {Unset}) \X Dates)] :
                \A i \in Items : its[i] \in ItemInputs(i)}

ContentNext ==
    \/ ArchiveProgram
    \/ \E d \in Days : ArchiveDay(d)
    \/ \E i \in Items : ArchiveItem(i)
    \/ \E e \in Editors :
          \/ \E d \in Days, l \in Labels, t \in Dates : CreateDayCheck(e, d, l, t) \/ UpdateDayCheck(e, d, l, t)
          \/ WriteDay(e)
          \/ CreateProgramCheck(e) \/ CreateProgram(e)
          \/ \E i \in Items, d \in Days \cup {Unset}, t \in Dates :
                CreateItemCheck(e, i, d, t) \/ UpdateItemCheck(e, i, d, t)
          \/ WriteItem(e)
    \/ \E e \in Savers :
          \/ /\ edit[e] = NoEdit
             /\ \E to \in DayLists, its \in ItemLists \cup {Unset} : FullUpdateCheck(e, to, its)
          \/ FullUpdate(e)

ContentSpec == ContentInit /\ [][ContentNext]_contentVars

------------------------------------------------------------------------------
\* What a guest invited to the day d is shown of it (getProgramForInvite): the
\* day's items, those without a day that start on its date, and those without
\* a day whose date is no day's at all.
GuestItems(d) ==
    {i \in LiveItems :
        \/ item[i].day = d
        \/ item[i].day = Unset /\ item[i].start = day[d].date
        \/ item[i].day = Unset /\ \A c \in LiveDays : day[c].date # item[i].start}

DayRows == {Day(st, l, t) : st \in {"live", "archived"}, l \in Labels, t \in Dates}
              \cup {Day("none", Unset, Unset)}
ItemRows == {Item(st, d, t) : st \in {"live", "archived"}, d \in Days \cup {Unset}, t \in Dates}
              \cup {Item("none", Unset, Unset)}

ContentTypeOK ==
    /\ \A d \in Days : day[d] \in DayRows
    /\ \A i \in Items : item[i] \in ItemRows
    /\ program \in {"none", "live", "archived"}
    /\ \A e \in Editors : edit[e].op \in {"idle", "createDay", "updateDay", "createProgram", "writeItem", "full"}
    /\ moved \subseteq Days /\ twin \in BOOLEAN

\* The database's index alone would let "Saturday" stand beside "saturday".
LabelsDistinct ==
    twin \/ \A c, d \in LiveDays : Fold[day[c].label] = Fold[day[d].label] => c = d

ProgramOnItsDay ==
    program = "live" =>
        \A d \in LiveDays \ moved : \A i \in GuestItems(d) :
            \/ item[i].start = day[d].date
            \/ item[i].day = Unset /\ \A c \in LiveDays : day[c].date # item[i].start

\* A day reads as one day: its label is no other live day's, ignoring case, and
\* an item stands under it only if it starts on its date or on no day's; as long
\* as no day was written on a check that something had made stale, or given
\* another date with no look at its items.
ProgrammeKept == LabelsDistinct /\ ProgramOnItsDay
=============================================================================
