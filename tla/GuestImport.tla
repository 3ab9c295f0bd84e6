----------------------------- MODULE GuestImport -----------------------------
(***************************************************************************)
(* Importing a guest list from a file (guest-import.engine.ts and          *)
(* guest.service.ts), while guests are added one at a time and the event's *)
(* days and guests change.  A contact as typed has a normal form, the      *)
(* guest it stands for; the event lock, the plan's limit and what becomes  *)
(* of the guests are modelled in Registration.                             *)
(***************************************************************************)
EXTENDS Naturals, FiniteSets, Sequences

CONSTANTS
    Emails, Phones,      \* contacts in normal form
    NoContact,           \* what the rest comes to: not a contact, or a national number
    Typed,               \* what is typed into a contact field or cell
    Who,                 \* the normal form of each, or Refused
    Examples,            \* the template's three contacts, with the sms feature off or on
    EventDays, Label,    \* the event's days, with their labels folded to lower case
    Blank,               \* an empty cell
    MaxPlusOnes,         \* MAX_PLUS_ONES_ALLOWED
    MaxRows,             \* MAX_IMPORT_ROWS
    Cells,               \* bound: the rows files are made of
    MaxFile              \* bound: the rows of a file

ASSUME ImportAssumption ==
    /\ Who \in [Typed -> Emails \cup Phones \cup {NoContact}] /\ NoContact \notin Emails \cup Phones \cup EventDays
    /\ DOMAIN Label = EventDays /\ IsFiniteSet(EventDays) /\ (\A d \in EventDays : Label[d] # Blank) /\ Blank \notin Typed
    /\ \A r \in Cells : r.contact \in Typed \cup {Blank}
    /\ MaxPlusOnes \in Nat \ {0} /\ MaxRows \in Nat /\ MaxFile \in Nat

\* The examples are three guests, each to be reached as the feature lets them.
ASSUME ExamplesAssumption ==
    \A o \in BOOLEAN :
        /\ Examples[o] \in [1..3 -> Typed]
        /\ \A i \in 1..3 : Who[Examples[o][i]] \in (IF o THEN Emails ELSE Emails \cup Phones)
        /\ \A i, j \in 1..3 : Who[Examples[o][i]] = Who[Examples[o][j]] => i = j

VARIABLES
    file,      \* the rows uploaded
    emailOnly, \* the sms feature is off
    eventDays, \* the event's live days, as the import lists them
    mails,     \* the emails of the event's live guests
    desk,      \* the import: its step, what it read, and what its rows came to
    hand       \* guestService.create: Blank, or the email it found free

importVars == <<file, emailOnly, eventDays, mails, desk, hand>>

FileRow(named, contact, day, plusOnes) == [named |-> named, contact |-> contact, day |-> day, plusOnes |-> plusOnes]
BlankRow == FileRow(FALSE, Blank, Blank, Blank)
Desk(step, days, known) ==
    [step |-> step, days |-> days, known |-> known, seen |-> {}, valid |-> <<>>, failures |-> {}]

\* The example rows of the template for an event's days (guest-template.util.ts).
DayName(i, days) == IF Len(days) = 0 THEN Blank ELSE Label[days[IF i <= Len(days) THEN i ELSE 1]]
TemplateOf(days, onlyEmails) ==
    LET contact == Examples[onlyEmails]
    IN  <<FileRow(TRUE, contact[1], DayName(1, days), 1),
          FileRow(TRUE, contact[2], DayName(2, days), 0),
          FileRow(FALSE, contact[3], DayName(1, days), 0)>>

\* The files a host may send: any few rows.
Files == UNION {[1..n -> Cells] : n \in 0..MaxFile}

ImportInit ==
    /\ emailOnly \in BOOLEAN
    /\ eventDays \in UNION {[1..n -> EventDays] : n \in 0..Cardinality(EventDays)}
    /\ \A i, j \in DOMAIN eventDays : eventDays[i] = eventDays[j] => i = j
    /\ file \in Files \cup {TemplateOf(eventDays, emailOnly)}
    /\ mails \in SUBSET Emails
    /\ desk = Desk("idle", <<>>, {}) /\ hand = Blank

------------------------------------------------------------------------------
\* importGuests, before its rows.

\* parseImportFile: blank rows are dropped, and too many or none refused.
Rows == {i \in DOMAIN file : file[i] # BlankRow}

\* validateImportRows.
Contact(r) == IF r.contact = Blank THEN NoContact ELSE Who[r.contact]

\* The day a row is for: with one day alone a blank is that one, and of two
\* days with one label it is the later.
DayOf(r, days) ==
    IF r.day = Blank THEN IF Len(days) = 1 THEN days[1] ELSE NoContact
    ELSE LET named == {i \in DOMAIN days : Label[days[i]] = r.day}
         IN  IF named = {} THEN NoContact ELSE days[CHOOSE i \in named : \A j \in named : j <= i]

PlusOnes(r) == IF r.plusOnes = Blank THEN 0 ELSE r.plusOnes

\* A row that could be a guest, whatever the others are.
Sound(r, days) ==
    /\ Contact(r) # NoContact /\ (emailOnly => Contact(r) \in Emails)
    /\ DayOf(r, days) # NoContact /\ PlusOnes(r) <= MaxPlusOnes

\* A row that fails takes its contact all the same.
FailsSeen(d, i) == [d EXCEPT !.failures = @ \cup {i}, !.seen = @ \cup ({Contact(file[i])} \ {NoContact})]

Fails(d, i) == [d EXCEPT !.failures = @ \cup {i}]

Accepts(d, i) ==
    [d EXCEPT !.seen = @ \cup {Contact(file[i])},
              !.valid = Append(@, [n |-> i, who |-> Contact(file[i]), day |-> DayOf(file[i], d.days),
                                   plusOnes |-> PlusOnes(file[i])])]

NextRow(d, i) ==
    IF ~Sound(file[i], d.days) \/ Contact(file[i]) \in d.known \cup d.seen THEN Fails(d, i) ELSE Accepts(d, i)

\* What the rows up to each of the file come to.
Validated[i \in 0..Len(file)] ==
    IF i = 0 THEN Desk("rows", eventDays, mails)
    ELSE IF i \in Rows THEN NextRow(Validated[i - 1], i) ELSE Validated[i - 1]

\* importGuests, up to its lock.
ImportRead ==
    /\ desk.step = "idle" /\ Cardinality(Rows) \in 1..MaxRows
    /\ desk' = Validated[Len(file)]
    /\ UNCHANGED <<file, emailOnly, eventDays, mails, hand>>

\* bulkCreateWithInvites: all of them, or none if an email was taken meanwhile;
\* with no valid row nothing is written.
Imported == {desk.valid[i].who : i \in DOMAIN desk.valid} \cap Emails

ImportWrite ==
    /\ desk.step = "rows"
    /\ \/ Imported \cap mails = {} /\ mails' = mails \cup Imported /\ desk' = [desk EXCEPT !.step = "imported"]
       \/ Imported \cap mails # {} /\ UNCHANGED mails /\ desk' = [desk EXCEPT !.step = "refused"]
    /\ UNCHANGED <<file, emailOnly, eventDays, hand>>

------------------------------------------------------------------------------
\* Meanwhile.

\* create, up to its lock: the email of a guest with one is looked for.
AddRead(c) ==
    /\ hand = Blank /\ Who[c] \in Emails \ mails /\ hand' = Who[c]
    /\ UNCHANGED <<file, emailOnly, eventDays, mails, desk>>

\* The unique index has the last word.
CreateWithInvite ==
    /\ hand # Blank /\ mails' = mails \cup {hand} /\ hand' = Blank
    /\ UNCHANGED <<file, emailOnly, eventDays, desk>>

ArchiveMail(e) ==
    /\ e \in mails /\ mails' = mails \ {e}
    /\ UNCHANGED <<file, emailOnly, eventDays, desk, hand>>

\* What the import goes by is what it read.
ArchiveEventDay ==
    /\ Len(eventDays) > 0 /\ eventDays' = Tail(eventDays)
    /\ UNCHANGED <<file, emailOnly, mails, desk, hand>>

ImportNext ==
    \/ ImportRead \/ ImportWrite
    \/ CreateWithInvite \/ ArchiveEventDay
    \/ \E c \in Typed : AddRead(c)
    \/ \E e \in Emails : ArchiveMail(e)

ImportSpec == ImportInit /\ [][ImportNext]_importVars

------------------------------------------------------------------------------
ImportTypeOK ==
    /\ mails \subseteq Emails /\ emailOnly \in BOOLEAN
    /\ desk.step \in {"idle", "rows", "imported", "refused"}
    /\ desk.known \subseteq Emails /\ desk.seen \subseteq Emails \cup Phones

\* What the file comes to by itself: of the rows that could be a guest, the
\* first with each contact, unless a guest already has that email.
FirstOfEach ==
    {i \in Rows :
        LET who == Contact(file[i])
        IN  /\ Sound(file[i], desk.days) /\ who \notin desk.known
            /\ \A j \in Rows : j < i /\ Contact(file[j]) = who => ~Sound(file[j], desk.days)}

\* The guests an import makes are those, in the order of the file, and each
\* other row is reported by the number it has there.
EachRowOnce ==
    desk.step # "idle" =>
        /\ {desk.valid[i].n : i \in DOMAIN desk.valid} = FirstOfEach
        /\ \A i, j \in DOMAIN desk.valid : i < j => desk.valid[i].n < desk.valid[j].n
        /\ desk.failures = Rows \ FirstOfEach

\* The template's own examples are rows the import takes, whatever the event's
\* days are and however guests may be reached, if no guest has one of their
\* emails.
TemplateImports ==
    file = TemplateOf(desk.days, emailOnly) /\ desk.days # <<>> /\ desk.step # "idle"
      /\ (\A i \in 1..3 : Who[file[i].contact] \notin desk.known)
    => desk.failures = {}

\* Each row of a file becomes one guest or one line of the report: none is lost,
\* none counts twice, one that fails does not keep its contact from a later one,
\* and nothing in the template has to be put right first.
ImportKept == EachRowOnce /\ TemplateImports
=============================================================================
