------------------------------ MODULE MCEvents ------------------------------
(***************************************************************************)
(* Small instances for TLC of the modules an organiser works in, one of    *)
(* them in a behaviour (Organising).                                       *)
(***************************************************************************)
EXTENDS Organising, Sequences, TLC
LOCAL INSTANCE FiniteSetsExt
CONSTANTS
    Sat, sat, Sun,
    v1, v2, v3,                          \* spaces, the third of the platform
    ada, Ada, ben, cat, adaPhone, benPhone, nobody,
    gala, lunch

\* The initial states differ in what is of the scene alone.
OneInit ==
    /\ scene = "vendors" \/ spaceLimit = 2
    /\ scene = "payout" \/ payout = NoRow
    /\ scene = "import" \/ (file = <<>> /\ eventDays = <<>> /\ mails = {} /\ emailOnly = TRUE)
    /\ scene = "limits" \/ route = "logout"

Init == scene \in Scenes /\ OneInit /\ OrganiserInit

Spec == Init /\ [][OrganiserNext]_organiserVars

\* What changes in the scene: what a state is known by.
Seen ==
    CASE scene = "status" -> <<scene, statusVars>>
      [] scene = "creation" -> <<scene, creationVars>>
      [] scene = "content" -> <<scene, contentVars>>
      [] scene = "vendors" -> <<scene, vendorVars>>
      [] scene = "payout" -> <<scene, payoutVars>>
      [] scene = "import" -> <<scene, importVars>>
      [] scene = "limits" -> <<scene, limitVars>>

\* The same pairs of values are the sessions, the days and the events of each
\* scene, so that one exchange of each is the symmetry of all.
Symmetry == Permutations(Events) \cup Permutations(Sessions) \cup Permutations(Days)

\* Saturday in two spellings, and Sunday.
SatSatSun == (Sat :> "sat") @@ (sat :> "sat") @@ (Sun :> "sun")

\* 2.4, 2.5 and 3.4 kilometres: two bands.
Away == (v1 :> 24) @@ (v2 :> 25) @@ (v3 :> 34)

\* Three emails, one of them spelt in two ways, two phones, and a name in the
\* contact field.
WhoIs ==
    (ada :> ada) @@ (Ada :> ada) @@ (ben :> ben) @@ (cat :> cat)
      @@ (adaPhone :> adaPhone) @@ (benPhone :> benPhone) @@ (nobody :> NoContact)
DayLabel == (gala :> "gala") @@ (lunch :> "lunch")
InTemplate == (TRUE :> <<ada, ben, cat>>) @@ (FALSE :> <<ada, adaPhone, benPhone>>)
SheetRows ==
    {BlankRow,
     FileRow(TRUE, Blank, Blank, Blank), FileRow(FALSE, ada, "gala", 2), FileRow(FALSE, Ada, Blank, Blank),
     FileRow(TRUE, adaPhone, "gala", 0), FileRow(FALSE, ben, "lunch", 1), FileRow(TRUE, nobody, "gala", 0)}

\* Either the spelling of the labels is in play or the dates and the items are.
\* Past a write on a stale plan the properties of the content say nothing, so a
\* stale plan is followed no further, and two plans at once are followed only
\* when one is to create the programme;
\* nor is a tenant past its plan's limit.  One event at most holds a pass.
Small ==
    /\ \/ \A d \in Days : day[d].label # sat
       \/ (\A d \in Days : day[d].date # 2) /\ \A i \in Items : item[i].st = "none"
    /\ ~over /\ ~twin /\ moved = {} /\ Cardinality(passed) <= 1
    /\ \A e \in Editors : edit[e].stale => edit[e].op = "createProgram"
    /\ LET busy == {e \in Editors : edit[e] # NoEdit}
       IN  Cardinality(busy) < 2 \/ \E e \in busy : edit[e].op = "createProgram"

\* Two requests of the marketplace cross only to create and archive spaces, and
\* one looks after a space, or offers something, where there is no more to see.
\* A space past its limit is followed no further.
OneErrand ==
    LET busy == {c \in Clerks : errand[c] # NoErrand}
    IN  /\ (Cardinality(busy) < 2 \/ \A c \in busy : errand[c].op \in {"createSpace", "archiveSpace"})
        /\ ~uncounted
        /\ keeps # {} => spaceLimit = 2 /\ space[v1].active /\ space[v3].active
        /\ (\E o \in Offers : offer[o].state # "none") =>
              keeps = {} /\ spaceLimit = 2 /\ \A s \in {v2, v3} : space[s].state = "none"

\* What is sent to another bank is sent where no second subaccount was opened.
OneBank ==
    \A c \in Codes \ {1} : opened[c] # Unopened =>
        opened[c].bank = opened[1].bank /\ \A f \in Forms : form[f].bank \in {Unsaid, opened[1].bank}

\* A guest is added by hand only during the import of a file of up to two rows,
\* and nothing else happens during that of a longer one, nor after any.
ShortImport ==
    /\ desk.step \notin {"imported", "refused"}
    /\ hand # Blank => desk.step # "idle" /\ Len(file) <= 2
    /\ desk.step = "idle" => mails \subseteq {ben}
    /\ Len(file) > 2 => desk.step = "idle" \/ (mails = desk.known /\ eventDays = desk.days)

\* Of the routes whose chains, cut, are the same, one does for all.  A window of
\* a limiter that forgives nothing ends when none of its requests is on its way.
OneOfAKind ==
    /\ scene = "limits" =>
          route \in {"forgotPassword", "exchangeSession", "autosuggest", "program", "register", "download"}
    /\ \A i \in 1..3 : /\ FoldSet(LAMBDA k, n : n + spent[i][k], 0, Keys) <= 2
                       /\ FoldSet(LAMBDA k, n : n + hits[i][k], 0, Keys) <= 3
    /\ \A c \in Calls : \A i \in call[c].old : Chain[i].counts # "all"
=============================================================================
