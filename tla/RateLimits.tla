----------------------------- MODULE RateLimits -----------------------------
(***************************************************************************)
(* The rate limiters in front of the routes (rate-limit.middleware.ts) and *)
(* what is left of them when requests overlap.  A route has a chain of     *)
(* limiters; each counts, in a window of its own, the requests of one      *)
(* address or of one holder: an invite's token, an email, a user, a device *)
(* or an event.  The counting is express-rate-limit's, in the memory of    *)
(* one server.                                                             *)
(***************************************************************************)
EXTENDS Naturals, FiniteSets, Sequences

CONSTANTS
    Networks, Holders, \* IP addresses, one of a venue's Wi-Fi; and who asks
    Nobody,            \* a request that names no holder
    Link,              \* the event whose link or page a request is for
    Calls,             \* requests at once
    Cut                \* bound: the most any limiter lets through is cut to this

ASSUME LimitsAssumption == IsFiniteSet(Calls) /\ Cut \in Nat

VARIABLES
    route,    \* the route of this behaviour; the others count apart
    hits,     \* the counts, by place in the chain and key
    call,     \* what each request is doing
    spent,    \* history: the requests let by in a window that ended as its limiter counts
    carried   \* history: those of an earlier window that were forgiven in this one

limitVars == <<route, hits, call, spent, carried>>

\* A limiter: whose requests it counts, which of them, and how many it allows.
Limiter(by, counts, most) == [by |-> by, counts |-> counts, most |-> IF most > Cut THEN Cut ELSE most]
PerNetwork(most) == Limiter("network", "all", most)
PerHolder(most) == Limiter("holder", "all", most)
PerToken(most) == Limiter("token", "all", most)
PerLink(most) == Limiter("link", "all", most)
FailuresPerNetwork(most) == Limiter("network", "failed", most)
FailuresPerToken(most) == Limiter("token", "failed", most)
SuccessesPerLink(most) == Limiter("link", "succeeded", most)

\* The chain of a route, in the order of its router.
CodeChain ==
    [forgotPassword |-> <<PerNetwork(5), PerHolder(3)>>, requestOtp |-> <<PerNetwork(5)>>,
     verifyOtp |-> <<PerNetwork(10)>>]
SessionChain ==
    [exchangeSession |-> <<FailuresPerNetwork(30), FailuresPerToken(20)>>, logout |-> <<PerNetwork(20)>>]
DeskChain == [autosuggest |-> <<PerHolder(20)>>, signature |-> <<PerHolder(10)>>]
AlbumChain == [gallery |-> <<PerNetwork(600)>>, guestUpload |-> <<FailuresPerNetwork(100), PerToken(60)>>]
ReplyChain == [program |-> <<FailuresPerNetwork(100), PerHolder(60)>>, submit |-> <<PerHolder(20)>>]
PageChain == [guestView |-> <<FailuresPerNetwork(100), PerHolder(60)>>, ticketQuote |-> <<PerNetwork(30)>>]
PublicChain ==
    [publicEvent |-> <<PerNetwork(600)>>, register |-> <<PerNetwork(500), PerHolder(5), PerLink(300)>>]
TeamChain == [teamInvite |-> <<PerHolder(20)>>, acceptInvite |-> <<FailuresPerNetwork(30), PerToken(20)>>]
DownloadChain == [download |-> <<SuccessesPerLink(5)>>]

Chains == {CodeChain, SessionChain, DeskChain, AlbumChain, ReplyChain, PageChain, PublicChain, TeamChain, DownloadChain}
Routes == UNION {DOMAIN C : C \in Chains}
Chain == LET C == CHOOSE C \in Chains : route \in DOMAIN C IN C[route]
Places == DOMAIN Chain

\* The key of a request.  One that names no email, user or invite counts by its
\* address; those that bring no token to a limiter of tokens count together.
Keys == Networks \cup Holders \cup {Nobody, Link}
Key(i, network, holder) ==
    CASE Chain[i].by = "link" -> Link
      [] Chain[i].by = "token" -> holder
      [] Chain[i].by = "holder" /\ holder # Nobody -> holder
      [] OTHER -> network

\* passed: the last limiter that counted it, which is the one that refused it if
\* any did.  old: those in whose windows since it came another has begun.
Call(network, holder, refused, passed) ==
    [network |-> network, holder |-> holder, refused |-> refused, passed |-> passed, old |-> {}]
NoCall == Call(Nobody, Nobody, FALSE, 0)
KeyOf(c, i) == Key(i, call[c].network, call[c].holder)

LimitsInit ==
    /\ route \in Routes
    /\ hits = [i \in 1..3 |-> [k \in Keys |-> 0]] /\ spent = hits /\ carried = hits
    /\ call = [c \in Calls |-> NoCall]

------------------------------------------------------------------------------
\* A request is counted by each limiter of the chain up to one that refuses it.
Arrive(c, network, holder) ==
    LET full == {i \in Places : hits[i][Key(i, network, holder)] >= Chain[i].most}
        last == IF full = {} THEN Len(Chain) ELSE CHOOSE i \in full : \A j \in full : i <= j
    IN  /\ call[c] = NoCall
        /\ call' = [call EXCEPT ![c] = Call(network, holder, full # {}, last)]
        /\ hits' = [i \in 1..3 |-> [k \in Keys |->
              IF i <= last /\ k = Key(i, network, holder) THEN hits[i][k] + 1 ELSE hits[i][k]]]
        /\ UNCHANGED <<route, spent, carried>>

\* What a limiter forgets when a request is over: skipSuccessfulRequests and
\* skipFailedRequests.
ForgetsTheOther(i, ok) == Chain[i].counts = (IF ok THEN "succeeded" ELSE "failed")
Forgets(i, ok) == Chain[i].counts = (IF ok THEN "failed" ELSE "succeeded")

\* Forgiven, a request is taken off whatever count there is by then.
Finish(c, ok) ==
    LET counted(i, k) == i <= call[c].passed /\ k = KeyOf(c, i)
        forgiven(i, k) == counted(i, k) /\ Forgets(i, ok) /\ hits[i][k] > 0
        kept(i, k) ==
            /\ counted(i, k) /\ i \notin call[c].old /\ ~(call[c].refused /\ i = call[c].passed)
            /\ Chain[i].counts \in {"all", IF ok THEN "succeeded" ELSE "failed"}
    IN  /\ call[c] # NoCall /\ (ok => ~call[c].refused)
        /\ hits' = [i \in 1..3 |-> [k \in Keys |-> IF forgiven(i, k) THEN hits[i][k] - 1 ELSE hits[i][k]]]
        /\ spent' = [i \in 1..3 |-> [k \in Keys |-> IF kept(i, k) THEN spent[i][k] + 1 ELSE spent[i][k]]]
        /\ carried' = [i \in 1..3 |-> [k \in Keys |->
              IF forgiven(i, k) /\ i \in call[c].old THEN carried[i][k] + 1 ELSE carried[i][k]]]
        /\ call' = [call EXCEPT ![c] = NoCall]
        /\ UNCHANGED route

\* The window of a key is over, whoever is on the way, or the server starts again
\* with no count.
WindowOver(i, k) ==
    /\ hits[i][k] + spent[i][k] + carried[i][k] > 0
    /\ hits' = [hits EXCEPT ![i][k] = 0] /\ spent' = [spent EXCEPT ![i][k] = 0]
    /\ carried' = [carried EXCEPT ![i][k] = 0]
    /\ call' = [c \in Calls |-> IF call[c] # NoCall /\ i <= call[c].passed /\ KeyOf(c, i) = k
                               THEN [call[c] EXCEPT !.old = @ \cup {i}] ELSE call[c]]
    /\ UNCHANGED route

Restart ==
    /\ hits' = [i \in 1..3 |-> [k \in Keys |-> 0]] /\ spent' = hits' /\ carried' = hits'
    /\ call' = [c \in Calls |-> NoCall] /\ UNCHANGED route

LimitsNext ==
    \/ \E c \in Calls : \E network \in Networks, holder \in Holders \cup {Nobody} : Arrive(c, network, holder)
    \/ \E c \in Calls, ok \in BOOLEAN : Finish(c, ok)
    \/ \E i \in Places, k \in Keys : WindowOver(i, k)
    \/ Restart

LimitsSpec == LimitsInit /\ [][LimitsNext]_limitVars

------------------------------------------------------------------------------
LimitsTypeOK ==
    /\ route \in Routes /\ hits \in [1..3 -> [Keys -> Nat]] /\ spent \in [1..3 -> [Keys -> Nat]]
    /\ carried \in [1..3 -> [Keys -> Nat]]
    /\ call \in [Calls -> [network : Networks \cup {Nobody}, holder : Holders \cup {Nobody},
                           refused : BOOLEAN, passed : 0..3, old : SUBSET (1..3)]]

\* The requests a limiter counted in this window of a key and that are not over,
\* and those of them that it let by.
OnTheirWay(i, k) ==
    {c \in Calls : call[c] # NoCall /\ i <= call[c].passed /\ KeyOf(c, i) = k /\ i \notin call[c].old}
LetBy(i, k) == {c \in OnTheirWay(i, k) : ~(call[c].refused /\ call[c].passed = i)}

\* A limiter is one: however requests of a key overlap, fail, succeed or outlive
\* their window, those it lets by in one window and that end as it counts, with
\* those that still may, are no more than it allows, and one for each request of
\* an earlier window that was forgiven at this one's cost.  So all guesses at a
\* code or a token sent at once are held to what they would be one by one.
AtMostAllowed ==
    \A i \in Places, k \in Keys : spent[i][k] + Cardinality(LetBy(i, k)) <= Chain[i].most + carried[i][k]
=============================================================================
