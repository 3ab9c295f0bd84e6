------------------------- MODULE SubscriptionProofs -------------------------
(***************************************************************************)
(* Theorems about Subscription, for every number of subscriptions,         *)
(* checkouts and concurrent requests, and for every combination of faults. *)
(***************************************************************************)
EXTENDS Subscription, FiniteSetTheorems, SequenceTheorems, TLAPS

-----------------------------------------------------------------------------
(* Types.                                                                  *)

\* What a worker can be doing.
LEMMA JobTypes ==
    /\ Idle \in Jobs
    /\ \A p \in 0..TopPlan : Request("save", "subscribe", p, None) \in Jobs
    /\ \A p \in 0..TopPlan, k \in {"upgrade", "end"}, c \in Codes :
          Request("disable", k, p, c) \in Jobs
    /\ \A j \in Jobs, r \in Refs : [j EXCEPT !.step = "open", !.ref = r] \in Jobs
    /\ \A j \in Jobs, s \in {"create", "schedule"} : [j EXCEPT !.step = s] \in Jobs
<1>1. 0 \in 0..TopPlan
  BY ConstantsAssumption
<1>2. /\ Idle \in Jobs
      /\ \A p \in 0..TopPlan : Request("save", "subscribe", p, None) \in Jobs
      /\ \A p \in 0..TopPlan, k \in {"upgrade", "end"}, c \in Codes :
            Request("disable", k, p, c) \in Jobs
  BY <1>1 DEF Idle, Request, Jobs, JobRecords
<1>3. ASSUME NEW j \in Jobs, NEW r \in Refs
      PROVE  [j EXCEPT !.step = "open", !.ref = r] \in Jobs
  BY DEF Jobs, JobRecords
<1>4. ASSUME NEW j \in Jobs, NEW s \in {"create", "schedule"}
      PROVE  [j EXCEPT !.step = s] \in Jobs
  BY DEF Jobs, JobRecords
<1> QED
  BY <1>2, <1>3, <1>4

\* The events Paystack emits.
LEMMA EventTypes ==
    /\ \A n \in {"charge.success", "charge.failed"}, r \in Refs \cup {None} :
          Event(n, r, None) \in Events
    /\ \A n \in {"subscription.create", "subscription.disable"}, c \in Codes :
          Event(n, None, c) \in Events
BY DEF Event, Events, EventRecords

\* An event is added, two are, or one is taken out.
LEMMA Emitted ==
    ASSUME NEW s \in Seq(Events), NEW e \in Events
    PROVE  Append(s, e) \in Seq(Events) /\ s \o <<e>> \in Seq(Events)
<1>1. <<e>> \in Seq(Events)
  OBVIOUS
<1> QED
  BY <1>1, AppendProperties, ConcatProperties

LEMMA EmittedTwo ==
    ASSUME NEW s \in Seq(Events), NEW e \in Events, NEW f \in Events
    PROVE  s \o <<e, f>> \in Seq(Events)
<1>1. <<e, f>> \in Seq(Events)
  OBVIOUS
<1> QED
  BY <1>1, ConcatProperties

LEMMA TakenOut ==
    ASSUME NEW s \in Seq(Events), NEW k \in DOMAIN s
    PROVE  RemoveAt(s, k) \in Seq(Events) /\ s[k] \in Events
<1>1. k \in 1..Len(s) /\ Len(s) \in Nat /\ \A i \in 1..Len(s) : s[i] \in Events
  OBVIOUS
<1>2. SubSeq(s, 1, k - 1) \in Seq(Events)
  <2>1. 1 \in Int /\ k - 1 \in Int /\ \A i \in 1..(k - 1) : s[i] \in Events
    BY <1>1
  <2> QED
    BY <2>1, SubSeqProperties
<1>3. SubSeq(s, k + 1, Len(s)) \in Seq(Events)
  <2>1. k + 1 \in Int /\ Len(s) \in Int /\ \A i \in (k + 1)..Len(s) : s[i] \in Events
    BY <1>1
  <2> QED
    BY <2>1, SubSeqProperties
<1> QED
  BY <1>1, <1>2, <1>3, ConcatProperties DEF RemoveAt

LEMMA InitTypeOK == Init => TypeOK
<1> SUFFICES ASSUME Init PROVE TypeOK
  OBVIOUS
<1>1. job \in [Workers -> Jobs]
  BY JobTypes DEF Init
<1>2. page \in [Refs -> Pages] /\ plan \in 0..TopPlan /\ now \in 0..MaxTime
  BY ConstantsAssumption DEF Init, Pages
<1>3. subs \in [Codes -> SubRecords]
  BY ConstantsAssumption DEF Init, SubRecords
<1>4. events \in Seq(Events) /\ hit \in SUBSET Faults /\ refresh \in SUBSET Codes
  BY DEF Init
<1>5. cancelled \in BOOLEAN /\ known \in BOOLEAN
  BY Zenon DEF Init
<1>6. /\ code \in Codes \cup {None} /\ endsAt \in 0..MaxTime + Period \cup {None}
      /\ graceAt \in 0..MaxTime \cup {None} /\ pending \in Refs \cup {None}
  BY DEF Init
<1> QED
  BY <1>1, <1>2, <1>3, <1>4, <1>5, <1>6 DEF TypeOK

\* A request's own steps.
LEMMA RequestTypeOK ==
    ASSUME TypeOK, NEW w \in Workers,
           \/ \E p \in 1..TopPlan : SubscribeRead(w, p) \/ UpgradeRead(w, p)
           \/ \E r \in Refs : SubscribeSave(w, r)
           \/ SubscribeOpens(w) \/ SubscribeFails(w) \/ EndRead(w)
           \/ Schedule(w) \/ Abort(w)
    PROVE  TypeOK'
<1> USE DEF TypeOK
<1>0. 0 \in 0..TopPlan /\ \A p \in 1..TopPlan : p \in 0..TopPlan
  BY ConstantsAssumption
<1>1. ASSUME NEW p \in 1..TopPlan, SubscribeRead(w, p) PROVE TypeOK'
  BY <1>0, <1>1, JobTypes DEF SubscribeRead, rowVars, payVars
<1>2. ASSUME NEW p \in 1..TopPlan, UpgradeRead(w, p) PROVE TypeOK'
  BY <1>0, <1>2, JobTypes DEF UpgradeRead, HasActiveSubscription, rowVars, payVars
<1>3. ASSUME NEW r \in Refs, SubscribeSave(w, r) PROVE TypeOK'
  <2>1. job[w] \in Jobs /\ job[w].plan \in 0..TopPlan
    BY DEF Jobs, JobRecords
  <2>2. page' \in [Refs -> Pages]
    BY <1>3, <2>1 DEF SubscribeSave, Pages
  <2>3. job' = [job EXCEPT ![w] = [job[w] EXCEPT !.step = "open", !.ref = r]]
    BY <1>3 DEF SubscribeSave
  <2>4. job' \in [Workers -> Jobs]
    BY <2>1, <2>3, JobTypes
  <2> QED
    BY <1>3, <2>2, <2>4 DEF SubscribeSave
<1>4. ASSUME SubscribeOpens(w) PROVE TypeOK'
  <2>1. page' \in [Refs -> Pages]
    BY <1>4 DEF SubscribeOpens, Pages
  <2> QED
    BY <1>4, <2>1, JobTypes DEF SubscribeOpens, rowVars
<1>5. ASSUME SubscribeFails(w) PROVE TypeOK'
  BY <1>5, JobTypes DEF SubscribeFails, payVars
<1>6. ASSUME EndRead(w) PROVE TypeOK'
  BY <1>0, <1>6, JobTypes DEF EndRead, HasActiveSubscription, rowVars, payVars
<1>7. ASSUME Schedule(w) PROVE TypeOK'
  <2>1. cancelled' \in BOOLEAN
    BY <1>7, Zenon DEF Schedule
  <2> QED
    BY <1>7, <2>1, JobTypes DEF Schedule, payVars
<1>8. ASSUME Abort(w) PROVE TypeOK'
  BY <1>8, JobTypes DEF Abort, rowVars, payVars
<1> QED
  BY <1>1, <1>2, <1>3, <1>4, <1>5, <1>6, <1>7, <1>8

\* What a subscription record becomes.
LEMMA SubTypes ==
    ASSUME subs \in [Codes -> SubRecords], NEW c \in Codes, now \in 0..MaxTime
    PROVE  /\ \A p \in 0..TopPlan :
                 [subs EXCEPT ![c] = [state |-> "active", plan |-> p, next |-> now + Period]]
                    \in [Codes -> SubRecords]
           /\ \A s \in {"attention", "disabled"} : [subs EXCEPT ![c].state = s] \in [Codes -> SubRecords]
           /\ \A t, d : d \in DatesAhead(t) =>
                 [subs EXCEPT ![c].state = "active", ![c].next = d] \in [Codes -> SubRecords]
<1>1. /\ MaxTime \in Nat /\ Period \in Nat
      /\ subs[c].next \in 0..MaxTime + Period /\ subs[c].plan \in 0..TopPlan
      /\ now + Period \in 0..MaxTime + Period
  BY ConstantsAssumption DEF SubRecords
<1>2. ASSUME NEW p \in 0..TopPlan
      PROVE  [subs EXCEPT ![c] = [state |-> "active", plan |-> p, next |-> now + Period]]
                    \in [Codes -> SubRecords]
  BY <1>1 DEF SubRecords
<1>3. ASSUME NEW s \in {"attention", "disabled"}
      PROVE  [subs EXCEPT ![c].state = s] \in [Codes -> SubRecords]
  BY <1>1 DEF SubRecords
<1>4. ASSUME NEW t, NEW d, d \in DatesAhead(t)
      PROVE  [subs EXCEPT ![c].state = "active", ![c].next = d] \in [Codes -> SubRecords]
  <2>1. d \in now + 1..now + Period
    BY <1>4, Zenon DEF DatesAhead
  <2>2. d \in 0..MaxTime + Period
    BY <1>1, <2>1
  <2>3. [subs EXCEPT ![c].state = "active", ![c].next = d] =
          [subs EXCEPT ![c] = [subs[c] EXCEPT !.state = "active", !.next = d]]
    OBVIOUS
  <2>4. [subs[c] EXCEPT !.state = "active", !.next = d] \in SubRecords
    BY <1>1, <2>2 DEF SubRecords
  <2> QED
    BY <2>3, <2>4
<1> QED
  BY <1>2, <1>3, <1>4

\* A new subscription, from an upgrade or a paid checkout.
LEMMA StartsTypes ==
    ASSUME TypeOK, NEW c \in Codes, NEW p \in 0..TopPlan, NEW r \in Refs \cup {None}, Starts(c, p, r)
    PROVE  subs' \in [Codes -> SubRecords] /\ events' \in Seq(Events)
<1>1. subs' \in [Codes -> SubRecords]
  BY SubTypes DEF TypeOK, Starts
<1>2. Event("charge.success", r, None) \in Events /\ Event("subscription.create", None, c) \in Events
  BY EventTypes
<1>3. events \in Seq(Events)
  BY DEF TypeOK
<1>4. \/ events' = events \o <<Event("charge.success", r, None), Event("subscription.create", None, c)>>
      \/ events' = events \o <<Event("subscription.create", None, c), Event("charge.success", r, None)>>
  BY DEF Starts
<1>5. events' \in Seq(Events)
  BY <1>2, <1>3, <1>4, EmittedTwo, Zenon
<1> QED
  BY <1>1, <1>5

LEMMA EmitTypes ==
    ASSUME TypeOK, NEW e \in Events, Emit(e)
    PROVE  events' \in Seq(Events)
BY Emitted DEF TypeOK, Emit

\* The calls to Paystack.
LEMMA CallTypeOK ==
    ASSUME TypeOK, NEW w \in Workers, Disable(w) \/ \E c \in Codes : Create(w, c)
    PROVE  TypeOK'
<1>1. ASSUME Disable(w) PROVE TypeOK'
  <2> DEFINE c == job[w].code
  <2>1. job[w] \in Jobs /\ c \in Codes
    BY <1>1 DEF TypeOK, Disable, Jobs
  <2>2. subs' \in [Codes -> SubRecords]
    <3>1. subs' = [subs EXCEPT ![c].state = "disabled"] \/ subs' = subs
      BY <1>1 DEF Disable
    <3>2. \A d \in Codes : [subs EXCEPT ![d].state = "disabled"] \in [Codes -> SubRecords]
      BY SubTypes, Zenon DEF TypeOK
    <3>3. subs \in [Codes -> SubRecords]
      BY DEF TypeOK
    <3> QED
      BY <2>1, <3>1, <3>2, <3>3, Zenon
  <2>3. events' \in Seq(Events)
    <3>1. events' = Append(events, Event("subscription.disable", None, c)) \/ events' = events
      BY <1>1 DEF Disable
    <3>2. Event("subscription.disable", None, c) \in Events
      BY <2>1, EventTypes
    <3> QED
      BY <3>1, <3>2, Emitted DEF TypeOK
  <2>4. job' \in [Workers -> Jobs]
    <3>1. \E s \in {"create", "schedule"} : job' = [job EXCEPT ![w] = [job[w] EXCEPT !.step = s]]
      BY <1>1 DEF Disable, TypeOK
    <3> QED
      BY <2>1, <3>1, JobTypes DEF TypeOK
  <2> QED
    BY <1>1, <2>2, <2>3, <2>4 DEF Disable, TypeOK, rowVars
<1>2. ASSUME NEW c \in Codes, Create(w, c) PROVE TypeOK'
  <2>1. job[w].plan \in 0..TopPlan
    BY DEF TypeOK, Jobs, JobRecords
  <2>2. subs' \in [Codes -> SubRecords] /\ events' \in Seq(Events)
    BY <1>2, <2>1, StartsTypes DEF Create
  <2>3. job' \in [Workers -> Jobs]
    BY <1>2, JobTypes DEF Create, TypeOK
  <2> QED
    BY <1>2, <2>2, <2>3 DEF Create, TypeOK, rowVars
<1> QED
  BY <1>1, <1>2

\* The webhooks and what follows them.
LEMMA HookTypeOK ==
    ASSUME TypeOK,
           \/ \E k \in DOMAIN events : \/ ChargeSucceeded(k) \/ ChargeFailed(k)
                                       \/ SubscriptionCreated(k) \/ SubscriptionDisabled(k)
                                       \/ Lost(k) \/ Duplicate(k)
           \/ \E c \in Codes : Refresh(c) \/ RefreshLost(c)
    PROVE  TypeOK'
<1>0. /\ events \in Seq(Events) /\ hit \in SUBSET Faults
      /\ \A c \in Codes : subs[c].plan \in 0..TopPlan /\ subs[c].next \in 0..MaxTime + Period
  BY DEF TypeOK, SubRecords
<1>1. ASSUME NEW k \in DOMAIN events, NEW more \in SUBSET Faults, Arrives(k, more)
      PROVE  events' \in Seq(Events) /\ hit' \in SUBSET Faults /\ events[k] \in Events
  BY <1>0, <1>1, TakenOut DEF Arrives
<1>2. ASSUME NEW k \in DOMAIN events, ChargeSucceeded(k) PROVE TypeOK'
  <2>1. known' \in BOOLEAN
    BY <1>2 DEF ChargeSucceeded, TypeOK
  <2>2. graceAt' \in 0..MaxTime \cup {None} /\ refresh' \in SUBSET Codes
    BY <1>2 DEF ChargeSucceeded, TypeOK, ToRefresh
  <2> QED
    BY <1>1, <1>2, <2>1, <2>2 DEF ChargeSucceeded, Deliver, TypeOK, payVars
<1>3. ASSUME NEW k \in DOMAIN events, ChargeFailed(k) PROVE TypeOK'
  <2>1. pending' \in Refs \cup {None} /\ graceAt' \in 0..MaxTime \cup {None}
    BY <1>3 DEF ChargeFailed, TypeOK, GraceStart
  <2> QED
    BY <1>1, <1>3, <2>1 DEF ChargeFailed, Deliver, TypeOK, payVars
<1>4. ASSUME NEW k \in DOMAIN events, SubscriptionCreated(k) PROVE TypeOK'
  <2>1. events[k].code \in Codes
    BY <1>1, <1>4 DEF SubscriptionCreated, Deliver, Events
  <2>2. cancelled' \in BOOLEAN /\ known' \in BOOLEAN
    BY <1>4, Zenon DEF SubscriptionCreated
  <2> QED
    BY <1>0, <1>1, <1>4, <2>1, <2>2 DEF SubscriptionCreated, Deliver, TypeOK, payVars
<1>5. ASSUME NEW k \in DOMAIN events, SubscriptionDisabled(k) PROVE TypeOK'
  <2>1. cancelled' \in BOOLEAN
    BY <1>5, Zenon DEF SubscriptionDisabled
  <2> QED
    BY <1>1, <1>5, <2>1 DEF SubscriptionDisabled, Deliver, TypeOK, payVars
<1>6. ASSUME NEW k \in DOMAIN events, Lost(k) PROVE TypeOK'
  <2>1. events' \in Seq(Events) /\ hit' \in SUBSET Faults
    BY <1>0, <1>6, TakenOut DEF Lost
  <2> QED
    BY <1>6, <2>1 DEF Lost, TypeOK, rowVars, payVars
<1>7. ASSUME NEW c \in Codes, Refresh(c) PROVE TypeOK'
  BY <1>0, <1>7 DEF Refresh, TypeOK, payVars
<1>8. ASSUME NEW c \in Codes, RefreshLost(c) PROVE TypeOK'
  BY <1>0, <1>8 DEF RefreshLost, TypeOK, rowVars, payVars
<1>9. ASSUME NEW k \in DOMAIN events, Duplicate(k) PROVE TypeOK'
  <2>1. events' \in Seq(Events) /\ hit' \in SUBSET Faults
    BY <1>1, <1>9 DEF Duplicate
  <2> QED
    BY <1>9, <2>1 DEF Duplicate, TypeOK, rowVars, payVars
<1> QED
  BY <1>2, <1>3, <1>4, <1>5, <1>6, <1>7, <1>8, <1>9

\* Paystack, its customer and the clock.
LEMMA OutsideTypeOK ==
    ASSUME TypeOK,
           \/ \E r \in Refs : Declined(r) \/ \E c \in Codes : Pays(r, c)
           \/ \E c \in Codes : Renews(c) \/ RenewalFails(c) \/ EndsAtPaystack(c)
           \/ Tick
    PROVE  TypeOK'
<1>0. subs \in [Codes -> SubRecords] /\ now \in 0..MaxTime /\ page \in [Refs -> Pages]
  BY DEF TypeOK
<1>1. ASSUME NEW r \in Refs, Uses(r)
      PROVE  hit' \in SUBSET Faults /\ page[r].plan \in 0..TopPlan
  BY <1>1 DEF Uses, TypeOK, Pages
<1>2. ASSUME NEW r \in Refs, Declined(r) PROVE TypeOK'
  <2>1. events' \in Seq(Events)
    BY <1>2, EventTypes, EmitTypes DEF Declined
  <2> QED
    BY <1>1, <1>2, <2>1 DEF Declined, TypeOK, rowVars, payVars
<1>3. ASSUME NEW r \in Refs, NEW c \in Codes, Pays(r, c) PROVE TypeOK'
  <2>1. subs' \in [Codes -> SubRecords] /\ events' \in Seq(Events)
    BY <1>1, <1>3, StartsTypes DEF Pays
  <2>2. page' \in [Refs -> Pages]
    BY <1>0, <1>3 DEF Pays, Pages
  <2> QED
    BY <1>1, <1>3, <2>1, <2>2 DEF Pays, TypeOK, rowVars
<1>4. ASSUME NEW c \in Codes, Renews(c) PROVE TypeOK'
  <2>1. subs' \in [Codes -> SubRecords]
    <3>1. \A t, d : d \in DatesAhead(t) =>
             [subs EXCEPT ![c].state = "active", ![c].next = d] \in [Codes -> SubRecords]
      BY <1>0, SubTypes, Zenon
    <3>2. PICK d \in DatesAhead(subs[c].next) :
             subs' = [subs EXCEPT ![c].state = "active", ![c].next = d]
      BY <1>4, Zenon DEF Renews
    <3> QED
      BY <3>1, <3>2, Zenon
  <2>2. events' \in Seq(Events)
    BY <1>4, EventTypes, EmitTypes DEF Renews
  <2> QED
    BY <1>4, <2>1, <2>2 DEF Renews, TypeOK, rowVars
<1>5. ASSUME NEW c \in Codes, RenewalFails(c) PROVE TypeOK'
  <2>1. subs' \in [Codes -> SubRecords]
    BY <1>0, <1>5, SubTypes DEF RenewalFails
  <2>2. events' \in Seq(Events)
    BY <1>5, EventTypes, EmitTypes DEF RenewalFails
  <2> QED
    BY <1>5, <2>1, <2>2 DEF RenewalFails, TypeOK, rowVars
<1>6. ASSUME NEW c \in Codes, EndsAtPaystack(c) PROVE TypeOK'
  <2>1. subs' \in [Codes -> SubRecords]
    BY <1>0, <1>6, SubTypes DEF EndsAtPaystack
  <2>2. events' \in Seq(Events)
    BY <1>6, EventTypes, EmitTypes DEF EndsAtPaystack
  <2> QED
    BY <1>6, <2>1, <2>2 DEF EndsAtPaystack, TypeOK, rowVars
<1>7. ASSUME Tick PROVE TypeOK'
  <2>1. now' \in 0..MaxTime
    BY <1>0, <1>7, ConstantsAssumption DEF Tick
  <2> QED
    BY <1>7, <2>1 DEF Tick, TypeOK, rowVars, payVars
<1> QED
  BY <1>2, <1>3, <1>4, <1>5, <1>6, <1>7

LEMMA NextTypeOK == TypeOK /\ [Next]_vars => TypeOK'
<1> SUFFICES ASSUME TypeOK, [Next]_vars PROVE TypeOK'
  OBVIOUS
<1>1. ASSUME UNCHANGED vars PROVE TypeOK'
  BY <1>1 DEF TypeOK, vars, rowVars, payVars
<1> QED
  BY <1>1, RequestTypeOK, CallTypeOK, HookTypeOK, OutsideTypeOK DEF Next

\* Every reachable state is well typed.
THEOREM TypeCorrect == Spec => []TypeOK
<1> QED
  BY InitTypeOK, NextTypeOK, PTL DEF Spec

-----------------------------------------------------------------------------
(* An upgrade replaces a subscription.  TypeOK and ActiveWithinPaid are      *)
(* inductive together with IssuedOnce: what is counted is the subscriptions  *)
(* that run, the requests that are about to start one, and the checkouts     *)
(* paid; a page is paid for good because the request that opens it is the    *)
(* only one with its reference.                                              *)

Active == {c \in Codes : Running(c)}
Creating == {w \in Workers : job[w].step = "create"}
Paid == {r \in Refs : page[r].state = "paid"}

\* A checkout that is being opened is issued, and no other request opens it.
IssuedOnce ==
    /\ \A w \in Workers : job[w].step = "open" =>
          job[w].ref \in Refs /\ page[job[w].ref].state = "issued"
    /\ \A v, w \in Workers :
          v # w /\ job[v].step = "open" /\ job[w].step = "open" => job[v].ref # job[w].ref

LEMMA CountsFinite ==
    /\ IsFiniteSet(Active) /\ IsFiniteSet(Creating) /\ IsFiniteSet(Paid)
    /\ IsFiniteSet(Active') /\ IsFiniteSet(Creating') /\ IsFiniteSet(Paid')
    /\ Cardinality(Active) \in Nat /\ Cardinality(Creating) \in Nat /\ Cardinality(Paid) \in Nat
<1>1. IsFiniteSet(Codes) /\ IsFiniteSet(Workers) /\ IsFiniteSet(Refs)
  BY ConstantsAssumption
<1>2. /\ Active \subseteq Codes /\ Creating \subseteq Workers /\ Paid \subseteq Refs
      /\ Active' \subseteq Codes /\ Creating' \subseteq Workers /\ Paid' \subseteq Refs
  BY DEF Active, Creating, Paid
<1>3. /\ IsFiniteSet(Active) /\ IsFiniteSet(Creating) /\ IsFiniteSet(Paid)
      /\ IsFiniteSet(Active') /\ IsFiniteSet(Creating') /\ IsFiniteSet(Paid')
  BY <1>1, <1>2, FS_Subset, Zenon
<1> QED
  BY <1>3, FS_CardinalityType, Zenon

\* A step that starts nothing.
LEMMA NoneStarts ==
    ASSUME ActiveWithinPaid, Active' \subseteq Active, Creating' \subseteq Creating, Paid \subseteq Paid'
    PROVE  ActiveWithinPaid'
<1>1. Cardinality(Active') <= Cardinality(Active) /\ Cardinality(Active') \in Nat
  BY CountsFinite, FS_Subset, FS_CardinalityType, Zenon
<1>2. Cardinality(Creating') <= Cardinality(Creating) /\ Cardinality(Creating') \in Nat
  BY CountsFinite, FS_Subset, FS_CardinalityType, Zenon
<1>3. Cardinality(Paid) <= Cardinality(Paid') /\ Cardinality(Paid') \in Nat
  BY CountsFinite, FS_Subset, FS_CardinalityType, Zenon
<1>4. /\ Cardinality(Active) + Cardinality(Creating) <= Cardinality(Paid)
      /\ Cardinality(Active) \in Nat /\ Cardinality(Creating) \in Nat /\ Cardinality(Paid) \in Nat
  BY CountsFinite DEF ActiveWithinPaid, Active, Creating, Paid
<1>5. Cardinality(Active') + Cardinality(Creating') <= Cardinality(Paid')
  BY <1>1, <1>2, <1>3, <1>4
<1> QED
  BY <1>5 DEF ActiveWithinPaid, Active, Creating, Paid

\* The upgrade's two calls: one running subscription goes, a request that
\* will start one comes; then the reverse.
LEMMA GivenUp ==
    ASSUME ActiveWithinPaid, NEW c, NEW w, c \in Active, Active' \subseteq Active \ {c},
           Creating' \subseteq Creating \cup {w}, Paid' = Paid
    PROVE  ActiveWithinPaid'
<1>1. Cardinality(Active \ {c}) = Cardinality(Active) - 1 /\ IsFiniteSet(Active \ {c})
  BY CountsFinite, FS_RemoveElement
<1>2. Cardinality(Active') <= Cardinality(Active \ {c})
  BY <1>1, CountsFinite, FS_Subset, Zenon
<1>3. /\ IsFiniteSet(Creating \cup {w})
      /\ \/ Cardinality(Creating \cup {w}) = Cardinality(Creating)
         \/ Cardinality(Creating \cup {w}) = Cardinality(Creating) + 1
  BY CountsFinite, FS_AddElement
<1>4. Cardinality(Creating') <= Cardinality(Creating \cup {w})
  BY <1>3, CountsFinite, FS_Subset, Zenon
<1>5. /\ Cardinality(Active') \in Nat /\ Cardinality(Creating') \in Nat
      /\ Cardinality(Active) \in Nat /\ Cardinality(Creating) \in Nat /\ Cardinality(Paid) \in Nat
  BY CountsFinite, FS_CardinalityType, Zenon
<1>6. Cardinality(Paid') = Cardinality(Paid)
  BY Zenon
<1>7. Cardinality(Active) + Cardinality(Creating) <= Cardinality(Paid)
  BY DEF ActiveWithinPaid, Active, Creating, Paid
<1>8. Cardinality(Active') + Cardinality(Creating') <= Cardinality(Paid')
  BY <1>1, <1>2, <1>3, <1>4, <1>5, <1>6, <1>7
<1> QED
  BY <1>8 DEF ActiveWithinPaid, Active, Creating, Paid

LEMMA Replaced ==
    ASSUME ActiveWithinPaid, NEW c, NEW w, w \in Creating, Active' \subseteq Active \cup {c},
           Creating' \subseteq Creating \ {w}, Paid' = Paid
    PROVE  ActiveWithinPaid'
<1>1. Cardinality(Creating \ {w}) = Cardinality(Creating) - 1 /\ IsFiniteSet(Creating \ {w})
  BY CountsFinite, FS_RemoveElement
<1>2. Cardinality(Creating') <= Cardinality(Creating \ {w})
  BY <1>1, CountsFinite, FS_Subset, Zenon
<1>3. /\ IsFiniteSet(Active \cup {c})
      /\ \/ Cardinality(Active \cup {c}) = Cardinality(Active)
         \/ Cardinality(Active \cup {c}) = Cardinality(Active) + 1
  BY CountsFinite, FS_AddElement
<1>4. Cardinality(Active') <= Cardinality(Active \cup {c})
  BY <1>3, CountsFinite, FS_Subset, Zenon
<1>5. /\ Cardinality(Active') \in Nat /\ Cardinality(Creating') \in Nat
      /\ Cardinality(Active) \in Nat /\ Cardinality(Creating) \in Nat /\ Cardinality(Paid) \in Nat
  BY CountsFinite, FS_CardinalityType, Zenon
<1>6. Cardinality(Paid') = Cardinality(Paid)
  BY Zenon
<1>7. Cardinality(Active) + Cardinality(Creating) <= Cardinality(Paid)
  BY DEF ActiveWithinPaid, Active, Creating, Paid
<1>8. Cardinality(Active') + Cardinality(Creating') <= Cardinality(Paid')
  BY <1>1, <1>2, <1>3, <1>4, <1>5, <1>6, <1>7
<1> QED
  BY <1>8 DEF ActiveWithinPaid, Active, Creating, Paid

\* A checkout is paid, once, and one subscription starts.
LEMMA CheckedOut ==
    ASSUME ActiveWithinPaid, NEW c, NEW r, r \notin Paid, Active' \subseteq Active \cup {c},
           Creating' = Creating, Paid' = Paid \cup {r}
    PROVE  ActiveWithinPaid'
<1>1. Cardinality(Paid') = Cardinality(Paid) + 1
  <2>1. Cardinality(Paid \cup {r}) = Cardinality(Paid) + 1
    BY CountsFinite, FS_AddElement
  <2> QED
    BY <2>1, Zenon
<1>2. /\ IsFiniteSet(Active \cup {c})
      /\ \/ Cardinality(Active \cup {c}) = Cardinality(Active)
         \/ Cardinality(Active \cup {c}) = Cardinality(Active) + 1
  BY CountsFinite, FS_AddElement
<1>3. Cardinality(Active') <= Cardinality(Active \cup {c})
  BY <1>2, CountsFinite, FS_Subset, Zenon
<1>4. /\ Cardinality(Active') \in Nat
      /\ Cardinality(Active) \in Nat /\ Cardinality(Creating) \in Nat /\ Cardinality(Paid) \in Nat
  BY CountsFinite, FS_CardinalityType, Zenon
<1>5. Cardinality(Creating') = Cardinality(Creating)
  BY Zenon
<1>6. Cardinality(Active) + Cardinality(Creating) <= Cardinality(Paid)
  BY DEF ActiveWithinPaid, Active, Creating, Paid
<1>7. Cardinality(Active') + Cardinality(Creating') <= Cardinality(Paid')
  BY <1>1, <1>2, <1>3, <1>4, <1>5, <1>6
<1> QED
  BY <1>7 DEF ActiveWithinPaid, Active, Creating, Paid

LEMMA InitActiveWithinPaid == Init => ActiveWithinPaid
<1> SUFFICES ASSUME Init PROVE ActiveWithinPaid
  OBVIOUS
<1>1. Active = {} /\ Creating = {}
  BY DEF Init, Active, Running, Creating, Idle, Request
<1>2. Cardinality(Active) = 0 /\ Cardinality(Creating) = 0
  BY <1>1, FS_EmptySet, Zenon
<1>3. Cardinality(Active) + Cardinality(Creating) <= Cardinality(Paid)
  BY <1>2, CountsFinite
<1> QED
  BY <1>3 DEF ActiveWithinPaid, Active, Creating, Paid

\* What a request has become when it saves its attempt, and when it opens it.
LEMMA SaveJob ==
    ASSUME TypeOK, NEW w \in Workers, NEW r \in Refs, SubscribeSave(w, r)
    PROVE  /\ job'[w].step = "open" /\ job'[w].ref = r
           /\ \A v \in Workers : v # w => job'[v] = job[v]
<1>1. job' = [job EXCEPT ![w] = [job[w] EXCEPT !.step = "open", !.ref = r]]
  BY DEF SubscribeSave
<1>2. job'[w] = [job[w] EXCEPT !.step = "open", !.ref = r] /\ \A v \in Workers : v # w => job'[v] = job[v]
  BY <1>1, Zenon DEF TypeOK
<1>3. \A j \in JobRecords : /\ [j EXCEPT !.step = "open", !.ref = r].step = "open"
                             /\ [j EXCEPT !.step = "open", !.ref = r].ref = r
  BY DEF JobRecords
<1>4. job[w] \in JobRecords
  BY DEF TypeOK, Jobs
<1> QED
  BY <1>2, <1>3, <1>4, Zenon

LEMMA OpensPages ==
    ASSUME TypeOK, NEW w \in Workers, SubscribeOpens(w)
    PROVE  \A r \in Refs : r # job[w].ref /\ page[r].state # "open" => page'[r] = page[r]
BY DEF SubscribeOpens

LEMMA IssuedOnceStays ==
    ASSUME TypeOK, IssuedOnce, [Next]_vars
    PROVE  IssuedOnce'
<1> USE DEF IssuedOnce
<1>1. ASSUME \A w \in Workers : job'[w].step = "open" => job'[w] = job[w],
             \A r \in Refs : page[r].state = "issued" => page'[r] = page[r]
      PROVE  IssuedOnce'
  BY <1>1
<1>2. ASSUME job' = job, page' = page PROVE IssuedOnce'
  BY <1>2, Zenon
<1>3. ASSUME NEW w \in Workers, NEW j, j.step # "open", job' = [job EXCEPT ![w] = j], page' = page
      PROVE  IssuedOnce'
  BY <1>1, <1>3 DEF TypeOK
<1>4. ASSUME NEW w \in Workers, NEW r \in Refs, SubscribeSave(w, r) PROVE IssuedOnce'
  <2>1. page[r].state = "none" /\ page'[r].state = "issued"
    BY <1>4 DEF SubscribeSave, TypeOK
  <2>2. \A q \in Refs : q # r => page'[q] = page[q]
    BY <1>4 DEF SubscribeSave, TypeOK
  <2> QED
    BY <1>4, <2>1, <2>2, SaveJob
<1>5. ASSUME NEW w \in Workers, SubscribeOpens(w) PROVE IssuedOnce'
  <2>1. job'[w].step = "idle" /\ \A v \in Workers : v # w => job'[v] = job[v]
    BY <1>5 DEF SubscribeOpens, TypeOK, Idle, Request
  <2>2. job[w].step = "open"
    BY <1>5 DEF SubscribeOpens
  <2> QED
    BY <1>5, <2>1, <2>2, OpensPages
<1>6. ASSUME NEW w \in Workers,
             \/ \E p \in 1..TopPlan : SubscribeRead(w, p) \/ UpgradeRead(w, p)
             \/ SubscribeFails(w) \/ EndRead(w) \/ Schedule(w) \/ Abort(w)
      PROVE  IssuedOnce'
  <2>1. \E j : j.step # "open" /\ job' = [job EXCEPT ![w] = j]
    BY <1>6, Zenon DEF SubscribeRead, UpgradeRead, SubscribeFails, EndRead, Schedule, Abort,
                       Idle, Request
  <2>2. page' = page
    BY <1>6 DEF SubscribeRead, UpgradeRead, SubscribeFails, EndRead, Schedule, Abort, payVars
  <2> QED
    BY <1>3, <2>1, <2>2
<1>7. ASSUME NEW w \in Workers, Disable(w) \/ \E c \in Codes : Create(w, c) PROVE IssuedOnce'
  <2>1. page' = page
    BY <1>7 DEF Disable, Create
  <2>2. ASSUME Disable(w) PROVE \A v \in Workers : job'[v].step = "open" => job'[v] = job[v]
    <3>1. \E s \in {"create", "schedule"} : job' = [job EXCEPT ![w] = [job[w] EXCEPT !.step = s]]
      BY <2>2 DEF Disable, TypeOK
    <3>2. \A j \in JobRecords, s \in {"create", "schedule"} : [j EXCEPT !.step = s].step # "open"
      BY DEF JobRecords
    <3> QED
      BY <3>1, <3>2 DEF TypeOK, Jobs
  <2>3. ASSUME NEW c \in Codes, Create(w, c)
        PROVE  \A v \in Workers : job'[v].step = "open" => job'[v] = job[v]
    BY <2>3 DEF Create, TypeOK, Idle, Request
  <2> QED
    BY <1>1, <1>7, <2>1, <2>2, <2>3
<1>8. ASSUME NEW r \in Refs, NEW c \in Codes, Pays(r, c) PROVE IssuedOnce'
  BY <1>1, <1>8 DEF Pays, Uses
<1>9. ASSUME \/ \E k \in DOMAIN events : \/ ChargeSucceeded(k) \/ ChargeFailed(k)
                                         \/ SubscriptionCreated(k) \/ SubscriptionDisabled(k)
                                         \/ Lost(k) \/ Duplicate(k)
             \/ \E c \in Codes : \/ Refresh(c) \/ RefreshLost(c) \/ Renews(c) \/ RenewalFails(c)
                                 \/ EndsAtPaystack(c)
             \/ \E r \in Refs : Declined(r)
             \/ Tick \/ UNCHANGED vars
      PROVE  IssuedOnce'
  <2>1. job' = job /\ page' = page
    BY <1>9 DEF ChargeSucceeded, ChargeFailed, SubscriptionCreated, SubscriptionDisabled, Lost, Duplicate,
                Refresh, RefreshLost, Renews, RenewalFails, EndsAtPaystack, Declined, Tick,
                vars, rowVars, payVars
  <2> QED
    BY <1>2, <2>1
<1> QED
  BY <1>4, <1>5, <1>6, <1>7, <1>8, <1>9 DEF Next

\* Requests, the two calls that matter aside.
LEMMA RequestKeeps ==
    ASSUME TypeOK, IssuedOnce, ActiveWithinPaid, NEW w \in Workers,
           \/ \E p \in 1..TopPlan : SubscribeRead(w, p) \/ UpgradeRead(w, p)
           \/ \E r \in Refs : SubscribeSave(w, r)
           \/ SubscribeOpens(w) \/ SubscribeFails(w) \/ EndRead(w)
           \/ Schedule(w) \/ Abort(w)
    PROVE  ActiveWithinPaid'
<1>1. Active' = Active
  BY DEF Active, Running, SubscribeRead, UpgradeRead, SubscribeSave, SubscribeOpens,
         SubscribeFails, EndRead, Schedule, Abort, payVars
<1>2. Creating' \subseteq Creating
  <2>1. \A v \in Workers : job'[v].step # "create" \/ job'[v] = job[v]
    <3>1. ASSUME NEW j, j.step # "create", job' = [job EXCEPT ![w] = j]
          PROVE  \A v \in Workers : job'[v].step # "create" \/ job'[v] = job[v]
      BY <3>1 DEF TypeOK
    <3>2. ASSUME NEW r \in Refs, SubscribeSave(w, r)
          PROVE  \A v \in Workers : job'[v].step # "create" \/ job'[v] = job[v]
      BY <3>2, SaveJob
    <3>3. ASSUME \/ \E p \in 1..TopPlan : SubscribeRead(w, p) \/ UpgradeRead(w, p)
                 \/ SubscribeOpens(w) \/ SubscribeFails(w) \/ EndRead(w)
                 \/ Schedule(w) \/ Abort(w)
          PROVE  \E j : j.step # "create" /\ job' = [job EXCEPT ![w] = j]
      BY <3>3, Zenon DEF SubscribeRead, UpgradeRead, SubscribeOpens, SubscribeFails, EndRead,
                         Schedule, Abort, Idle, Request
    <3> QED
      BY <3>1, <3>2, <3>3
  <2> QED
    BY <2>1 DEF Creating
<1>3. Paid \subseteq Paid'
  <2>1. ASSUME NEW r \in Refs, SubscribeSave(w, r) PROVE Paid \subseteq Paid'
    BY <2>1 DEF TypeOK, Paid, SubscribeSave
  <2>2. ASSUME SubscribeOpens(w) PROVE Paid \subseteq Paid'
    <3>1. ASSUME NEW q \in Refs, page[q].state = "paid" PROVE page'[q] = page[q]
      BY <2>2, <3>1 DEF SubscribeOpens, IssuedOnce
    <3> QED
      BY <3>1 DEF Paid
  <2> QED
    BY <2>1, <2>2 DEF Paid, SubscribeRead, UpgradeRead, SubscribeFails, EndRead, Schedule, Abort, payVars
<1> QED
  BY <1>1, <1>2, <1>3, NoneStarts

\* Disable and Create.
LEMMA CallKeeps ==
    ASSUME TypeOK, ActiveWithinPaid, NEW w \in Workers, Disable(w) \/ \E c \in Codes : Create(w, c)
    PROVE  ActiveWithinPaid'
<1>1. CASE Disable(w)
  <2>1. PICK c : c = job[w].code
    OBVIOUS
  <2>2. c \in Codes /\ Running(c)
    BY <1>1, <2>1 DEF Disable, GoesOn, TypeOK, Jobs
  <2>3. subs' = [subs EXCEPT ![c] = [subs[c] EXCEPT !.state = "disabled"]]
    BY <1>1, <2>1, <2>2 DEF Disable
  <2>4. Active' \subseteq Active \ {c} /\ c \in Active
    BY <2>2, <2>3 DEF Active, Running, TypeOK, SubRecords
  <2>5. Creating' \subseteq Creating \cup {w}
    BY <1>1 DEF Disable, Creating, TypeOK
  <2>6. Paid' = Paid
    BY <1>1 DEF Disable, Paid
  <2> QED
    BY <2>4, <2>5, <2>6, GivenUp
<1>2. ASSUME NEW c \in Codes, Create(w, c) PROVE ActiveWithinPaid'
  <2>1. Active' \subseteq Active \cup {c}
    BY <1>2 DEF Create, Starts, Active, Running, TypeOK
  <2>2. w \in Creating /\ Creating' \subseteq Creating \ {w}
    BY <1>2 DEF Create, Creating, TypeOK, Idle, Request
  <2>3. Paid' = Paid
    BY <1>2 DEF Create, Paid
  <2> QED
    BY <2>1, <2>2, <2>3, Replaced
<1> QED
  BY <1>1, <1>2

\* Webhooks, Paystack's own steps and the clock.
LEMMA OutsideKeeps ==
    ASSUME TypeOK, ActiveWithinPaid,
           \/ \E k \in DOMAIN events : \/ ChargeSucceeded(k) \/ ChargeFailed(k)
                                       \/ SubscriptionCreated(k) \/ SubscriptionDisabled(k)
                                       \/ Lost(k) \/ Duplicate(k)
           \/ \E c \in Codes : \/ Refresh(c) \/ RefreshLost(c) \/ Renews(c) \/ RenewalFails(c)
                               \/ EndsAtPaystack(c)
           \/ \E r \in Refs : Declined(r)
           \/ Tick \/ UNCHANGED vars
    PROVE  ActiveWithinPaid'
<1>1. job' = job /\ page' = page
  BY DEF ChargeSucceeded, ChargeFailed, SubscriptionCreated, SubscriptionDisabled, Lost, Duplicate,
         Refresh, RefreshLost, Renews, RenewalFails, EndsAtPaystack, Declined, Tick, vars, payVars
<1>2. Active' \subseteq Active
  <2>1. ASSUME NEW c \in Codes, Renews(c) \/ RenewalFails(c) \/ EndsAtPaystack(c)
        PROVE  Running(c) /\ \A d \in Codes : d # c => subs'[d] = subs[d]
    BY <2>1 DEF Renews, RenewalFails, EndsAtPaystack, Due, TypeOK
  <2>2. ASSUME subs' = subs PROVE Active' = Active
    BY <2>2 DEF Active, Running
  <2>3. ASSUME \/ \E k \in DOMAIN events : \/ ChargeSucceeded(k) \/ ChargeFailed(k)
                                          \/ SubscriptionCreated(k) \/ SubscriptionDisabled(k)
                                          \/ Lost(k) \/ Duplicate(k)
               \/ \E c \in Codes : Refresh(c) \/ RefreshLost(c)
               \/ \E r \in Refs : Declined(r)
               \/ Tick \/ UNCHANGED vars
        PROVE  subs' = subs
    BY <2>3 DEF ChargeSucceeded, ChargeFailed, SubscriptionCreated, SubscriptionDisabled, Lost, Duplicate,
                Refresh, RefreshLost, Declined, Tick, vars, payVars
  <2> QED
    BY <2>1, <2>2, <2>3 DEF Active, Running
<1>3. Creating' = Creating /\ Paid' = Paid
  BY <1>1 DEF Creating, Paid
<1> QED
  BY <1>2, <1>3, NoneStarts

LEMMA PaysKeeps ==
    ASSUME TypeOK, ActiveWithinPaid, NEW r \in Refs, NEW c \in Codes, Pays(r, c)
    PROVE  ActiveWithinPaid'
<1>1. Active' \subseteq Active \cup {c}
  BY DEF Pays, Starts, Active, Running, TypeOK
<1>2. Creating' = Creating
  BY DEF Pays, Creating
<1>3. r \notin Paid /\ Paid' = Paid \cup {r}
  BY DEF Pays, Uses, Paid, TypeOK, Pages
<1> QED
  BY <1>1, <1>2, <1>3, CheckedOut

\* At every moment the subscriptions that run, and those that an upgrade has
\* given up and not yet replaced, are no more than the checkouts paid:
\* concurrent changeTier and cancel requests, on stale reads, never make the
\* tenant pay twice.
THEOREM UpgradesReplace == Spec => []ActiveWithinPaid
<1> DEFINE IInv == TypeOK /\ IssuedOnce /\ ActiveWithinPaid
<1>1. Init => IInv
  <2>1. Init => IssuedOnce
    BY DEF Init, IssuedOnce, Idle, Request
  <2> QED
    BY <2>1, InitTypeOK, InitActiveWithinPaid
<1>2. IInv /\ [Next]_vars => IInv'
  <2> SUFFICES ASSUME TypeOK, IssuedOnce, ActiveWithinPaid, [Next]_vars PROVE IInv'
    OBVIOUS
  <2>1. TypeOK' /\ IssuedOnce'
    BY NextTypeOK, IssuedOnceStays
  <2>2. ActiveWithinPaid'
    BY RequestKeeps, CallKeeps, OutsideKeeps, PaysKeeps DEF Next
  <2> QED
    BY <2>1, <2>2
<1> QED
  BY <1>1, <1>2, PTL DEF Spec

-----------------------------------------------------------------------------
(* The plan follows the payments.  While nothing has gone wrong but a        *)
(* refresh, and the start of a subscription that passed for another, the row *)
(* and Paystack's record differ only by what the events still in the queue,  *)
(* and the refreshes still to be made, will say: the conjuncts below name    *)
(* each difference and what accounts for it, of the subscription the row     *)
(* names and, while every start was handled, of the one that runs.  They are *)
(* inductive together with TypeOK.                                           *)

Harmless == {"refresh", "subscription.create"}
StartsHandled == "subscription.create" \notin hit

Ended(c) == Event("subscription.disable", None, c)
Created(c) == Event("subscription.create", None, c)
Refused == Event("charge.failed", None, None)
Renewed == Event("charge.success", None, None)

\* An event is in the queue; a request is about to start a subscription.
Told(e) == \E k \in DOMAIN events : events[k] = e
Creates(w) == job[w].step = "create"

\* One subscription runs, or one request is replacing the one that did.
OneAtATime ==
    /\ \A c, d \in Codes : Running(c) /\ Running(d) => c = d
    /\ \A v, w \in Workers : Creates(v) /\ Creates(w) => v = w
    /\ \A c \in Codes, w \in Workers : Running(c) => ~Creates(w)

\* The row is about the subscription it names, and claims no time not paid for.
RowIsOfCode ==
    /\ (plan > 0 \/ endsAt # None) => code # None
    /\ refresh \subseteq {code}
    /\ code # None =>
          /\ known
          /\ plan = subs[code].plan
          /\ subs[code].state # "none"
          /\ endsAt # None => endsAt <= subs[code].next

\* A subscription that the row has as running and that is not, or that the
\* queue is about to announce and that is over, has its end in the queue.
EndsAreTold ==
    /\ \A c \in Codes : Told(Ended(c)) => subs[c].state = "disabled"
    /\ code # None /\ ~cancelled => Running(code) \/ Told(Ended(code))
    /\ \A k \in DOMAIN events, c \in Codes :
          events[k] = Created(c) =>
             /\ subs[c].state # "none"
             /\ Running(c) \/ \E j \in DOMAIN events : j > k /\ events[j] = Ended(c)

\* The subscription that runs is the row's, or the last start in the queue.
LastStart(k) == \A j \in DOMAIN events : j > k => events[j].name # "subscription.create"
StartsAreTold ==
    /\ \A k \in DOMAIN events :
          events[k].name = "subscription.create" => events[k] = Created(events[k].code)
    /\ StartsHandled => \A c \in Codes : Running(c) =>
          \/ c = code /\ \A k \in DOMAIN events : events[k].name # "subscription.create"
          \/ \E k \in DOMAIN events : events[k] = Created(c) /\ LastStart(k)

\* The grace period of a renewal that is refused starts on its day.
RefusalsAreTold ==
    /\ graceAt # None => graceAt <= now
    /\ \A c \in Codes : subs[c].state = "active" /\ Due(c) =>
          now = subs[c].next /\ events = <<>> /\ refresh = {}
    /\ \A c \in Codes : subs[c].state = "attention" =>
          /\ Due(c)
          /\ \A k \in DOMAIN events : events[k].name \notin {"charge.success", "subscription.create"}
          /\ \/ c # code
             \/ graceAt # None /\ graceAt <= subs[c].next
             \/ now = subs[c].next /\ Told(Refused)

\* No grace period runs, or will, against a subscription that is paid.
Clears(k) ==
    \/ events[k].name = "subscription.create"
    \/ events[k].name = "charge.success" /\ known
PaymentsAreTold ==
    StartsHandled => \A c \in Codes : subs[c].state = "active" =>
        \/ graceAt = None /\ \A k \in DOMAIN events : events[k].name # "charge.failed"
        \/ \E k \in DOMAIN events :
              /\ Clears(k)
              /\ \A j \in DOMAIN events : j > k => events[j].name # "charge.failed"

PlanInv ==
    /\ OneAtATime /\ RowIsOfCode /\ EndsAreTold
    /\ StartsAreTold /\ RefusalsAreTold /\ PaymentsAreTold

\* Without that failure too, the period end is Paystack's, or will be.
EndIsFetched == code # None => endsAt = subs[code].next \/ Told(Renewed) \/ code \in refresh

\* The queue loses its first event; events are added at its end.
Takes ==
    /\ \A i \in DOMAIN events' :
          i \in Nat \ {0} /\ i + 1 \in DOMAIN events /\ events'[i] = events[i + 1]
    /\ \A i \in DOMAIN events : i # 1 => i - 1 \in DOMAIN events' /\ events'[i - 1] = events[i]
Grows(E) ==
    /\ \A i \in DOMAIN events : i \in DOMAIN events' /\ events'[i] = events[i]
    /\ \A i \in DOMAIN events' : i \in DOMAIN events \/ (events'[i] \in E /\ \A k \in DOMAIN events : k < i)
    /\ \A e \in E : Told(e)'

LEMMA TakesFirst ==
    ASSUME TypeOK, NEW k \in DOMAIN events, NEW more, Arrives(k, more), hit' \subseteq Harmless
    PROVE  k = 1 /\ refresh = {} /\ hit' = hit \cup more /\ Takes
<1>1. k = 1 /\ refresh = {} /\ hit' = hit \cup more
  BY DEF Arrives, Harmless
<1>2. events \in Seq(Events) /\ 1 \in DOMAIN events /\ events' = RemoveAt(events, 1)
  BY <1>1, Zenon DEF Arrives, TypeOK
<1>3. events' = SubSeq(events, 1, 0) \o SubSeq(events, 2, Len(events))
  BY <1>2 DEF RemoveAt
<1>4. Len(events) \in Nat /\ Len(events) >= 1
  BY <1>2
<1>5. SubSeq(events, 1, 0) = <<>>
  BY <1>2, <1>4, SubSeqProperties
<1>6. /\ SubSeq(events, 2, Len(events)) \in Seq(Events)
      /\ Len(SubSeq(events, 2, Len(events))) = Len(events) - 1
      /\ \A i \in 1..Len(events) - 1 : SubSeq(events, 2, Len(events))[i] = events[i + 1]
  <2>1. \A n \in Nat : (\A i \in 2..n : events[i] \in Events) =>
           /\ SubSeq(events, 2, n) \in Seq(Events)
           /\ Len(SubSeq(events, 2, n)) = IF 2 <= n THEN n - 2 + 1 ELSE 0
           /\ \A i \in 1..n - 2 + 1 : SubSeq(events, 2, n)[i] = events[2 + i - 1]
    <3> TAKE n \in Nat
    <3> HAVE \A i \in 2..n : events[i] \in Events
    <3>1. 2 \in Int /\ n \in Int
      OBVIOUS
    <3> QED
      BY <3>1, SubSeqProperties
  <2>2. \A i \in 2..Len(events) : events[i] \in Events
    BY <1>2, <1>4
  <2> DEFINE n == Len(events)
             t == SubSeq(events, 2, n)
  <2>3. /\ t \in Seq(Events)
        /\ Len(t) = IF 2 <= n THEN n - 2 + 1 ELSE 0
        /\ \A i \in 1..n - 2 + 1 : t[i] = events[2 + i - 1]
    BY <2>1, <2>2, <1>4, Zenon
  <2>4. n \in Nat /\ n >= 1
    BY <1>4
  <2> HIDE DEF n, t
  <2>5. /\ t \in Seq(Events) /\ Len(t) = n - 1
        /\ \A i \in 1..n - 1 : t[i] = events[i + 1]
    BY <2>3, <2>4
  <2> QED
    BY <2>5, Zenon DEF n, t
<1>7. events' = SubSeq(events, 2, Len(events))
  <2>1. \A t \in Seq(Events) : <<>> \o t = t
    OBVIOUS
  <2> QED
    BY <1>3, <1>5, <1>6, <2>1
<1>8. /\ DOMAIN events' = 1..Len(events) - 1
      /\ \A i \in 1..Len(events) - 1 : events'[i] = events[i + 1]
  BY <1>6, <1>7
<1>9. DOMAIN events = 1..Len(events)
  BY <1>2
<1>10. Takes
  BY <1>4, <1>8, <1>9 DEF Takes
<1> QED
  BY <1>1, <1>10

LEMMA GrowsByOne ==
    ASSUME events \in Seq(Events), NEW e, events' = Append(events, e)
    PROVE  Grows({e})
<1>1. /\ DOMAIN events = 1..Len(events) /\ Len(events) \in Nat
      /\ DOMAIN events' = 1..Len(events) + 1
      /\ \A i \in 1..Len(events) : events'[i] = events[i]
      /\ events'[Len(events) + 1] = e
  OBVIOUS
<1>2. Told(e)'
  BY <1>1 DEF Told
<1> QED
  BY <1>1, <1>2 DEF Grows

LEMMA GrowsByTwo ==
    ASSUME events \in Seq(Events), NEW e, NEW f, events' = events \o <<e, f>>
    PROVE  /\ Grows({e, f})
           /\ \E i \in DOMAIN events' : /\ events'[i] = e /\ i + 1 \in DOMAIN events' /\ events'[i + 1] = f
                                        /\ \A j \in DOMAIN events' : j <= i + 1
                                        /\ \A j \in DOMAIN events : j < i
<1>1. /\ DOMAIN events = 1..Len(events) /\ Len(events) \in Nat
      /\ DOMAIN events' = 1..Len(events) + 2
      /\ \A i \in 1..Len(events) : events'[i] = events[i]
      /\ events'[Len(events) + 1] = e
      /\ events'[Len(events) + 2] = f
  OBVIOUS
<1>2. Told(e)' /\ Told(f)'
  <2>1. Len(events) + 1 \in DOMAIN events' /\ Len(events) + 2 \in DOMAIN events'
    BY <1>1
  <2> QED
    BY <1>1, <2>1 DEF Told
<1>3. Grows({e, f})
  BY <1>1, <1>2 DEF Grows
<1>4. LET i == Len(events) + 1
      IN  /\ i \in DOMAIN events' /\ events'[i] = e
          /\ i + 1 \in DOMAIN events' /\ events'[i + 1] = f
          /\ \A j \in DOMAIN events' : j <= i + 1
          /\ \A j \in DOMAIN events : j < i
  BY <1>1
<1> QED
  BY <1>3, <1>4

LEMMA GrowsIfNew ==
    ASSUME events \in Seq(Events), NEW e, Emit(e)
    PROVE  Grows({e})
<1>1. CASE events' = Append(events, e)
  BY <1>1, GrowsByOne
<1>2. CASE events' = events /\ Told(e)
  BY <1>2 DEF Grows, Told
<1> QED
  BY <1>1, <1>2 DEF Emit, Told

\* What the steps at Paystack do to its record.
LEMMA Marks ==
    ASSUME subs \in [Codes -> SubRecords], NEW c \in Codes, NEW s, subs' = [subs EXCEPT ![c].state = s]
    PROVE  /\ \A d \in Codes : d # c => subs'[d] = subs[d]
           /\ subs'[c].state = s /\ subs'[c].plan = subs[c].plan /\ subs'[c].next = subs[c].next
<1>1. /\ subs' = [subs EXCEPT ![c] = [subs[c] EXCEPT !.state = s]]
      /\ subs[c] \in SubRecords
  OBVIOUS
<1>2. subs'[c] = [subs[c] EXCEPT !.state = s] /\ \A d \in Codes : d # c => subs'[d] = subs[d]
  BY <1>1
<1> QED
  BY <1>1, <1>2 DEF SubRecords

LEMMA Prolongs ==
    ASSUME subs \in [Codes -> SubRecords], now \in 0..MaxTime, NEW c \in Codes, Renews(c)
    PROVE  /\ \A d \in Codes : d # c => subs'[d] = subs[d]
           /\ subs'[c].state = "active" /\ subs'[c].plan = subs[c].plan
           /\ subs'[c].next > now /\ subs'[c].next \in Int
<1>1. PICK t \in DatesAhead(subs[c].next) : subs' = [subs EXCEPT ![c].state = "active", ![c].next = t]
  BY Zenon DEF Renews
<1>2. t \in now + 1..now + Period
  BY <1>1, Zenon DEF DatesAhead
<1>3. t > now /\ t \in Int
  BY <1>2, ConstantsAssumption
<1>4. /\ subs' = [subs EXCEPT ![c] = [subs[c] EXCEPT !.state = "active", !.next = t]]
      /\ subs[c] \in SubRecords
  BY <1>1
<1>5. /\ subs'[c] = [subs[c] EXCEPT !.state = "active", !.next = t]
      /\ \A d \in Codes : d # c => subs'[d] = subs[d]
  BY <1>4
<1> QED
  BY <1>3, <1>4, <1>5 DEF SubRecords

\* A conjunct about what the handled starts leave is no stronger later on.
LEMMA StartsOnceHandled == hit \subseteq hit' => (StartsHandled' => StartsHandled)
BY DEF StartsHandled

\* Nothing the queue or Paystack's record says changes, nor the row's account of it.
LEMMA QuietKeeps ==
    ASSUME TypeOK, PlanInv, NEW w \in Workers,
           \/ \E p \in 1..TopPlan : SubscribeRead(w, p) \/ UpgradeRead(w, p)
           \/ \E r \in Refs : SubscribeSave(w, r)
           \/ SubscribeOpens(w) \/ SubscribeFails(w) \/ EndRead(w)
           \/ Schedule(w) \/ Abort(w)
    PROVE  PlanInv'
<1>1. /\ subs' = subs /\ events' = events /\ refresh' = refresh /\ now' = now
      /\ plan' = plan /\ code' = code /\ endsAt' = endsAt /\ graceAt' = graceAt /\ known' = known
      /\ cancelled => cancelled'
      /\ hit' = hit
  BY DEF SubscribeRead, UpgradeRead, SubscribeSave, SubscribeOpens, SubscribeFails, EndRead,
         Schedule, Abort, rowVars, payVars
<1>2. \A v \in Workers : Creates(v)' => Creates(v)
  <2>1. ASSUME NEW j, j.step # "create", job' = [job EXCEPT ![w] = j]
        PROVE  \A v \in Workers : Creates(v)' => Creates(v)
    BY <2>1 DEF TypeOK, Creates
  <2>2. CASE \E r \in Refs : SubscribeSave(w, r)
    BY <2>2, SaveJob DEF Creates
  <2>3. Idle.step # "create"
    BY DEF Idle, Request
  <2>4. \A k, p, c : Request("save", k, p, c).step # "create" /\ Request("disable", k, p, c).step # "create"
    BY DEF Request
  <2>5. CASE \E p \in 1..TopPlan : SubscribeRead(w, p) \/ UpgradeRead(w, p)
    <3>1. ASSUME NEW p \in 1..TopPlan, SubscribeRead(w, p)
          PROVE  \A v \in Workers : Creates(v)' => Creates(v)
      BY <2>1, <2>4, <3>1, Zenon DEF SubscribeRead
    <3>2. ASSUME NEW p \in 1..TopPlan, UpgradeRead(w, p)
          PROVE  \A v \in Workers : Creates(v)' => Creates(v)
      BY <2>1, <2>4, <3>2, Zenon DEF UpgradeRead
    <3> QED
      BY <2>5, <3>1, <3>2, Zenon
  <2>6. CASE EndRead(w)
    BY <2>1, <2>4, <2>6, Zenon DEF EndRead
  <2>7. CASE SubscribeOpens(w) \/ SubscribeFails(w) \/ Schedule(w) \/ Abort(w)
    BY <2>1, <2>3, <2>7, Zenon DEF SubscribeOpens, SubscribeFails, Schedule, Abort
  <2> QED
    BY <2>2, <2>5, <2>6, <2>7, Zenon
<1>3. OneAtATime'
  BY <1>1, <1>2 DEF PlanInv, OneAtATime, Running
<1>4. RowIsOfCode'
  BY <1>1 DEF PlanInv, RowIsOfCode
<1>5. EndsAreTold'
  BY <1>1 DEF PlanInv, EndsAreTold, Told, Running
<1>6. StartsAreTold' /\ RefusalsAreTold' /\ PaymentsAreTold'
  BY <1>1 DEF PlanInv, StartsAreTold, StartsHandled, LastStart, RefusalsAreTold, PaymentsAreTold, Told, Clears, Running, Due
<1> QED
  BY <1>3, <1>4, <1>5, <1>6 DEF PlanInv

\* What the queue said of a subscription's end or start it says still, or the
\* event is the one delivered.
LEMMA StillTold ==
    ASSUME Takes, NEW e, Told(e), 1 \in DOMAIN events, events[1] # e
    PROVE  Told(e)'
<1>1. PICK k \in DOMAIN events : events[k] = e
  BY DEF Told
<1>2. k # 1
  BY <1>1
<1> QED
  BY <1>1, <1>2 DEF Takes, Told

\* A subscription ends at Paystack, for a request or otherwise.
LEMMA EndingKeeps ==
    ASSUME TypeOK, PlanInv, NEW c \in Codes, Running(c), Grows({Ended(c)}),
           subs' = [subs EXCEPT ![c].state = "disabled"],
           UNCHANGED <<rowVars, refresh, now>>
    PROVE  RowIsOfCode' /\ EndsAreTold' /\ StartsAreTold' /\ RefusalsAreTold' /\ PaymentsAreTold'
<1>0. /\ plan' = plan /\ code' = code /\ cancelled' = cancelled /\ endsAt' = endsAt
      /\ graceAt' = graceAt /\ known' = known /\ refresh' = refresh /\ now' = now
  BY DEF rowVars
<1>1. /\ \A d \in Codes : d # c => subs'[d] = subs[d]
      /\ subs'[c].state = "disabled" /\ subs'[c].plan = subs[c].plan /\ subs'[c].next = subs[c].next
  BY Marks DEF TypeOK
<1>2. \A d \in Codes : Running(d)' <=> Running(d) /\ d # c
  BY <1>1 DEF Running
<1>3. \A d \in Codes : d # c => ~Running(d)
  BY DEF PlanInv, OneAtATime
<1>4. RowIsOfCode'
  <2>1. code # None => code \in Codes
    BY DEF TypeOK
  <2>2. code # None => subs'[code].plan = subs[code].plan /\ subs'[code].next = subs[code].next
                       /\ (subs[code].state # "none" => subs'[code].state # "none")
    BY <1>1, <2>1
  <2> QED
    BY <1>0, <2>2 DEF PlanInv, RowIsOfCode
<1>5. EndsAreTold'
  <2>1. /\ \A d : Ended(d).name = "subscription.disable" /\ Ended(d).code = d
        /\ \A d : Created(d).name = "subscription.create"
    BY DEF Ended, Created, Event
  <2>2. \A e : Told(e)' => Told(e) \/ e = Ended(c)
    BY DEF Told, Grows
  <2>3. \A e : Told(e) => Told(e)'
    BY DEF Told, Grows
  <2>4. \A d \in Codes : Told(Ended(d))' => subs'[d].state = "disabled"
    BY <1>1, <2>1, <2>2 DEF PlanInv, EndsAreTold
  <2>5. code' # None /\ ~cancelled' => Running(code)' \/ Told(Ended(code))'
    <3>1. Told(Ended(c))'
      BY DEF Grows
    <3>2. code # None => code \in Codes
      BY DEF TypeOK
    <3> QED
      BY <1>0, <1>2, <2>3, <3>1, <3>2 DEF PlanInv, EndsAreTold
  <2>6. ~Told(Ended(c))
    BY DEF PlanInv, EndsAreTold, Running
  <2>7. PICK i \in DOMAIN events' : events'[i] = Ended(c)
    BY DEF Grows, Told
  <2>8. \A k \in DOMAIN events : k < i
    BY <2>6, <2>7 DEF Grows, Told
  <2>9. ASSUME NEW k \in DOMAIN events', NEW d \in Codes, events'[k] = Created(d)
        PROVE  /\ subs'[d].state # "none"
               /\ Running(d)' \/ \E j \in DOMAIN events' : j > k /\ events'[j] = Ended(d)
    <3>1. k \in DOMAIN events /\ events[k] = Created(d)
      BY <2>1, <2>9 DEF Grows
    <3>2. subs[d].state # "none" /\ (Running(d) \/ \E j \in DOMAIN events : j > k /\ events[j] = Ended(d))
      BY <3>1 DEF PlanInv, EndsAreTold
    <3>3. subs'[d].state # "none"
      BY <1>1, <3>2
    <3>4. CASE d = c
      <4>1. k < i
        BY <3>1, <2>8
      <4> QED
        BY <2>7, <3>3, <3>4, <4>1
    <3>5. CASE d # c
      BY <1>2, <1>3, <3>2, <3>3, <3>5 DEF Grows
    <3> QED
      BY <3>4, <3>5
  <2> QED
    BY <2>4, <2>5, <2>9 DEF EndsAreTold
<1>6. StartsAreTold'
  <2>1. \A d : Ended(d).name # "subscription.create"
    BY DEF Ended, Event
  <2>2. \A d \in Codes : ~Running(d)'
    BY <1>2, <1>3
  <2> QED
    BY <2>1, <2>2 DEF PlanInv, StartsAreTold, Grows
<1>7. \A d \in Codes : subs'[d].state \notin {"active", "attention"}
  BY <1>2, <1>3 DEF Running
<1>8. RefusalsAreTold' /\ PaymentsAreTold'
  BY <1>0, <1>7 DEF PlanInv, RefusalsAreTold, PaymentsAreTold
<1> QED
  BY <1>4, <1>5, <1>6, <1>8

\* A subscription starts, with none running: after an upgrade or a checkout.
LEMMA StartingKeeps ==
    ASSUME TypeOK, PlanInv, NEW c \in Codes, NEW p \in 0..TopPlan, NEW r \in Refs \cup {None},
           Starts(c, p, r), \A d \in Codes : ~Running(d),
           UNCHANGED <<rowVars, refresh, now>>
    PROVE  RowIsOfCode' /\ EndsAreTold' /\ StartsAreTold' /\ RefusalsAreTold' /\ PaymentsAreTold'
<1> DEFINE charged == Event("charge.success", r, None)
<1>0. /\ plan' = plan /\ code' = code /\ cancelled' = cancelled /\ endsAt' = endsAt
      /\ graceAt' = graceAt /\ known' = known /\ refresh' = refresh /\ now' = now
  BY DEF rowVars
<1>1. /\ \A d \in Codes : d # c => subs'[d] = subs[d]
      /\ subs'[c].state = "active" /\ subs'[c].next = now + Period
      /\ subs[c].state = "none"
  BY DEF Starts, TypeOK
<1>2. /\ \A d : Ended(d).name = "subscription.disable" /\ Ended(d).code = d
      /\ \A d : Created(d).name = "subscription.create" /\ Created(d).code = d
      /\ charged.name = "charge.success"
  BY DEF Ended, Created, Event
<1>3. /\ Grows({charged, Created(c)})
      /\ \E i \in DOMAIN events' : /\ events'[i] = Created(c)
                                   /\ \A j \in DOMAIN events' : j > i => events'[j] = charged
  <2>0. events \in Seq(Events)
    BY DEF TypeOK
  <2>1. CASE events' = events \o <<charged, Created(c)>>
    <3>1. Grows({charged, Created(c)})
      BY <2>0, <2>1, GrowsByTwo, Zenon
    <3>2. PICK i \in DOMAIN events' : /\ i + 1 \in DOMAIN events' /\ events'[i + 1] = Created(c)
                                      /\ \A j \in DOMAIN events' : j <= i + 1
      BY <2>0, <2>1, GrowsByTwo, Zenon
    <3>3. \A j \in DOMAIN events' : ~(j > i + 1)
      BY <3>2, StartsTypes
    <3> QED
      BY <3>1, <3>2, <3>3
  <2>2. CASE events' = events \o <<Created(c), charged>>
    <3>1. Grows({Created(c), charged})
      BY <2>0, <2>2, GrowsByTwo, Zenon
    <3>2. PICK i \in DOMAIN events' : /\ events'[i] = Created(c)
                                      /\ i + 1 \in DOMAIN events' /\ events'[i + 1] = charged
                                      /\ \A j \in DOMAIN events' : j <= i + 1
      BY <2>0, <2>2, GrowsByTwo, Zenon
    <3>3. events' \in Seq(Events)
      BY StartsTypes
    <3>4. \A j \in DOMAIN events' : j > i => j = i + 1
      BY <3>2, <3>3
    <3>5. \A j \in DOMAIN events' : j > i => events'[j] = charged
      BY <3>2, <3>4
    <3>6. {Created(c), charged} = {charged, Created(c)}
      OBVIOUS
    <3> QED
      BY <3>1, <3>2, <3>5, <3>6
  <2> QED
    BY <2>1, <2>2 DEF Starts, Created
<1> HIDE DEF charged
<1>4. \A d \in Codes : Running(d)' <=> d = c
  BY <1>1 DEF Running
<1>5. code # None => code \in Codes /\ code # c
  BY <1>1 DEF PlanInv, RowIsOfCode, TypeOK
<1>6. RowIsOfCode'
  BY <1>0, <1>1, <1>5 DEF PlanInv, RowIsOfCode
<1>7. EndsAreTold'
  <2>1. \A e : Told(e)' => Told(e) \/ e = charged \/ e = Created(c)
    BY <1>3 DEF Told, Grows
  <2>2. \A e : Told(e) => Told(e)'
    BY <1>3 DEF Told, Grows
  <2>3. ASSUME NEW d \in Codes, Told(Ended(d))' PROVE subs'[d].state = "disabled"
    <3>1. Told(Ended(d))
      BY <1>2, <2>1, <2>3
    <3>2. subs[d].state = "disabled"
      BY <3>1 DEF PlanInv, EndsAreTold
    <3> QED
      BY <1>1, <3>2
  <2>4. code' # None /\ ~cancelled' => Running(code)' \/ Told(Ended(code))'
    BY <1>0, <1>5, <2>2 DEF PlanInv, EndsAreTold
  <2>5. ASSUME NEW k \in DOMAIN events', NEW d \in Codes, events'[k] = Created(d)
        PROVE  /\ subs'[d].state # "none"
               /\ Running(d)' \/ \E j \in DOMAIN events' : j > k /\ events'[j] = Ended(d)
    <3>1. CASE d = c
      BY <1>1, <1>4, <3>1
    <3>2. CASE d # c
      <4>1. k \in DOMAIN events /\ events[k] = Created(d)
        BY <1>2, <1>3, <2>5, <3>2 DEF Grows
      <4>2. /\ subs[d].state # "none"
            /\ \E j \in DOMAIN events : j > k /\ events[j] = Ended(d)
        BY <4>1 DEF PlanInv, EndsAreTold
      <4> QED
        BY <1>1, <1>3, <3>2, <4>2 DEF Grows
    <3> QED
      BY <3>1, <3>2
  <2> QED
    BY <2>3, <2>4, <2>5 DEF EndsAreTold
<1>8. StartsAreTold'
  <2>1. \A k \in DOMAIN events' :
           events'[k].name = "subscription.create" => events'[k] = Created(events'[k].code)
    BY <1>2, <1>3 DEF PlanInv, StartsAreTold, Grows
  <2>2. \E k \in DOMAIN events' : events'[k] = Created(c) /\ LastStart(k)'
    BY <1>2, <1>3 DEF LastStart
  <2> QED
    BY <1>4, <2>1, <2>2 DEF StartsAreTold
<1>9. RefusalsAreTold'
  <2>1. ~(subs'[c].next <= now)
    BY <1>1, ConstantsAssumption DEF TypeOK
  <2>2. \A d \in Codes : ~Due(d)'
    BY <1>0, <1>4, <2>1 DEF Due
  <2>3. \A d \in Codes : subs'[d].state # "attention"
    BY <1>1, <1>4 DEF Running
  <2> QED
    BY <1>0, <2>2, <2>3 DEF PlanInv, RefusalsAreTold
<1>10. PaymentsAreTold'
  <2>1. PICK i \in DOMAIN events' : /\ events'[i] = Created(c)
                                    /\ \A j \in DOMAIN events' : j > i => events'[j] = charged
    BY <1>3
  <2>2. Clears(i)'
    BY <1>2, <2>1 DEF Clears
  <2>3. \A j \in DOMAIN events' : j > i => events'[j].name # "charge.failed"
    BY <1>2, <2>1
  <2> QED
    BY <2>2, <2>3 DEF PaymentsAreTold
<1> QED
  BY <1>6, <1>7, <1>8, <1>9, <1>10

\* The requests' calls, and a checkout that is used as it should be.
LEMMA CallsKeep ==
    ASSUME TypeOK, PlanInv, NEW w \in Workers, Disable(w) \/ \E c \in Codes : Create(w, c)
    PROVE  PlanInv'
<1>1. CASE Disable(w)
  <2> DEFINE c == job[w].code
  <2>1. c \in Codes /\ Running(c)
    BY <1>1 DEF Disable, GoesOn, TypeOK, Jobs
  <2>2. /\ subs' = [subs EXCEPT ![c].state = "disabled"]
        /\ events' = Append(events, Ended(c))
        /\ UNCHANGED <<rowVars, refresh, now>>
    BY <1>1, <2>1 DEF Disable, Ended
  <2>3. \A v \in Workers : v # w => job'[v] = job[v]
    BY <1>1 DEF Disable, TypeOK
  <2> HIDE DEF c
  <2>4. Grows({Ended(c)})
    BY <2>2, GrowsByOne DEF TypeOK
  <2>5. OneAtATime'
    <3>1. \A d \in Codes : ~Running(d)'
      BY <2>1, <2>2, Marks DEF PlanInv, OneAtATime, Running, TypeOK
    <3>2. \A v \in Workers : Creates(v)' => v = w
      BY <2>1, <2>3 DEF PlanInv, OneAtATime, Creates
    <3> QED
      BY <3>1, <3>2 DEF OneAtATime
  <2> QED
    BY <2>1, <2>2, <2>4, <2>5, EndingKeeps DEF PlanInv
<1>2. ASSUME NEW c \in Codes, Create(w, c) PROVE PlanInv'
  <2>1. Creates(w) /\ Starts(c, job[w].plan, None) /\ job' = [job EXCEPT ![w] = Idle]
        /\ UNCHANGED <<rowVars, refresh, now>>
    BY <1>2 DEF Create, Creates
  <2>2. \A d \in Codes : ~Running(d)
    BY <2>1 DEF PlanInv, OneAtATime
  <2>3. job[w].plan \in 0..TopPlan
    BY DEF TypeOK, Jobs, JobRecords
  <2>4. OneAtATime'
    <3>1. \A d \in Codes : Running(d)' => d = c
      BY <2>1, <2>2 DEF Starts, Running, TypeOK
    <3>2. \A v \in Workers : ~Creates(v)'
      BY <2>1 DEF PlanInv, OneAtATime, Creates, TypeOK, Idle, Request
    <3> QED
      BY <3>1, <3>2 DEF OneAtATime
  <2> QED
    BY <2>1, <2>2, <2>3, <2>4, StartingKeeps DEF PlanInv
<1> QED
  BY <1>1, <1>2

LEMMA CheckoutKeeps ==
    ASSUME TypeOK, PlanInv, NEW r \in Refs, NEW c \in Codes, Pays(r, c), hit' \subseteq Harmless
    PROVE  PlanInv'
<1>1. (\A d \in Codes : ~Running(d)) /\ (\A w \in Workers : ~Creates(w))
  BY DEF Pays, Uses, Creates, Harmless
<1>2. Starts(c, page[r].plan, r) /\ UNCHANGED <<rowVars, refresh, now, job>>
  BY DEF Pays
<1>3. page[r].plan \in 0..TopPlan
  BY DEF TypeOK, Pages
<1>4. \A d \in Codes : Running(d)' => d = c
  BY <1>1, <1>2 DEF Starts, Running, TypeOK
<1>5. \A w \in Workers : ~Creates(w)'
  BY <1>1, <1>2 DEF Creates
<1>6. OneAtATime'
  BY <1>4, <1>5 DEF OneAtATime
<1> QED
  BY <1>1, <1>2, <1>3, <1>6, StartingKeeps DEF PlanInv

\* A delivery that tells the row no subscription's end or start.
LEMMA EndsStillTold ==
    ASSUME TypeOK, PlanInv, Takes, 1 \in DOMAIN events, subs' = subs, code' = code,
           cancelled => cancelled', events[1].name = "subscription.disable" => cancelled'
    PROVE  EndsAreTold'
<1>1. \A d : Ended(d).name = "subscription.disable"
  BY DEF Ended, Event
<1>2. \A e : Told(e)' => Told(e)
  BY DEF Told, Takes
<1>3. \A d \in Codes : Running(d)' <=> Running(d)
  BY DEF Running
<1>4. \A d \in Codes : Told(Ended(d))' => subs'[d].state = "disabled"
  BY <1>2 DEF PlanInv, EndsAreTold
<1>5. code' # None /\ ~cancelled' => Running(code)' \/ Told(Ended(code))'
  <2> SUFFICES ASSUME code # None, ~cancelled' PROVE Running(code)' \/ Told(Ended(code))'
    OBVIOUS
  <2>1. code \in Codes /\ (Running(code) \/ Told(Ended(code)))
    BY DEF PlanInv, EndsAreTold, TypeOK
  <2>2. events[1] # Ended(code)
    BY <1>1
  <2> QED
    BY <1>3, <2>1, <2>2, StillTold
<1>6. ASSUME NEW k \in DOMAIN events', NEW d \in Codes, events'[k] = Created(d)
      PROVE  /\ subs'[d].state # "none"
             /\ Running(d)' \/ \E j \in DOMAIN events' : j > k /\ events'[j] = Ended(d)
  <2>1. k + 1 \in DOMAIN events /\ events[k + 1] = Created(d)
    BY <1>6 DEF Takes
  <2>2. /\ subs[d].state # "none"
        /\ Running(d) \/ \E j \in DOMAIN events : j > k + 1 /\ events[j] = Ended(d)
    BY <2>1 DEF PlanInv, EndsAreTold
  <2>3. k \in Int /\ \A j \in DOMAIN events : j \in Int
    <3>1. events \in Seq(Events)
      BY DEF TypeOK
    <3>2. k + 1 \in Nat /\ \A j \in DOMAIN events : j \in Nat
      BY <2>1, <3>1
    <3>3. k \in Int
      BY <1>6, <3>1 DEF Takes
    <3> QED
      BY <3>2, <3>3
  <2>4. ASSUME NEW j \in DOMAIN events, j > k + 1, events[j] = Ended(d)
        PROVE  \E i \in DOMAIN events' : i > k /\ events'[i] = Ended(d)
    <3>1. j \in Nat /\ 1 \in DOMAIN events /\ j # 1
      <4>1. events \in Seq(Events)
        BY DEF TypeOK
      <4> QED
        BY <2>1, <2>4, <4>1
    <3>2. j - 1 \in DOMAIN events' /\ events'[j - 1] = Ended(d) /\ j - 1 > k
      BY <2>3, <2>4, <3>1 DEF Takes
    <3> QED
      BY <3>2
  <2> QED
    BY <1>3, <2>2, <2>4
<1> QED
  BY <1>4, <1>5, <1>6 DEF EndsAreTold

\* What a delivery leaves of the other conjuncts, when nothing is cleared.
LEMMA StartsStillTold ==
    ASSUME TypeOK, PlanInv, Takes, 1 \in DOMAIN events, subs' = subs, hit \subseteq hit',
           \/ events[1].name # "subscription.create" /\ code' = code
           \/ events[1] = Created(code')
           \/ ~StartsHandled'
    PROVE  StartsAreTold'
<1>1. \A d : Created(d).name = "subscription.create" /\ Created(d).code = d
  BY DEF Created, Event
<1>2. \A d \in Codes : Running(d)' <=> Running(d)
  BY DEF Running
<1>3. ASSUME NEW k \in DOMAIN events', events'[k].name = "subscription.create"
      PROVE  events'[k] = Created(events'[k].code)
  BY <1>3 DEF PlanInv, StartsAreTold, Takes
<1>4. ASSUME StartsHandled', NEW d \in Codes, Running(d)'
      PROVE  \/ code' = d /\ \A k \in DOMAIN events' : events'[k].name # "subscription.create"
             \/ \E k \in DOMAIN events' : events'[k] = Created(d) /\ LastStart(k)'
  <2>0. \A j \in DOMAIN events : j \in Nat /\ j >= 1
    <3>1. events \in Seq(Events)
      BY DEF TypeOK
    <3> QED
      BY <3>1
  <2>1. \/ code = d /\ \A k \in DOMAIN events : events[k].name # "subscription.create"
        \/ \E k \in DOMAIN events : events[k] = Created(d) /\ LastStart(k)
    BY <1>2, <1>4, StartsOnceHandled DEF PlanInv, StartsAreTold
  <2>2. CASE code = d /\ \A k \in DOMAIN events : events[k].name # "subscription.create"
    <3>1. code' = d
      BY <1>1, <1>4, <2>2
    <3> QED
      BY <2>2, <3>1 DEF Takes
  <2>3. ASSUME NEW k \in DOMAIN events, events[k] = Created(d), LastStart(k), k = 1
        PROVE  code' = d /\ \A i \in DOMAIN events' : events'[i].name # "subscription.create"
    <3>1. code' = d
      BY <1>1, <1>4, <2>3
    <3>2. ASSUME NEW i \in DOMAIN events' PROVE events'[i].name # "subscription.create"
      <4>1. i \in Nat \ {0} /\ i + 1 \in DOMAIN events /\ events'[i] = events[i + 1]
        BY DEF Takes
      <4>2. i + 1 > 1
        BY <4>1
      <4> QED
        BY <2>3, <4>1, <4>2 DEF LastStart
    <3> QED
      BY <3>1, <3>2
  <2>4. ASSUME NEW k \in DOMAIN events, events[k] = Created(d), LastStart(k), k # 1
        PROVE  \E i \in DOMAIN events' : events'[i] = Created(d) /\ LastStart(i)'
    <3>1. k - 1 \in DOMAIN events' /\ events'[k - 1] = Created(d)
      BY <2>4 DEF Takes
    <3>2. ASSUME NEW j \in DOMAIN events', j > k - 1 PROVE events'[j].name # "subscription.create"
      <4>1. j \in Nat /\ j + 1 \in DOMAIN events /\ events'[j] = events[j + 1]
        BY DEF Takes
      <4>2. j + 1 > k
        BY <2>0, <3>2, <4>1
      <4> QED
        BY <2>4, <4>1, <4>2 DEF LastStart
    <3> QED
      BY <3>1, <3>2 DEF LastStart
  <2> QED
    BY <2>1, <2>2, <2>3, <2>4
<1> QED
  BY <1>3, <1>4 DEF StartsAreTold

LEMMA RefusalsStillTold ==
    ASSUME TypeOK, PlanInv, Takes, 1 \in DOMAIN events, subs' = subs, now' = now,
           code' = code \/ events[1].name = "subscription.create",
           \/ graceAt' = graceAt /\ events[1].name # "charge.failed"
           \/ graceAt' = None /\ events[1].name \in {"charge.success", "subscription.create"}
           \/ graceAt' = GraceStart /\ events[1].name = "charge.failed"
           \/ graceAt' = graceAt /\ events[1] # Refused
    PROVE  RefusalsAreTold'
<1>1. graceAt' # None => graceAt' <= now
  BY DEF PlanInv, RefusalsAreTold, GraceStart, TypeOK
<1>2. \A d \in Codes : ~(subs[d].state = "active" /\ Due(d))
  <2>1. events # <<>>
    OBVIOUS
  <2> QED
    BY <2>1 DEF PlanInv, RefusalsAreTold
<1>3. \A d \in Codes : Due(d)' <=> Due(d)
  BY DEF Due, Running
<1>4. ASSUME NEW d \in Codes, subs[d].state = "attention"
      PROVE  /\ Due(d)'
             /\ \A k \in DOMAIN events' : events'[k].name \notin {"charge.success", "subscription.create"}
             /\ \/ d # code'
                \/ graceAt' # None /\ graceAt' <= subs[d].next
                \/ now = subs[d].next /\ Told(Refused)'
  <2>1. /\ Due(d) /\ code' = code
        /\ \A k \in DOMAIN events : events[k].name \notin {"charge.success", "subscription.create"}
        /\ \/ d # code
           \/ graceAt # None /\ graceAt <= subs[d].next
           \/ now = subs[d].next /\ Told(Refused)
    BY <1>4 DEF PlanInv, RefusalsAreTold
  <2>2. \A k \in DOMAIN events' : events'[k].name \notin {"charge.success", "subscription.create"}
    BY <2>1 DEF Takes
  <2>3. /\ now \in Int /\ (graceAt # None => graceAt \in Int /\ graceAt <= now)
        /\ subs[d].next \in Int /\ None \notin Nat
    BY ConstantsAssumption DEF TypeOK, SubRecords, PlanInv, RefusalsAreTold
  <2>4. \/ d # code'
        \/ graceAt' # None /\ graceAt' <= subs[d].next
        \/ now = subs[d].next /\ Told(Refused)'
    <3>1. CASE graceAt' = graceAt /\ events[1] # Refused
      BY <2>1, <3>1, StillTold
    <3>2. CASE graceAt' = GraceStart
      <4>1. now \in Nat
        BY ConstantsAssumption DEF TypeOK
      <4> QED
        BY <2>1, <2>3, <3>2, <4>1 DEF GraceStart
    <3>3. graceAt' = graceAt => (events[1].name # "charge.failed" => events[1] # Refused)
      BY DEF Refused, Event
    <3> QED
      BY <2>1, <3>1, <3>2, <3>3
  <2> QED
    BY <1>3, <2>1, <2>2, <2>4
<1> QED
  BY <1>1, <1>2, <1>3, <1>4 DEF RefusalsAreTold

LEMMA PaymentsStillTold ==
    ASSUME TypeOK, PlanInv, Takes, 1 \in DOMAIN events, subs' = subs, known => known',
           hit \subseteq hit',
           \/ graceAt' = graceAt /\ ~Clears(1)
           \/ graceAt' = None
           \/ events[1].name = "charge.failed"
           \/ ~StartsHandled'
    PROVE  PaymentsAreTold'
<1> SUFFICES ASSUME StartsHandled', NEW d \in Codes, subs[d].state = "active"
             PROVE  \/ graceAt' = None /\ \A k \in DOMAIN events' : events'[k].name # "charge.failed"
                    \/ \E k \in DOMAIN events' :
                          /\ Clears(k)'
                          /\ \A j \in DOMAIN events' : j > k => events'[j].name # "charge.failed"
  BY DEF PaymentsAreTold
<1>0. \A j \in DOMAIN events : j \in Nat /\ j >= 1
  <2>1. events \in Seq(Events)
    BY DEF TypeOK
  <2> QED
    BY <2>1
<1>1. CASE graceAt = None /\ \A k \in DOMAIN events : events[k].name # "charge.failed"
  BY <1>1 DEF Takes
<1>2. ASSUME NEW k \in DOMAIN events, Clears(k),
             \A j \in DOMAIN events : j > k => events[j].name # "charge.failed",
             k # 1
      PROVE  \E i \in DOMAIN events' :
                /\ Clears(i)'
                /\ \A j \in DOMAIN events' : j > i => events'[j].name # "charge.failed"
  <2>1. k - 1 \in DOMAIN events' /\ events'[k - 1] = events[k]
    BY <1>2 DEF Takes
  <2>2. Clears(k - 1)'
    BY <1>2, <2>1 DEF Clears
  <2>3. ASSUME NEW j \in DOMAIN events', j > k - 1 PROVE events'[j].name # "charge.failed"
    <3>1. j + 1 \in DOMAIN events /\ events'[j] = events[j + 1] /\ j \in Int
      BY <2>3 DEF Takes
    <3> QED
      BY <1>0, <1>2, <2>3, <3>1
  <2> QED
    BY <2>1, <2>2, <2>3
<1>3. CASE Clears(1) /\ \A j \in DOMAIN events : j > 1 => events[j].name # "charge.failed"
  <2>1. graceAt' = None
    BY <1>3 DEF Clears
  <2>2. ASSUME NEW j \in DOMAIN events' PROVE events'[j].name # "charge.failed"
    BY <1>3 DEF Takes
  <2> QED
    BY <2>1, <2>2
<1> QED
  BY <1>1, <1>2, <1>3, StartsOnceHandled DEF PlanInv, PaymentsAreTold

\* The webhooks, each delivered first in the queue.
LEMMA HooksKeep ==
    ASSUME TypeOK, PlanInv, hit' \subseteq Harmless, NEW k \in DOMAIN events,
           \/ ChargeSucceeded(k) \/ ChargeFailed(k)
           \/ SubscriptionCreated(k) \/ SubscriptionDisabled(k)
    PROVE  PlanInv'
<1>1. k = 1 /\ 1 \in DOMAIN events /\ refresh = {} /\ Takes /\ hit' = hit
  <2>1. Arrives(k, {})
    BY DEF ChargeSucceeded, ChargeFailed, SubscriptionCreated, SubscriptionDisabled, Deliver
  <2>2. k = 1 /\ refresh = {} /\ hit' = hit \cup {} /\ Takes
    BY <2>1, TakesFirst, Zenon
  <2> QED
    BY <2>2
<1>2. subs' = subs /\ job' = job /\ now' = now
  BY DEF ChargeSucceeded, ChargeFailed, SubscriptionCreated, SubscriptionDisabled, payVars
<1>3. OneAtATime'
  BY <1>2 DEF PlanInv, OneAtATime, Running, Creates
<1>4. known \in BOOLEAN /\ cancelled \in BOOLEAN
  BY DEF TypeOK
<1>5. CASE ChargeSucceeded(1)
  <2>1. /\ plan' = plan /\ code' = code /\ cancelled' = cancelled /\ endsAt' = endsAt
        /\ events[1].name = "charge.success"
        /\ known => known'
        /\ refresh' \subseteq ToRefresh
        /\ graceAt' = graceAt \/ graceAt' = None
        /\ known => graceAt' = None
    BY <1>1, <1>5, Zenon DEF ChargeSucceeded
  <2>2. events[1] # Refused /\ events[1].name # "subscription.create" /\ events[1].name # "charge.failed"
        /\ events[1].name # "subscription.disable"
    BY <2>1 DEF Refused, Event
  <2>3. RowIsOfCode'
    BY <1>2, <2>1 DEF PlanInv, RowIsOfCode, ToRefresh
  <2>4. EndsAreTold'
    BY <1>1, <1>2, <2>1, <2>2, EndsStillTold
  <2>5. StartsAreTold'
    BY <1>1, <1>2, <2>1, <2>2, StartsStillTold
  <2>6. RefusalsAreTold'
    BY <1>1, <1>2, <2>1, <2>2, RefusalsStillTold
  <2>7. PaymentsAreTold'
    BY <1>1, <1>2, <2>1, <2>2, PaymentsStillTold DEF Clears
  <2> QED
    BY <1>3, <2>3, <2>4, <2>5, <2>6, <2>7 DEF PlanInv
<1>6. CASE ChargeFailed(1)
  <2>1. /\ plan' = plan /\ code' = code /\ cancelled' = cancelled /\ endsAt' = endsAt
        /\ events[1].name = "charge.failed"
        /\ known' = known /\ refresh' = refresh
        /\ graceAt' = IF ~(events[1].ref # None /\ events[1].ref = pending) /\ known THEN GraceStart ELSE graceAt
    BY <1>6, Zenon DEF ChargeFailed
  <2>2. events[1].name # "subscription.create" /\ events[1].name # "subscription.disable"
    BY <2>1
  <2>3. RowIsOfCode'
    BY <1>2, <2>1 DEF PlanInv, RowIsOfCode
  <2>4. EndsAreTold'
    BY <1>1, <1>2, <2>1, <2>2, EndsStillTold
  <2>5. StartsAreTold'
    BY <1>1, <1>2, <2>1, <2>2, StartsStillTold
  <2>6. RefusalsAreTold'
    <3>1. CASE graceAt' = GraceStart
      BY <1>1, <1>2, <2>1, <3>1, RefusalsStillTold
    <3>2. CASE graceAt' = graceAt /\ events[1].ref # None
      <4>1. events[1] # Refused
        BY <3>2 DEF Refused, Event
      <4> QED
        BY <1>1, <1>2, <2>1, <3>2, <4>1, RefusalsStillTold
    <3>3. CASE graceAt' = graceAt /\ ~known
      <4>1. \A d \in Codes : d # code
        BY <3>3, ConstantsAssumption DEF PlanInv, RowIsOfCode
      <4>2. \A d \in Codes : subs'[d].state = "attention" =>
               /\ Due(d)'
               /\ \A i \in DOMAIN events' : events'[i].name \notin {"charge.success", "subscription.create"}
        BY <1>1, <1>2 DEF PlanInv, RefusalsAreTold, Due, Running, Takes
      <4>3. events # <<>>
        BY <1>1
      <4>4. \A d \in Codes : ~(subs'[d].state = "active" /\ Due(d)')
        BY <1>2, <4>3 DEF PlanInv, RefusalsAreTold, Due, Running
      <4> QED
        BY <1>2, <2>1, <3>3, <4>1, <4>2, <4>4 DEF PlanInv, RefusalsAreTold
    <3> QED
      BY <2>1, <3>1, <3>2, <3>3
  <2>7. PaymentsAreTold'
    BY <1>1, <1>2, <2>1, PaymentsStillTold
  <2> QED
    BY <1>3, <2>3, <2>4, <2>5, <2>6, <2>7 DEF PlanInv
<1>7. CASE SubscriptionCreated(1)
  <2>0. events[1].name = "subscription.create" /\ events[1] \in Events
    BY <1>1, <1>7 DEF SubscriptionCreated, TypeOK
  <2>1. PICK c \in Codes : c = events[1].code
    BY <2>0 DEF Events
  <2>2. /\ plan' = subs[c].plan /\ code' = c /\ cancelled' = FALSE /\ endsAt' = subs[c].next
        /\ known' = TRUE /\ refresh' = refresh /\ graceAt' = None /\ c # None
    BY <1>7, <2>1, ConstantsAssumption DEF SubscriptionCreated
  <2>3. /\ events[1] = Created(c)
        /\ subs[c].state # "none"
        /\ Running(c) \/ \E j \in DOMAIN events : j > 1 /\ events[j] = Ended(c)
    <3>1. events[1] = Created(c)
      BY <1>1, <2>0, <2>1 DEF PlanInv, StartsAreTold
    <3> QED
      BY <1>1, <3>1 DEF PlanInv, EndsAreTold
  <2>4. events[1].name # "subscription.disable" /\ events[1].name # "charge.failed"
    BY <2>0
  <2>5. RowIsOfCode'
    <3>1. subs[c].next <= subs[c].next
      BY DEF TypeOK, SubRecords
    <3> QED
      BY <1>1, <1>2, <2>2, <2>3, <3>1 DEF RowIsOfCode
  <2>6. EndsAreTold'
    <3>1. Running(c)' \/ Told(Ended(c))'
      <4>1. ASSUME NEW j \in DOMAIN events, j > 1, events[j] = Ended(c) PROVE Told(Ended(c))'
        <5>1. j # 1
          BY <4>1
        <5> QED
          BY <1>1, <4>1, <5>1 DEF Takes, Told
      <4> QED
        BY <1>2, <2>3, <4>1 DEF Running
    <3>2. \A d : Ended(d).name = "subscription.disable"
      BY DEF Ended, Event
    <3>3. \A d \in Codes : Told(Ended(d))' => subs'[d].state = "disabled"
      BY <1>1, <1>2 DEF PlanInv, EndsAreTold, Told, Takes
    <3>4. ASSUME NEW i \in DOMAIN events', NEW d \in Codes, events'[i] = Created(d)
          PROVE  /\ subs'[d].state # "none"
                 /\ Running(d)' \/ \E j \in DOMAIN events' : j > i /\ events'[j] = Ended(d)
      <4>1. /\ i \in Nat /\ i + 1 \in DOMAIN events /\ events[i + 1] = Created(d)
            /\ \A j \in DOMAIN events : j \in Nat
        <5>1. \A j \in DOMAIN events : j \in Nat
          BY DEF TypeOK
        <5> QED
          BY <1>1, <3>4, <5>1 DEF Takes
      <4>2. /\ subs[d].state # "none"
            /\ Running(d) \/ \E j \in DOMAIN events : j > i + 1 /\ events[j] = Ended(d)
        BY <4>1 DEF PlanInv, EndsAreTold
      <4>3. ASSUME NEW j \in DOMAIN events, j > i + 1, events[j] = Ended(d)
            PROVE  \E n \in DOMAIN events' : n > i /\ events'[n] = Ended(d)
        <5>1. j # 1 /\ j \in Nat
          BY <4>1, <4>3
        <5>2. j - 1 \in DOMAIN events' /\ events'[j - 1] = Ended(d) /\ j - 1 > i
          BY <1>1, <4>1, <4>3, <5>1 DEF Takes
        <5> QED
          BY <5>2
      <4> QED
        BY <1>2, <4>2, <4>3 DEF Running
    <3> QED
      BY <2>2, <3>1, <3>3, <3>4 DEF EndsAreTold
  <2>7. StartsAreTold'
    BY <1>1, <1>2, <2>2, <2>3, StartsStillTold
  <2>8. RefusalsAreTold'
    BY <1>1, <1>2, <2>0, <2>2, RefusalsStillTold
  <2>9. PaymentsAreTold'
    BY <1>1, <1>2, <2>2, PaymentsStillTold
  <2> QED
    BY <1>3, <2>5, <2>6, <2>7, <2>8, <2>9 DEF PlanInv
<1>8. CASE SubscriptionDisabled(1)
  <2>1. /\ plan' = plan /\ code' = code /\ cancelled' = TRUE /\ endsAt' = endsAt
        /\ events[1].name = "subscription.disable"
        /\ known' = known /\ refresh' = refresh /\ graceAt' = graceAt
    BY <1>8 DEF SubscriptionDisabled
  <2>2. events[1].name # "subscription.create" /\ events[1].name # "charge.failed" /\ ~Clears(1)
    BY <2>1 DEF Clears
  <2>3. RowIsOfCode'
    BY <1>2, <2>1 DEF PlanInv, RowIsOfCode
  <2>4. EndsAreTold'
    BY <1>1, <1>2, <2>1, EndsStillTold
  <2>5. StartsAreTold'
    BY <1>1, <1>2, <2>1, <2>2, StartsStillTold
  <2>6. RefusalsAreTold'
    BY <1>1, <1>2, <2>1, <2>2, RefusalsStillTold
  <2>7. PaymentsAreTold'
    BY <1>1, <1>2, <2>1, <2>2, PaymentsStillTold
  <2> QED
    BY <1>3, <2>3, <2>4, <2>5, <2>6, <2>7 DEF PlanInv
<1> QED
  BY <1>1, <1>5, <1>6, <1>7, <1>8

\* The start of a subscription passes for another: the row is left as it was.
LEMMA DuplicateKeeps ==
    ASSUME TypeOK, PlanInv, hit' \subseteq Harmless, NEW k \in DOMAIN events, Duplicate(k)
    PROVE  PlanInv'
<1> DEFINE name == events[k].name
<1>1. k = 1 /\ 1 \in DOMAIN events /\ Takes /\ hit' = hit \cup {name}
  BY TakesFirst DEF Duplicate
<1>2. name = "subscription.create" /\ ~StartsHandled'
  <2>1. name \in Harmless
    BY <1>1
  <2>2. events[k] \in Events
    BY DEF TypeOK
  <2>3. name # "refresh"
    BY <2>2 DEF Events, EventRecords
  <2> QED
    BY <1>1, <2>1, <2>3 DEF Harmless, StartsHandled
<1>3. /\ plan' = plan /\ code' = code /\ cancelled' = cancelled /\ endsAt' = endsAt
      /\ graceAt' = graceAt /\ known' = known /\ refresh' = refresh
      /\ subs' = subs /\ job' = job /\ now' = now
  BY DEF Duplicate, rowVars, payVars
<1>4. events[1].name = "subscription.create"
  BY <1>1, <1>2
<1> HIDE DEF name
<1>5. OneAtATime' /\ RowIsOfCode'
  BY <1>3 DEF PlanInv, OneAtATime, RowIsOfCode, Running, Creates
<1>6. EndsAreTold'
  BY <1>1, <1>3, <1>4, EndsStillTold
<1>7. StartsAreTold'
  BY <1>1, <1>2, <1>3, StartsStillTold
<1>8. RefusalsAreTold'
  BY <1>1, <1>3, <1>4, RefusalsStillTold
<1>9. PaymentsAreTold'
  BY <1>1, <1>2, <1>3, PaymentsStillTold
<1> QED
  BY <1>5, <1>6, <1>7, <1>8, <1>9 DEF PlanInv

\* The refresh that follows a renewal's webhook, made or lost.
LEMMA RefreshKeeps ==
    ASSUME TypeOK, PlanInv, NEW c \in Codes, Refresh(c) \/ RefreshLost(c)
    PROVE  PlanInv'
<1>1. /\ plan' = plan /\ code' = code /\ cancelled' = cancelled /\ graceAt' = graceAt
      /\ known' = known /\ job' = job /\ now' = now /\ subs' = subs /\ events' = events
      /\ refresh' = refresh \ {c} /\ c \in refresh
      /\ endsAt' = endsAt \/ endsAt' = subs[c].next
      /\ StartsHandled' => StartsHandled
  BY DEF Refresh, RefreshLost, StartsHandled, rowVars, payVars
<1>2. c = code /\ c # None
  BY <1>1, ConstantsAssumption DEF PlanInv, RowIsOfCode
<1>3. subs[c].next <= subs[c].next
  BY DEF TypeOK, SubRecords
<1>4. RowIsOfCode'
  BY <1>1, <1>2, <1>3 DEF PlanInv, RowIsOfCode
<1>5. OneAtATime' /\ EndsAreTold' /\ StartsAreTold' /\ PaymentsAreTold'
  BY <1>1 DEF PlanInv, OneAtATime, EndsAreTold, StartsAreTold, PaymentsAreTold, Told, Clears,
              Running, Creates, LastStart
<1>6. RefusalsAreTold'
  BY <1>1 DEF PlanInv, RefusalsAreTold, Told, Due, Running
<1> QED
  BY <1>4, <1>5, <1>6 DEF PlanInv

\* A checkout's charge is declined, with no subscription running.
LEMMA DeclinedKeeps ==
    ASSUME TypeOK, PlanInv, NEW r \in Refs, Declined(r), hit' \subseteq Harmless
    PROVE  PlanInv'
<1> DEFINE e == Event("charge.failed", r, None)
<1>1. /\ \A d \in Codes : ~Running(d)
      /\ Emit(e) /\ UNCHANGED <<rowVars, refresh, job, now, payVars>>
  BY DEF Declined, Uses, Harmless
<1>2. /\ \A d : Ended(d).name = "subscription.disable" /\ Created(d).name = "subscription.create"
      /\ e.name = "charge.failed"
  BY DEF Ended, Created, Event
<1> HIDE DEF e
<1>3. Grows({e})
  BY <1>1, GrowsIfNew DEF TypeOK
<1>4. /\ plan' = plan /\ code' = code /\ cancelled' = cancelled /\ endsAt' = endsAt
      /\ graceAt' = graceAt /\ known' = known /\ refresh' = refresh /\ now' = now
      /\ subs' = subs /\ job' = job
  BY <1>1 DEF rowVars, payVars
<1>5. \A d \in Codes : ~Running(d)' /\ subs'[d].state \notin {"active", "attention"}
  BY <1>1, <1>4 DEF Running
<1>6. OneAtATime' /\ RowIsOfCode'
  BY <1>4 DEF PlanInv, OneAtATime, RowIsOfCode, Running, Creates
<1>7. EndsAreTold'
  <2>1. \A d : Told(Ended(d))' <=> Told(Ended(d))
    BY <1>2, <1>3 DEF Told, Grows
  <2>2. ASSUME NEW k \in DOMAIN events', NEW d \in Codes, events'[k] = Created(d)
        PROVE  /\ subs'[d].state # "none"
               /\ \E j \in DOMAIN events' : j > k /\ events'[j] = Ended(d)
    <3>1. k \in DOMAIN events /\ events[k] = Created(d)
      BY <1>2, <1>3, <2>2 DEF Grows
    <3> QED
      BY <1>1, <1>3, <1>4, <3>1 DEF PlanInv, EndsAreTold, Grows
  <2>3. \A d \in Codes : Told(Ended(d))' => subs'[d].state = "disabled"
    BY <1>4, <2>1 DEF PlanInv, EndsAreTold
  <2>4. code' # None /\ ~cancelled' => Told(Ended(code))'
    BY <1>1, <1>4, <2>1 DEF PlanInv, EndsAreTold, TypeOK
  <2> QED
    BY <1>4, <2>2, <2>3, <2>4 DEF EndsAreTold
<1>8. StartsAreTold'
  BY <1>2, <1>3, <1>5 DEF PlanInv, StartsAreTold, Grows
<1>9. RefusalsAreTold' /\ PaymentsAreTold'
  BY <1>4, <1>5 DEF PlanInv, RefusalsAreTold, PaymentsAreTold
<1> QED
  BY <1>6, <1>7, <1>8, <1>9 DEF PlanInv

\* A due renewal is charged, or refused.
LEMMA RenewalKeeps ==
    ASSUME TypeOK, PlanInv, NEW c \in Codes, Renews(c) \/ RenewalFails(c)
    PROVE  PlanInv'
<1>00. TypeOK'
  BY OutsideTypeOK
<1>0. /\ plan' = plan /\ code' = code /\ cancelled' = cancelled /\ endsAt' = endsAt
      /\ graceAt' = graceAt /\ known' = known /\ refresh' = refresh /\ now' = now
      /\ job' = job /\ Due(c) /\ hit' = hit
  BY DEF Renews, RenewalFails, rowVars
<1>1. /\ \A d : Ended(d).name = "subscription.disable" /\ Created(d).name = "subscription.create"
      /\ Renewed.name = "charge.success" /\ Refused.name = "charge.failed"
  BY DEF Ended, Created, Renewed, Refused, Event
<1>2. PICK f \in {Renewed, Refused} : /\ Grows({f})
                                      /\ (Renews(c) /\ f = Renewed) \/ (RenewalFails(c) /\ f = Refused)
  <2>1. CASE Renews(c)
    BY <2>1, GrowsIfNew DEF Renews, Renewed, TypeOK
  <2>2. CASE RenewalFails(c)
    BY <2>2, GrowsIfNew DEF RenewalFails, Refused, TypeOK
  <2> QED
    BY <2>1, <2>2
<1>3. /\ \A d \in Codes : d # c => subs'[d] = subs[d]
      /\ subs'[c].plan = subs[c].plan
      /\ f = Renewed => subs'[c].state = "active" /\ subs'[c].next > now
      /\ f = Refused => subs'[c].state = "attention" /\ subs'[c].next = subs[c].next
  <2>1. CASE Renews(c) /\ f = Renewed
    <3>1. Renewed # Refused
      BY <1>1
    <3> QED
      BY <2>1, <3>1, Prolongs DEF TypeOK
  <2>2. CASE RenewalFails(c) /\ f = Refused
    <3>1. Renewed # Refused
      BY <1>1
    <3> QED
      BY <2>2, <3>1, Marks DEF RenewalFails, TypeOK
  <2> QED
    BY <1>2, <2>1, <2>2
<1>4. /\ Running(c) /\ subs[c].next <= now /\ subs[c].state # "none" /\ subs[c].state # "disabled"
      /\ subs'[c].state # "none" /\ subs'[c].state # "disabled"
      /\ \A d \in Codes : Running(d) => d = c
      /\ \A d \in Codes : Running(d)' <=> Running(d)
  <2>1. Running(c) /\ subs[c].next <= now
    BY <1>0 DEF Due
  <2>2. \A d \in Codes : Running(d) => d = c
    BY <2>1 DEF PlanInv, OneAtATime
  <2>3. subs'[c].state \in {"active", "attention"}
    BY <1>2, <1>3
  <2>4. \A d \in Codes : Running(d)' <=> Running(d)
    BY <1>3, <2>1, <2>3 DEF Running
  <2> QED
    BY <2>1, <2>2, <2>3, <2>4 DEF Running
<1>5. (StartsHandled => known) /\ ~Told(Renewed) /\ \A k \in DOMAIN events : events[k].name \notin {"charge.success", "subscription.create"}
  <2>1. ASSUME subs[c].state = "active"
        PROVE  /\ ~Told(Renewed)
               /\ \A k \in DOMAIN events : events[k].name \notin {"charge.success", "subscription.create"}
    <3>1. events = <<>>
      BY <1>0, <2>1 DEF PlanInv, RefusalsAreTold
    <3>2. DOMAIN events = {}
      BY <3>1
    <3> QED
      BY <3>2 DEF Told
  <2>2. ASSUME subs[c].state = "attention"
        PROVE  /\ ~Told(Renewed)
               /\ \A k \in DOMAIN events : events[k].name \notin {"charge.success", "subscription.create"}
    <3>1. \A k \in DOMAIN events : events[k].name \notin {"charge.success", "subscription.create"}
      BY <2>2 DEF PlanInv, RefusalsAreTold
    <3> QED
      BY <1>1, <3>1 DEF Told
  <2>3. /\ ~Told(Renewed)
        /\ \A k \in DOMAIN events : events[k].name \notin {"charge.success", "subscription.create"}
    BY <1>4, <2>1, <2>2 DEF Running
  <2>4. StartsHandled => code = c
    BY <1>1, <1>4, <2>3 DEF PlanInv, StartsAreTold
  <2>5. StartsHandled => known
    BY <2>4, ConstantsAssumption DEF PlanInv, RowIsOfCode
  <2> QED
    BY <2>3, <2>5
<1>6. OneAtATime'
  BY <1>0, <1>4 DEF PlanInv, OneAtATime, Creates
<1>7. RowIsOfCode'
  <2>1. code # None => code \in Codes
    BY DEF TypeOK
  <2>2. /\ endsAt # None => endsAt \in Int
        /\ subs[c].next \in Int /\ subs'[c].next \in Int /\ now \in Int
    <3>1. subs \in [Codes -> SubRecords] /\ subs' \in [Codes -> SubRecords]
      BY <1>00 DEF TypeOK
    <3>2. subs[c] \in SubRecords /\ subs'[c] \in SubRecords
      BY <3>1
    <3>3. subs[c].next \in Int /\ subs'[c].next \in Int
      BY <3>2, ConstantsAssumption DEF SubRecords
    <3> QED
      BY <3>3, ConstantsAssumption DEF TypeOK
  <2>3. subs[c].next <= subs'[c].next
    BY <1>2, <1>3, <1>4, <2>2
  <2>4. code = c => (endsAt # None => endsAt <= subs'[c].next)
    BY <2>2, <2>3, ConstantsAssumption DEF PlanInv, RowIsOfCode
  <2> QED
    BY <1>0, <1>3, <1>4, <2>1, <2>4 DEF PlanInv, RowIsOfCode
<1>8. EndsAreTold'
  <2>1. \A d : Told(Ended(d))' <=> Told(Ended(d))
    BY <1>1, <1>2 DEF Told, Grows
  <2>2. \A d \in Codes : subs[d].state = "disabled" => subs'[d].state = "disabled"
    BY <1>3, <1>4
  <2>3. \A d \in Codes : subs[d].state # "none" => subs'[d].state # "none"
    BY <1>3, <1>4
  <2>4. ASSUME NEW k \in DOMAIN events', NEW d \in Codes, events'[k] = Created(d)
        PROVE  FALSE
    <3>1. k \in DOMAIN events /\ events[k] = Created(d)
      BY <1>1, <1>2, <2>4 DEF Grows
    <3> QED
      BY <1>1, <1>5, <3>1
  <2>5. \A d \in Codes : Told(Ended(d))' => subs'[d].state = "disabled"
    BY <2>1, <2>2 DEF PlanInv, EndsAreTold
  <2>6. code' # None /\ ~cancelled' => Running(code)' \/ Told(Ended(code))'
    BY <1>0, <1>4, <2>1 DEF PlanInv, EndsAreTold, TypeOK
  <2> QED
    BY <2>4, <2>5, <2>6 DEF EndsAreTold
<1>9. StartsAreTold'
  <2>1. \A k \in DOMAIN events' : events'[k].name # "subscription.create"
    BY <1>1, <1>2, <1>5 DEF Grows
  <2>2. StartsHandled => \A d \in Codes : Running(d) => d = code
    BY <1>1, <1>5 DEF PlanInv, StartsAreTold
  <2>3. StartsHandled' => \A d \in Codes : Running(d)' => d = code'
    BY <1>0, <1>4, <2>2 DEF StartsHandled
  <2> QED
    BY <2>1, <2>3 DEF StartsAreTold
<1>10. RefusalsAreTold'
  <2>1. \A d \in Codes : d # c => subs'[d].state \notin {"active", "attention"}
    BY <1>4 DEF Running
  <2>2. CASE f = Renewed
    <3>1. subs'[c].state = "active" /\ subs'[c].next \in Int /\ now \in Int /\ subs'[c].next > now
      BY <1>00, <1>2, <1>3, <2>2, ConstantsAssumption DEF TypeOK, SubRecords
    <3>2. ~Due(c)'
      BY <1>0, <3>1 DEF Due
    <3> QED
      BY <1>0, <2>1, <3>1, <3>2 DEF PlanInv, RefusalsAreTold
  <2>3. CASE f = Refused
    <3>1. subs'[c].state = "attention" /\ subs'[c].next = subs[c].next
      BY <1>3, <2>3
    <3>2. Due(c)'
      BY <1>0, <1>4, <3>1 DEF Due
    <3>3. \A k \in DOMAIN events' : events'[k].name \notin {"charge.success", "subscription.create"}
      BY <1>1, <1>2, <1>5, <2>3 DEF Grows
    <3>4. \/ c # code
          \/ graceAt # None /\ graceAt <= subs[c].next
          \/ now = subs[c].next /\ Told(Refused)'
      <4>1. Told(Refused)'
        BY <1>2, <2>3 DEF Grows
      <4>2. CASE subs[c].state = "active"
        BY <1>0, <4>1, <4>2 DEF PlanInv, RefusalsAreTold
      <4>3. CASE subs[c].state = "attention"
        BY <4>1, <4>3 DEF PlanInv, RefusalsAreTold
      <4> QED
        BY <1>4, <4>2, <4>3 DEF Running
    <3> QED
      BY <1>0, <1>5, <2>1, <3>1, <3>2, <3>3, <3>4 DEF PlanInv, RefusalsAreTold
  <2> QED
    BY <1>2, <2>2, <2>3
<1>11. PaymentsAreTold'
  <2>1. \A d \in Codes : d # c => subs'[d].state # "active"
    BY <1>4 DEF Running
  <2>2. CASE f = Refused
    BY <1>3, <2>1, <2>2 DEF PaymentsAreTold
  <2>3. CASE f = Renewed
    <3>1. PICK i \in DOMAIN events' : events'[i] = Renewed
      BY <1>2, <2>3 DEF Grows, Told
    <3>2. i \notin DOMAIN events
      BY <1>2, <1>5, <3>1 DEF Grows, Told
    <3>3. \A k \in DOMAIN events : k < i
      BY <1>2, <3>1, <3>2 DEF Grows
    <3>4. ASSUME NEW j \in DOMAIN events', j > i PROVE events'[j].name # "charge.failed"
      <4>1. j \notin DOMAIN events
        <5>1. ASSUME j \in DOMAIN events PROVE FALSE
          <6>1. j < i
            BY <3>3, <5>1
          <6>2. i \in Int /\ j \in Int
            BY <1>00, <3>1 DEF TypeOK
          <6> QED
            BY <3>4, <6>1, <6>2
        <5> QED
          BY <5>1
      <4> QED
        BY <1>1, <1>2, <2>3, <4>1 DEF Grows
    <3>5. StartsHandled' => Clears(i)'
      BY <1>0, <1>1, <1>5, <3>1 DEF Clears, StartsHandled
    <3> QED
      BY <3>4, <3>5 DEF PaymentsAreTold
  <2> QED
    BY <1>2, <2>2, <2>3
<1> QED
  BY <1>6, <1>7, <1>8, <1>9, <1>10, <1>11 DEF PlanInv

\* Paystack, or the customer there, ends the subscription.
LEMMA EndsThereKeeps ==
    ASSUME TypeOK, PlanInv, NEW c \in Codes, EndsAtPaystack(c)
    PROVE  PlanInv'
<1>1. /\ Running(c) /\ subs' = [subs EXCEPT ![c].state = "disabled"]
      /\ Emit(Ended(c)) /\ UNCHANGED <<rowVars, refresh, job, now>>
  BY DEF EndsAtPaystack, Ended
<1>2. Grows({Ended(c)})
  BY <1>1, GrowsIfNew DEF TypeOK
<1>3. OneAtATime'
  <2>1. \A d \in Codes : ~Running(d)'
    BY <1>1, Marks DEF PlanInv, OneAtATime, Running, TypeOK
  <2>2. \A w \in Workers : Creates(w)' <=> Creates(w)
    BY <1>1 DEF Creates
  <2> QED
    BY <2>1, <2>2 DEF PlanInv, OneAtATime
<1> QED
  BY <1>1, <1>2, <1>3, EndingKeeps DEF PlanInv

\* Time passes, with nothing left to deliver.
LEMMA TickKeeps ==
    ASSUME TypeOK, PlanInv, Tick
    PROVE  PlanInv'
<1>1. /\ plan' = plan /\ code' = code /\ cancelled' = cancelled /\ endsAt' = endsAt
      /\ graceAt' = graceAt /\ known' = known /\ refresh' = refresh /\ now' = now + 1
      /\ job' = job /\ subs' = subs /\ events' = events /\ hit' = hit
      /\ events = <<>> /\ refresh = {} /\ \A c \in Codes : Due(c) => subs[c].state = "attention"
  BY DEF Tick, Settled, rowVars, payVars
<1>2. OneAtATime' /\ RowIsOfCode' /\ EndsAreTold' /\ StartsAreTold' /\ PaymentsAreTold'
  BY <1>1 DEF PlanInv, OneAtATime, RowIsOfCode, EndsAreTold, StartsAreTold, PaymentsAreTold,
              StartsHandled, LastStart, Told, Clears, Running, Creates
<1>3. RefusalsAreTold'
  <2>1. now \in Nat /\ (graceAt # None => graceAt \in Nat) /\ \A c \in Codes : subs[c].next \in Nat
    BY ConstantsAssumption DEF TypeOK, SubRecords
  <2>2. graceAt' # None => graceAt' <= now'
    BY <1>1, <2>1 DEF PlanInv, RefusalsAreTold
  <2>3. ASSUME NEW c \in Codes, subs'[c].state = "active", Due(c)'
        PROVE  now' = subs'[c].next /\ events' = <<>> /\ refresh' = {}
    <3>1. ~Due(c)
      BY <1>1, <2>3
    <3>2. ~(subs[c].next <= now) /\ subs[c].next <= now + 1
      BY <1>1, <2>3, <3>1 DEF Due, Running
    <3> QED
      BY <1>1, <2>1, <3>2
  <2>4. ASSUME NEW c \in Codes, subs'[c].state = "attention"
        PROVE  /\ Due(c)'
               /\ c = code' => graceAt' # None /\ graceAt' <= subs'[c].next
    <3>1. /\ Due(c)
          /\ \/ c # code
             \/ graceAt # None /\ graceAt <= subs[c].next
             \/ Told(Refused)
      BY <1>1, <2>4 DEF PlanInv, RefusalsAreTold
    <3>2. ~Told(Refused)
      BY <1>1 DEF Told
    <3>3. Due(c)'
      BY <1>1, <2>1, <3>1 DEF Due, Running
    <3> QED
      BY <1>1, <3>1, <3>2, <3>3
  <2>5. DOMAIN events' = {}
    BY <1>1
  <2> QED
    BY <2>2, <2>3, <2>4, <2>5 DEF RefusalsAreTold
<1> QED
  BY <1>2, <1>3 DEF PlanInv

\* A fault there has been is not forgotten.
LEMMA FaultsStay == [Next]_vars => hit \subseteq hit'
<1> SUFFICES ASSUME [Next]_vars PROVE hit \subseteq hit'
  OBVIOUS
<1>1. ASSUME NEW k \in DOMAIN events,
             \/ ChargeSucceeded(k) \/ ChargeFailed(k)
             \/ SubscriptionCreated(k) \/ SubscriptionDisabled(k) \/ Lost(k) \/ Duplicate(k)
      PROVE  hit \subseteq hit'
  BY <1>1 DEF ChargeSucceeded, ChargeFailed, SubscriptionCreated, SubscriptionDisabled, Lost, Duplicate,
              Deliver, Arrives
<1>2. ASSUME NEW r \in Refs, Declined(r) \/ \E c \in Codes : Pays(r, c)
      PROVE  hit \subseteq hit'
  BY <1>2 DEF Declined, Pays, Uses
<1>3. ASSUME NEW c \in Codes, \/ Refresh(c) \/ RefreshLost(c) \/ Renews(c) \/ RenewalFails(c)
                              \/ EndsAtPaystack(c)
      PROVE  hit \subseteq hit'
  BY <1>3 DEF Refresh, RefreshLost, Renews, RenewalFails, EndsAtPaystack
<1>4. ASSUME NEW w \in Workers,
             \/ \E p \in 1..TopPlan : SubscribeRead(w, p) \/ UpgradeRead(w, p)
             \/ \E r \in Refs : SubscribeSave(w, r)
             \/ SubscribeOpens(w) \/ SubscribeFails(w) \/ EndRead(w)
             \/ Disable(w) \/ \E c \in Codes : Create(w, c)
             \/ Schedule(w) \/ Abort(w)
      PROVE  hit \subseteq hit'
  BY <1>4 DEF SubscribeRead, UpgradeRead, SubscribeSave, SubscribeOpens, SubscribeFails, EndRead,
              Disable, Create, Schedule, Abort
<1>5. ASSUME Tick \/ UNCHANGED vars PROVE hit \subseteq hit'
  BY <1>5 DEF Tick, vars
<1> QED
  BY <1>1, <1>2, <1>3, <1>4, <1>5 DEF Next

LEMMA PlanInvStays ==
    ASSUME TypeOK, hit \subseteq Harmless => PlanInv, [Next]_vars, hit' \subseteq Harmless
    PROVE  PlanInv'
<1>1. PlanInv
  BY FaultsStay
<1>2. ASSUME NEW k \in DOMAIN events, Lost(k) PROVE FALSE
  BY <1>2 DEF Lost, Harmless
<1>3. CASE UNCHANGED vars
  BY <1>1, <1>3 DEF PlanInv, StartsHandled, LastStart, OneAtATime, RowIsOfCode, EndsAreTold, StartsAreTold, RefusalsAreTold,
                    PaymentsAreTold, Told, Clears, Running, Due, Creates, vars, rowVars, payVars
<1> QED
  BY <1>1, <1>2, <1>3, QuietKeeps, CallsKeep, CheckoutKeeps, HooksKeep, DuplicateKeeps, RefreshKeeps, DeclinedKeeps,
     RenewalKeeps, EndsThereKeeps, TickKeeps DEF Next

LEMMA InitPlanInv == Init => PlanInv
<1> SUFFICES ASSUME Init PROVE PlanInv
  OBVIOUS
<1>1. /\ plan = 0 /\ code = None /\ endsAt = None /\ graceAt = None /\ refresh = {} /\ events = <<>>
      /\ \A c \in Codes : subs[c].state = "none"
      /\ \A w \in Workers : job[w].step = "idle"
  BY DEF Init, Idle, Request
<1>2. DOMAIN events = {} /\ \A c \in Codes : ~Running(c)
  BY <1>1 DEF Running
<1>3. OneAtATime /\ RowIsOfCode
  BY <1>1, <1>2 DEF OneAtATime, RowIsOfCode, Creates
<1>4. EndsAreTold /\ StartsAreTold /\ RefusalsAreTold /\ PaymentsAreTold
  BY <1>1, <1>2 DEF EndsAreTold, StartsAreTold, RefusalsAreTold, PaymentsAreTold, Told
<1> QED
  BY <1>3, <1>4 DEF PlanInv

\* With nothing left to deliver, the plan in effect is one that is paid for.
LEMMA PlanIsPaid == TypeOK /\ PlanInv => EntitledOnlyIfPaid
<1> SUFFICES ASSUME TypeOK, PlanInv, Settled, EffectivePlan > 0
             PROVE  \E c \in Codes :
                       /\ subs[c].plan >= EffectivePlan
                       /\ now < subs[c].next + (IF subs[c].state = "attention" THEN Grace ELSE 0)
  BY DEF EntitledOnlyIfPaid
<1>1. plan > 0 /\ EffectivePlan = plan /\ code # None /\ code \in Codes /\ subs[code].plan = plan
  <2>1. EffectivePlan = plan \/ EffectivePlan = 0
    BY DEF EffectivePlan
  <2>2. EffectivePlan = plan /\ plan > 0
    BY <2>1
  <2> QED
    BY <2>2 DEF PlanInv, RowIsOfCode, TypeOK
<1>2. /\ now \in Nat /\ Grace \in Nat /\ subs[code].next \in Nat /\ plan \in Nat
      /\ endsAt # None => endsAt \in Nat
      /\ graceAt # None => graceAt \in Nat
  BY <1>1, ConstantsAssumption DEF TypeOK, SubRecords
<1>3. now < subs[code].next + (IF subs[code].state = "attention" THEN Grace ELSE 0)
  <2>1. CASE cancelled
    <3>1. endsAt # None /\ now < endsAt
      BY <1>1, <2>1 DEF EffectivePlan
    <3>2. endsAt <= subs[code].next
      BY <1>1, <3>1 DEF PlanInv, RowIsOfCode
    <3> QED
      BY <1>2, <3>1, <3>2
  <2>2. CASE ~cancelled
    <3>1. events = <<>> /\ \A e : ~Told(e)
      BY DEF Settled, Told
    <3>2. Running(code)
      BY <1>1, <2>2, <3>1 DEF PlanInv, EndsAreTold
    <3>3. CASE ~Due(code)
      BY <1>2, <3>2, <3>3 DEF Due
    <3>4. CASE Due(code)
      <4>1. subs[code].state = "attention"
        BY <1>1, <3>4 DEF Settled
      <4>2. graceAt # None /\ graceAt <= subs[code].next
        BY <1>1, <3>1, <4>1 DEF PlanInv, RefusalsAreTold
      <4>3. ~(now >= graceAt + Grace)
        BY <1>1, <2>2, <4>2 DEF EffectivePlan
      <4> QED
        BY <1>2, <4>1, <4>2, <4>3
    <3> QED
      BY <3>3, <3>4
  <2> QED
    BY <2>1, <2>2
<1>4. subs[code].plan >= EffectivePlan
  BY <1>1, <1>2
<1> QED
  BY <1>1, <1>3, <1>4

\* The plan a tenant has in effect is one it pays for, and for no longer than
\* it paid, or one grace period more while a renewal is being retried:
\* resolveEffectiveTier, read from a row that only webhooks write, agrees with
\* Paystack, whatever requests are cut short or run on stale reads, whichever
\* refreshes of the period end fail, and whichever starts of a subscription
\* are taken for duplicates.
THEOREM PlanFollowsPayment == Spec => []EntitledIfDelivered
<1> DEFINE Sound == hit \subseteq Harmless => PlanInv
           IInv == TypeOK /\ Sound
<1>1. Init => IInv
  BY InitTypeOK, InitPlanInv
<1>2. IInv /\ [Next]_vars => IInv'
  <2> SUFFICES ASSUME TypeOK, Sound, [Next]_vars PROVE TypeOK' /\ Sound'
    OBVIOUS
  <2>1. TypeOK'
    BY NextTypeOK
  <2>2. Sound'
    BY PlanInvStays
  <2> QED
    BY <2>1, <2>2
<1>3. IInv => EntitledIfDelivered
  BY PlanIsPaid DEF EntitledIfDelivered, Harmless
<1> QED
  BY <1>1, <1>2, <1>3, PTL DEF Spec

-----------------------------------------------------------------------------
(* What was paid for is had until its last day: PlanInv again, and           *)
(* EndIsFetched, while nothing at all has gone wrong.                        *)

LEMMA EndIsFetchedStays ==
    ASSUME TypeOK, PlanInv, EndIsFetched, [Next]_vars, hit' = {}
    PROVE  EndIsFetched'
<1> SUFFICES ASSUME code' # None
             PROVE  endsAt' = subs'[code'].next \/ Told(Renewed)' \/ code' \in refresh'
  BY DEF EndIsFetched
<1>0. code # None => /\ code \in Codes /\ known
                     /\ endsAt = subs[code].next \/ Told(Renewed) \/ code \in refresh
  BY DEF EndIsFetched, PlanInv, RowIsOfCode, TypeOK
<1>1. ASSUME code' = code, endsAt' = endsAt, refresh \subseteq refresh', Told(Renewed) => Told(Renewed)',
             subs'[code].next = subs[code].next
      PROVE  EndIsFetched'
  BY <1>0, <1>1 DEF EndIsFetched
<1>2. ASSUME NEW k \in DOMAIN events,
             \/ ChargeSucceeded(k) \/ ChargeFailed(k)
             \/ SubscriptionCreated(k) \/ SubscriptionDisabled(k)
      PROVE  EndIsFetched'
  <2>1. k = 1 /\ 1 \in DOMAIN events /\ Takes /\ subs' = subs
    <3>1. Arrives(k, {}) /\ subs' = subs
      BY <1>2 DEF ChargeSucceeded, ChargeFailed, SubscriptionCreated, SubscriptionDisabled, Deliver, payVars
    <3>2. k = 1 /\ Takes
      BY <3>1, TakesFirst
    <3> QED
      BY <3>1, <3>2
  <2>2. Renewed.name = "charge.success" /\ Renewed.ref = None
    BY DEF Renewed, Event
  <2>3. CASE SubscriptionCreated(1)
    BY <2>1, <2>3 DEF SubscriptionCreated, EndIsFetched
  <2>4. CASE ChargeFailed(1) \/ SubscriptionDisabled(1)
    <3>1. /\ code' = code /\ endsAt' = endsAt /\ refresh' = refresh
          /\ events[1] # Renewed
      BY <2>2, <2>4 DEF ChargeFailed, SubscriptionDisabled
    <3>2. Told(Renewed) => Told(Renewed)'
      BY <2>1, <3>1, StillTold
    <3> QED
      BY <1>1, <2>1, <3>1, <3>2
  <2>5. CASE ChargeSucceeded(1)
    <3>1. code' = code /\ endsAt' = endsAt /\ refresh \subseteq refresh'
      BY <2>5 DEF ChargeSucceeded
    <3>2. CASE events[1] = Renewed
      <4>1. refresh' = refresh \cup ToRefresh
        BY <1>0, <2>2, <2>5, <3>1, <3>2, Zenon DEF ChargeSucceeded
      <4>2. code \in refresh'
        BY <3>1, <4>1 DEF ToRefresh
      <4> QED
        BY <3>1, <4>2 DEF EndIsFetched
    <3>3. CASE events[1] # Renewed
      BY <1>1, <2>1, <3>1, <3>3, StillTold
    <3> QED
      BY <3>2, <3>3
  <2> QED
    BY <1>2, <2>1, <2>3, <2>4, <2>5
<1>3. ASSUME NEW c \in Codes, Refresh(c) PROVE EndIsFetched'
  <2>1. c = code /\ code' = code /\ endsAt' = subs[c].next /\ subs' = subs
    BY <1>3, ConstantsAssumption DEF Refresh, PlanInv, RowIsOfCode, payVars
  <2> QED
    BY <2>1 DEF EndIsFetched
<1>4. ASSUME NEW c \in Codes, RefreshLost(c) PROVE EndIsFetched'
  BY <1>4 DEF RefreshLost
<1>5. ASSUME NEW c \in Codes, Renews(c) PROVE EndIsFetched'
  <2>1. Grows({Renewed})
    BY <1>5, GrowsIfNew DEF Renews, Renewed, TypeOK
  <2> QED
    BY <2>1 DEF Grows, EndIsFetched
<1>6. ASSUME NEW c \in Codes, RenewalFails(c) \/ EndsAtPaystack(c) PROVE EndIsFetched'
  <2>1. code' = code /\ endsAt' = endsAt /\ refresh' = refresh
    BY <1>6 DEF RenewalFails, EndsAtPaystack, rowVars
  <2>2. \A d \in Codes : subs'[d].next = subs[d].next
    <3>1. subs' = [subs EXCEPT ![c].state = "attention"] \/ subs' = [subs EXCEPT ![c].state = "disabled"]
      BY <1>6 DEF RenewalFails, EndsAtPaystack
    <3> QED
      BY <3>1, Marks DEF TypeOK
  <2>3. Told(Renewed) => Told(Renewed)'
    <3>1. \E e : Grows({e})
      BY <1>6, GrowsIfNew DEF RenewalFails, EndsAtPaystack, TypeOK
    <3> QED
      BY <3>1 DEF Grows, Told
  <2> QED
    BY <1>0, <1>1, <2>1, <2>2, <2>3
<1>7. ASSUME NEW c \in Codes, NEW p \in 0..TopPlan, NEW r \in Refs \cup {None}, Starts(c, p, r),
             UNCHANGED <<rowVars, refresh>>
      PROVE  EndIsFetched'
  <2>1. \E e, f : events' = events \o <<e, f>>
    BY <1>7 DEF Starts
  <2>2. Told(Renewed) => Told(Renewed)'
    BY <2>1, GrowsByTwo DEF Grows, Told, TypeOK
  <2>3. code # None => subs'[code] = subs[code]
    BY <1>0, <1>7 DEF Starts, PlanInv, RowIsOfCode, TypeOK
  <2> QED
    BY <1>0, <1>1, <1>7, <2>2, <2>3 DEF rowVars
<1>8. ASSUME NEW w \in Workers, NEW c \in Codes, Create(w, c) PROVE EndIsFetched'
  <2>1. job[w].plan \in 0..TopPlan
    BY DEF TypeOK, Jobs, JobRecords
  <2> QED
    BY <1>7, <1>8, <2>1 DEF Create
<1>9. ASSUME NEW r \in Refs, NEW c \in Codes, Pays(r, c) PROVE EndIsFetched'
  <2>1. page[r].plan \in 0..TopPlan
    BY DEF TypeOK, Pages
  <2> QED
    BY <1>7, <1>9, <2>1 DEF Pays
<1>10. ASSUME NEW w \in Workers, Disable(w) PROVE EndIsFetched'
  <2> DEFINE c == job[w].code
  <2>1. c \in Codes /\ subs' = [subs EXCEPT ![c].state = "disabled"] /\ events' = Append(events, Ended(c))
        /\ code' = code /\ endsAt' = endsAt /\ refresh' = refresh
    BY <1>10 DEF Disable, GoesOn, TypeOK, Jobs, Ended, rowVars
  <2> HIDE DEF c
  <2>2. \A d \in Codes : subs'[d].next = subs[d].next
    BY <2>1, Marks DEF TypeOK
  <2>3. Told(Renewed) => Told(Renewed)'
    BY <2>1, GrowsByOne DEF Grows, Told, TypeOK
  <2> QED
    BY <1>0, <1>1, <2>1, <2>2, <2>3
<1>11. ASSUME NEW r \in Refs, Declined(r) PROVE EndIsFetched'
  <2>1. \E e : Grows({e})
    BY <1>11, GrowsIfNew DEF Declined, TypeOK
  <2>2. Told(Renewed) => Told(Renewed)'
    BY <2>1 DEF Grows, Told
  <2> QED
    BY <1>1, <1>11, <2>2 DEF Declined, rowVars, payVars
<1>12. ASSUME NEW w \in Workers,
              \/ \E p \in 1..TopPlan : SubscribeRead(w, p) \/ UpgradeRead(w, p)
              \/ \E r \in Refs : SubscribeSave(w, r)
              \/ SubscribeOpens(w) \/ SubscribeFails(w) \/ EndRead(w)
              \/ Schedule(w) \/ Abort(w)
       PROVE  EndIsFetched'
  <2>1. code' = code /\ endsAt' = endsAt /\ refresh' = refresh /\ subs' = subs /\ events' = events
    BY <1>12 DEF SubscribeRead, UpgradeRead, SubscribeSave, SubscribeOpens, SubscribeFails, EndRead,
                 Schedule, Abort, rowVars, payVars
  <2> QED
    BY <1>1, <2>1 DEF Told
<1>13. ASSUME Tick \/ UNCHANGED vars PROVE EndIsFetched'
  <2>1. code' = code /\ endsAt' = endsAt /\ refresh' = refresh /\ subs' = subs /\ events' = events
    BY <1>13 DEF Tick, vars, rowVars, payVars
  <2> QED
    BY <1>1, <2>1 DEF Told
<1>14. ASSUME NEW k \in DOMAIN events, Lost(k) \/ Duplicate(k) PROVE FALSE
  <2>1. CASE Lost(k)
    BY <2>1 DEF Lost
  <2>2. CASE Duplicate(k)
    BY <2>2 DEF Duplicate, Arrives
  <2> QED
    BY <1>14, <2>1, <2>2
<1>15. EndIsFetched'
  BY <1>2, <1>3, <1>4, <1>5, <1>6, <1>8, <1>9, <1>10, <1>11, <1>12, <1>13, <1>14 DEF Next
<1> QED
  BY <1>15 DEF EndIsFetched

\* With nothing left to deliver, the plan paid for is in effect until the
\* period's end.
LEMMA PaidIsPlan == TypeOK /\ PlanInv /\ EndIsFetched /\ hit = {} => PaidIsEntitled
<1> SUFFICES ASSUME TypeOK, PlanInv, EndIsFetched, hit = {}, Settled,
                    NEW c \in Codes, Running(c) \/ c = code, now < subs[c].next
             PROVE  EffectivePlan = subs[c].plan
  BY DEF PaidIsEntitled
<1>0. c = code /\ code # None /\ now < subs[code].next
  <2>1. DOMAIN events = {}
    BY DEF Settled
  <2>2. Running(c) => c = code
    BY <2>1 DEF PlanInv, StartsAreTold, StartsHandled
  <2> QED
    BY <2>2, ConstantsAssumption
<1>1. code \in Codes /\ plan = subs[code].plan
  BY <1>0 DEF PlanInv, RowIsOfCode, TypeOK
<1>2. events = <<>> /\ refresh = {} /\ \A e : ~Told(e)
  BY DEF Settled, Told
<1>3. CASE cancelled
  <2>1. endsAt = subs[code].next
    BY <1>0, <1>2 DEF EndIsFetched
  <2>2. subs[code].next \in Nat
    BY <1>1, ConstantsAssumption DEF TypeOK, SubRecords
  <2>3. endsAt # None /\ now < endsAt
    BY <1>0, <2>1, <2>2, ConstantsAssumption
  <2> QED
    BY <1>0, <1>1, <1>3, <2>3 DEF EffectivePlan
<1>4. CASE ~cancelled
  <2>1. Running(code)
    BY <1>0, <1>1, <1>2, <1>4 DEF PlanInv, EndsAreTold
  <2>2. ~Due(code)
    <3>1. now \in Int /\ subs[code].next \in Int
      BY <1>1, ConstantsAssumption DEF TypeOK, SubRecords
    <3> QED
      BY <1>0, <3>1 DEF Due
  <2>3. subs[code].state = "active"
    BY <1>1, <2>1, <2>2 DEF PlanInv, RefusalsAreTold, Running
  <2>4. DOMAIN events = {}
    BY <1>2
  <2>5. graceAt = None
    BY <1>1, <2>3, <2>4 DEF PlanInv, PaymentsAreTold, StartsHandled
  <2> QED
    BY <1>0, <1>1, <1>4, <2>5 DEF EffectivePlan
<1> QED
  BY <1>0, <1>3, <1>4

\* While every event is handled and every refresh arrives, what the tenant paid
\* for, with the subscription that runs or the one its row names, it has until
\* the last day, cancelled or not, and no refused charge that a later one made
\* good takes it away.
THEOREM PaymentGivesPlan == Spec => []PaidIsEntitledIfPlain
<1> DEFINE Sound == hit \subseteq Harmless => PlanInv
           Plain == hit = {} => EndIsFetched
           IInv == TypeOK /\ Sound /\ Plain
<1>1. Init => IInv
  <2>1. Init => EndIsFetched
    BY DEF Init, EndIsFetched
  <2> QED
    BY <2>1, InitTypeOK, InitPlanInv
<1>2. IInv /\ [Next]_vars => IInv'
  <2> SUFFICES ASSUME TypeOK, Sound, Plain, [Next]_vars PROVE TypeOK' /\ Sound' /\ Plain'
    OBVIOUS
  <2>1. TypeOK'
    BY NextTypeOK
  <2>2. Sound'
    BY PlanInvStays
  <2>3. Plain'
    <3> SUFFICES ASSUME hit' = {} PROVE EndIsFetched'
      OBVIOUS
    <3>1. hit = {} /\ PlanInv /\ EndIsFetched
      BY FaultsStay
    <3> QED
      BY <3>1, EndIsFetchedStays
  <2> QED
    BY <2>1, <2>2, <2>3
<1>3. IInv => PaidIsEntitledIfPlain
  BY PaidIsPlan DEF PaidIsEntitledIfPlain
<1> QED
  BY <1>1, <1>2, <1>3, PTL DEF Spec
=============================================================================
