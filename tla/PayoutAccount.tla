---------------------------- MODULE PayoutAccount ----------------------------
(***************************************************************************)
(* The bank account a workspace is paid into: a subaccount at Paystack and *)
(* what the Tenant row says of it (payment-account.service.ts,             *)
(* paystack.client.ts).  A request reads the row, calls Paystack and       *)
(* writes the answer, with no lock, and a call that gets no answer counts  *)
(* as one that was refused.                                                *)
(***************************************************************************)
EXTENDS Naturals

CONSTANTS
    Numbers, Banks,   \* account numbers, each known by its last four, and banks
    MaxAccounts,      \* bound: subaccounts Paystack ever opens
    Forms,            \* requests at once
    Unsaid            \* a field never written, or one an update leaves out

ASSUME PayoutAssumption == MaxAccounts \in Nat \ {0} /\ Unsaid \notin Numbers \cup Banks

VARIABLES
    opened,   \* Paystack: its subaccounts, by code
    payout,   \* Tenant: paystackSubaccountCode, Status, BankName, AccountNumberLast4
    form,     \* what each request is doing
    unsure    \* history: requests crossed, or an answer was lost, and nothing settled it

payoutVars == <<opened, payout, form, unsure>>

Codes == 1..MaxAccounts
NoCode == 0
Account(number, bank, active) == [number |-> number, bank |-> bank, active |-> active]
Unopened == Account(Unsaid, Unsaid, FALSE)
TenantRow(code, status, bank, last4) == [code |-> code, status |-> status, bank |-> bank, last4 |-> last4]

\* A request: the number and the bank it was given, or was answered; the code
\* and the last four digits it read, or was answered; whether the answer is of
\* an active account; whether the account was given whole; and whether no other
\* request was there with it.
Form(step, number, bank, code, last4) ==
    [step |-> step, number |-> number, bank |-> bank, code |-> code, last4 |-> last4,
     active |-> FALSE, whole |-> Unsaid \notin {number, bank}, alone |-> TRUE]
NoRow == TenantRow(NoCode, "NONE", Unsaid, Unsaid)
Idle == Form("idle", Unsaid, Unsaid, NoCode, Unsaid)
Occupied(f) == form[f] # Idle

\* No account, or one from before the last four digits were kept.
PayoutInit ==
    /\ \/ opened = [c \in Codes |-> Unopened] /\ payout = NoRow
       \/ \E n \in Numbers, b \in Banks :
             /\ opened = [c \in Codes |-> IF c = 1 THEN Account(n, b, TRUE) ELSE Unopened]
             /\ payout = TenantRow(1, "ACTIVE", Unsaid, Unsaid)
    /\ form = [f \in Forms |-> Idle] /\ unsure = FALSE

------------------------------------------------------------------------------
\* Requests begin; each spoils the solitude of those it finds.

Begins(f, new) ==
    LET alone == \A g \in Forms : ~Occupied(g)
    IN  /\ ~Occupied(f)
        /\ form' = [g \in Forms |->
              IF g = f THEN [new EXCEPT !.alone = alone]
              ELSE IF Occupied(g) THEN [form[g] EXCEPT !.alone = FALSE] ELSE Idle]
        /\ UNCHANGED <<opened, payout, unsure>>

Submit(f) ==
    \E n \in Numbers, b \in Banks :
        payout.code = NoCode /\ Begins(f, Form("create", n, b, NoCode, Unsaid))

Update(f) ==
    \E n \in Numbers \cup {Unsaid}, b \in Banks \cup {Unsaid} :
        payout.code # NoCode /\ Begins(f, Form("update", n, b, payout.code, payout.last4))

GetStatus(f) ==
    payout.code # NoCode /\ payout.last4 = Unsaid /\ Begins(f, Form("get", Unsaid, Unsaid, payout.code, Unsaid))

------------------------------------------------------------------------------
\* Paystack answers.

\* The digits the page had are kept, whatever number was sent.
Last4AsRead(f, number) == IF form[f].last4 = Unsaid THEN number ELSE form[f].last4

\* The last four digits change only with a number; else what was read stays.
Last4(f, number) == IF form[f].number = Unsaid THEN form[f].last4 ELSE number

Answered(f, step, code, bank, last4, active) ==
    form' = [form EXCEPT ![f] = [@ EXCEPT !.step = step, !.number = Unsaid, !.code = code, !.bank = bank,
                                          !.last4 = last4, !.active = active]]
NotAnswered(f) == Answered(f, "refused", NoCode, Unsaid, Unsaid, FALSE)
Given(new, old) == IF new = Unsaid THEN old ELSE new

CreateSubaccount(f, c, active) ==
    /\ form[f].step = "create" /\ opened[c] = Unopened
    /\ \A d \in Codes : d < c => opened[d] # Unopened
    /\ opened' = [opened EXCEPT ![c] = Account(form[f].number, form[f].bank, active)]

UpdateSubaccount(f, c, active) ==
    /\ form[f].step = "update" /\ c = form[f].code
    /\ opened' = [opened EXCEPT ![c] =
          Account(Given(form[f].number, @.number), Given(form[f].bank, @.bank), active)]

\* Done, and the answer comes or is lost on the way.
PaystackDoes(f) ==
    \E c \in Codes, active, heard \in BOOLEAN :
        /\ CreateSubaccount(f, c, active) \/ UpdateSubaccount(f, c, active)
        /\ IF heard THEN Answered(f, "save", c, opened'[c].bank, Last4(f, opened'[c].number), active)
           ELSE NotAnswered(f)
        /\ unsure' = (unsure \/ ~heard)
        /\ UNCHANGED payout

GetSubaccount(f) ==
    /\ form[f].step = "get"
    /\ LET live == opened[form[f].code] IN Answered(f, "cache", form[f].code, live.bank, live.number, FALSE)
    /\ UNCHANGED <<opened, payout, unsure>>

\* paystackRequest throws one and the same error for a refusal and for silence.
PaystackRefuses(f) ==
    /\ form[f].step \in {"create", "update"} /\ NotAnswered(f)
    /\ UNCHANGED <<opened, payout, unsure>>

\* A subaccount is verified later, and nobody is told.
Verify(c) ==
    /\ opened[c] # Unopened /\ ~opened[c].active
    /\ opened' = [opened EXCEPT ![c].active = TRUE]
    /\ UNCHANGED <<payout, form, unsure>>

------------------------------------------------------------------------------
\* The answer is written.

Ends(f) == form' = [form EXCEPT ![f] = Idle]

MarkFailed(f) ==
    /\ form[f].step = "refused" /\ payout' = [payout EXCEPT !.status = "FAILED"]
    /\ Ends(f) /\ UNCHANGED <<opened, unsure>>

Saved(f) ==
    TenantRow(form[f].code, IF form[f].active THEN "ACTIVE" ELSE "PENDING", form[f].bank, form[f].last4)

\* A request alone that gave everything settles what was unsure.
SaveSubaccount(f) ==
    /\ form[f].step = "save" /\ payout' = Saved(f)
    /\ unsure' = (~form[f].alone \/ (unsure /\ ~form[f].whole))
    /\ Ends(f) /\ UNCHANGED opened

CacheVisibleDetails(f) ==
    /\ form[f].step = "cache"
    /\ payout' = [payout EXCEPT !.bank = form[f].bank, !.last4 = form[f].last4]
    /\ unsure' = (unsure \/ ~form[f].alone)
    /\ Ends(f) /\ UNCHANGED opened

\* Paystack does not answer a status page, or the server stops.
GiveUp(f) ==
    /\ Occupied(f) /\ Ends(f)
    /\ unsure' = (unsure \/ form[f].step = "save")
    /\ UNCHANGED <<opened, payout>>

PayoutNext ==
    \/ \E c \in Codes : Verify(c)
    \/ \E f \in Forms :
          \/ Submit(f) \/ Update(f) \/ GetStatus(f)
          \/ PaystackDoes(f) \/ GetSubaccount(f) \/ PaystackRefuses(f)
          \/ MarkFailed(f) \/ SaveSubaccount(f) \/ CacheVisibleDetails(f) \/ GiveUp(f)

PayoutSpec == PayoutInit /\ [][PayoutNext]_payoutVars

------------------------------------------------------------------------------
PayoutTypeOK ==
    LET accounts == [number : Numbers \cup {Unsaid}, bank : Banks \cup {Unsaid}, active : BOOLEAN]
        rows == [code : Codes \cup {NoCode}, status : {"NONE", "PENDING", "ACTIVE", "FAILED"},
                 bank : Banks \cup {Unsaid}, last4 : Numbers \cup {Unsaid}]
    IN  /\ opened \in [Codes -> accounts] /\ payout \in rows /\ unsure \in BOOLEAN
        /\ form \in [Forms ->
              [step : {"idle", "create", "update", "get", "refused", "save", "cache"},
               number : Numbers \cup {Unsaid}, bank : Banks \cup {Unsaid}, code : Codes \cup {NoCode},
               last4 : Numbers \cup {Unsaid}, active : BOOLEAN, whole : BOOLEAN, alone : BOOLEAN]]

\* assertSubaccountReadyForPurchase: tickets sell into the row's account.
ReadyForPurchase == payout.status = "ACTIVE" /\ payout.code # NoCode

\* But while an answer is on its way from Paystack to the row, what guests pay
\* goes to the account the organiser is shown, which is live,
\* unless requests crossed or an answer was lost: then a request alone that
\* gives the whole account sets it right, and one that gives a part may not.
PaidIntoShown ==
    ReadyForPurchase /\ ~unsure /\ (\A f \in Forms : form[f].step # "save") =>
        /\ opened[payout.code].active
        /\ payout.last4 \in {Unsaid, opened[payout.code].number} /\ payout.bank \in {Unsaid, opened[payout.code].bank}
=============================================================================
