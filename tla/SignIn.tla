------------------------------- MODULE SignIn -------------------------------
(***************************************************************************)
(* How one user signs in and is kept out: codes sent by email, devices     *)
(* trusted after one (auth.service.ts, device-token.util.ts), and          *)
(* suspension, which is written to the database, then to Firebase, then to *)
(* the devices (user.service.ts).                                          *)
(*                                                                         *)
(* Passwords and ID tokens are Firebase's: one given before the account    *)
(* was disabled still passes where only its signature is checked.  The     *)
(* sessions are in no table, and each request reads the row again.  Time   *)
(* is counted in months, and none passes during a request.                 *)
(***************************************************************************)
EXTENDS Naturals, FiniteSets

CONSTANTS
    MaxCodes,   \* codes that may be sent
    MaxDevices, \* devices that may be trusted
    Ttl,        \* DEVICE_TOKEN_TTL_DAYS, in months
    MaxAge,     \* DEVICE_TOKEN_MAX_AGE_DAYS
    Visits      \* requests at once

ASSUME SignInAssumption ==
    MaxCodes \in Nat /\ MaxDevices \in Nat /\ Ttl \in Nat \ {0} /\ MaxAge \in Nat /\ Ttl <= MaxAge

VARIABLES
    account,    \* active: User.isActive and not isArchived; enabled: at Firebase
    code,       \* OtpRecord rows; opened: devices trusted for each
    device,     \* DeviceToken rows; used: how old each was at its last use
    visit,      \* what each request is doing
    older,      \* history: devices trusted before the last suspension was written
    tangled,    \* history: suspensions and reactivations crossed or failed half way
    crossing    \* history: codes that two requests were sending, or checking, at once

signInVars == <<account, code, device, visit, older, tangled, crossing>>

Codes == 1..MaxCodes
Devices == 1..MaxDevices
Valid == {c \in Codes : code[c].state = "valid"}
Unrevoked == {d \in Devices : device[d].state = "trusted"}

Visit(op, step, of) == [op |-> op, step |-> step, of |-> of]
Away == Visit("none", "idle", 0)
Proceeds(r, v) == visit' = [visit EXCEPT ![r] = v]
Doing(op) == {r \in Visits : visit[r].op = op}

SignInInit ==
    /\ account = [active |-> TRUE, enabled |-> TRUE]
    /\ code = [c \in Codes |-> [state |-> "none", opened |-> 0]]
    /\ device = [d \in Devices |-> [state |-> "none", age |-> 0, used |-> 0, expires |-> 0]]
    /\ visit = [r \in Visits |-> Away]
    /\ older = {} /\ tangled = FALSE /\ crossing = {}

------------------------------------------------------------------------------
\* requestOtp: the codes before it are ended, then one is made and sent.

RequestOtp(r) ==
    /\ visit[r] = Away /\ account.active
    /\ code' = [c \in Codes |-> [code[c] EXCEPT !.state = IF @ = "valid" THEN "ended" ELSE @]]
    /\ Proceeds(r, Visit("REQUEST", "create", 0))
    /\ UNCHANGED <<account, device, older, tangled, crossing>>

CreateOtp(r, c) ==
    /\ visit[r].step = "create" /\ code[c].state = "none" /\ \A b \in 1..(c - 1) : code[b].state # "none"
    /\ code' = [code EXCEPT ![c].state = "valid"]
    /\ crossing' = IF Valid = {} THEN crossing ELSE crossing \cup Valid \cup {c}
    /\ Proceeds(r, Away)
    /\ UNCHANGED <<account, device, older, tangled>>

OtpExpires(c) ==
    /\ c \in Valid /\ code' = [code EXCEPT ![c].state = "ended"]
    /\ UNCHANGED <<account, device, visit, older, tangled, crossing>>

------------------------------------------------------------------------------
\* verifyOtp: the user and the code are read, the code is marked used whatever
\* it is by then, and the device is trusted.

FindAnyOtp(c) == code[c].state # "none"

FindValidOtp(c) == code[c].state = "valid"

VerifyRead(r, c) ==
    /\ visit[r] = Away /\ account.active /\ FindValidOtp(c)
    /\ Proceeds(r, Visit("VERIFY", "use", c))
    /\ crossing' = IF \E q \in Doing("VERIFY") : visit[q].of = c THEN crossing \cup {c} ELSE crossing
    /\ UNCHANGED <<account, code, device, older, tangled>>

MarkOtpAsUsed(r) ==
    /\ visit[r].step = "use"
    /\ code' = [code EXCEPT ![visit[r].of].state = "used", ![visit[r].of].opened = @ + 1]
    /\ Proceeds(r, [visit[r] EXCEPT !.step = "trust"])
    /\ UNCHANGED <<account, device, older, tangled, crossing>>

IssueDeviceToken(r, d) ==
    /\ visit[r].step = "trust" /\ device[d].state = "none" /\ \A e \in 1..(d - 1) : device[e].state # "none"
    /\ device' = [device EXCEPT ![d] = [state |-> "trusted", age |-> 0, used |-> 0, expires |-> Ttl]]
    /\ Proceeds(r, Away)
    /\ UNCHANGED <<account, code, older, tangled, crossing>>

------------------------------------------------------------------------------
\* exchangeSession: a session for a trusted device, which is trusted for longer.

Usable(d) == d \in Unrevoked /\ device[d].age < device[d].expires /\ device[d].age < MaxAge

Least(a, b) == IF a <= b THEN a ELSE b
Most(a, b) == IF a <= b THEN b ELSE a

ExchangeSession(d) ==
    /\ account.enabled /\ account.active /\ Usable(d)
    /\ device' = [device EXCEPT ![d].used = device[d].age,
                                ![d].expires = Least(Most(@, device[d].age + Ttl), MaxAge)]
    /\ UNCHANGED <<account, code, visit, older, tangled, crossing>>

MonthPasses ==
    /\ \A r \in Visits : visit[r] = Away
    /\ \E d \in Unrevoked : device[d].age <= MaxAge
    /\ device' = [d \in Devices |-> IF d \in Unrevoked /\ device[d].age <= MaxAge
                                    THEN [device[d] EXCEPT !.age = @ + 1] ELSE device[d]]
    /\ UNCHANGED <<account, code, visit, older, tangled, crossing>>

Revoke(D) == device' = [d \in Devices |-> IF d \in D THEN [device[d] EXCEPT !.state = "revoked"] ELSE device[d]]

Logout(d) ==
    /\ d \in Unrevoked /\ Revoke({d})
    /\ UNCHANGED <<account, code, visit, older, tangled, crossing>>

------------------------------------------------------------------------------
\* archive and reactivate of the user.  That Firebase failed is only logged.

Standing == Doing("SUSPEND") \cup Doing("REACTIVATE")

SuspendRow(r) ==
    /\ visit[r] = Away /\ account.active
    /\ account' = [account EXCEPT !.active = FALSE]
    /\ older' = {d \in Devices : device[d].state # "none"}
    /\ Proceeds(r, Visit("SUSPEND", "firebase", 0)) /\ tangled' = (tangled \/ Standing # {})
    /\ UNCHANGED <<code, device, crossing>>

ReactivateRow(r) ==
    /\ visit[r] = Away /\ (~account.active \/ ~account.enabled)
    /\ account' = [account EXCEPT !.active = TRUE]
    /\ Proceeds(r, Visit("REACTIVATE", "firebase", 0)) /\ tangled' = (tangled \/ Standing # {})
    /\ UNCHANGED <<code, device, older, crossing>>

FirebaseAccount(r) ==
    LET enable == visit[r].op = "REACTIVATE"
    IN  /\ visit[r].step = "firebase"
        /\ \/ account' = [account EXCEPT !.enabled = enable] /\ UNCHANGED tangled
           \/ tangled' = TRUE /\ UNCHANGED account
        /\ Proceeds(r, IF enable THEN Away ELSE [visit[r] EXCEPT !.step = "revoke"])
        /\ UNCHANGED <<code, device, older, crossing>>

RevokeAll(r) ==
    /\ visit[r].step = "revoke" /\ Revoke(Unrevoked) /\ Proceeds(r, Away)
    /\ UNCHANGED <<account, code, older, tangled, crossing>>

Vanish(r) ==
    /\ visit[r] # Away /\ Proceeds(r, Away)
    /\ tangled' = (tangled \/ r \in Standing)
    /\ UNCHANGED <<account, code, device, older, crossing>>

SignInNext ==
    \/ MonthPasses
    \/ \E c \in Codes : OtpExpires(c) \/ \E r \in Visits : CreateOtp(r, c) \/ VerifyRead(r, c)
    \/ \E d \in Devices : ExchangeSession(d) \/ Logout(d) \/ \E r \in Visits : IssueDeviceToken(r, d)
    \/ \E r \in Visits : \/ RequestOtp(r) \/ MarkOtpAsUsed(r) \/ Vanish(r)
                         \/ SuspendRow(r) \/ ReactivateRow(r) \/ FirebaseAccount(r) \/ RevokeAll(r)

SignInSpec == SignInInit /\ [][SignInNext]_signInVars

------------------------------------------------------------------------------
SignInTypeOK ==
    /\ account \in [active : BOOLEAN, enabled : BOOLEAN]
    /\ code \in [Codes -> [state : {"none", "valid", "ended", "used"}, opened : Nat]]
    /\ device \in [Devices -> [state : {"none", "trusted", "revoked"}, age : Nat, used : Nat, expires : 0..MaxAge]]
    /\ visit \in [Visits -> [op : {"none", "REQUEST", "VERIFY", "SUSPEND", "REACTIVATE"},
                             step : {"idle", "create", "use", "trust", "firebase", "revoke"}, of : 0..MaxCodes]]
    /\ older \subseteq Devices /\ crossing \subseteq Codes /\ tangled \in BOOLEAN

\* Being suspended costs a user every device they were trusted on, and nothing
\* more.  Once nobody is suspending or reactivating them, no device from before
\* the suspension is trusted, and Firebase lets in just whom the database does,
\* unless two such requests crossed, one died half way or Firebase failed.
\* Meanwhile one code opens one device and only the last code opens any, unless
\* two requests sent or checked them at once; and no device is usable longer
\* than its last use and its age allow.
SuspendedStartsOver ==
    /\ Standing = {} /\ ~tangled => older \cap Unrevoked = {} /\ account.enabled = account.active
    /\ \A c \in Codes : code[c].opened > 1 => c \in crossing
    /\ Cardinality(Valid \ crossing) <= 1
    /\ \A d \in Devices : Usable(d) => device[d].age < device[d].used + Ttl /\ device[d].age < MaxAge
=============================================================================
