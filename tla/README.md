# EventGenie-back: a TLA+ model of the backend

EventGenie-back is a TypeScript HTTP service (Express, Prisma, PostgreSQL) that
organisers use to run events: guest lists and public registration, invitations
and answers (RSVP), paid tickets, subscriptions and event passes, announcements
and reminders, check-in at the door, and a photo album of each event. This directory
holds TLA+ models of the parts in which concurrency, failures, dates and money
meet, the TLC configurations that check them on small instances, and TLAPS proofs
of the main results for every value of the constants. The paths below are relative
to the repository's root; `M/` stands for `src/modules/`; `PROJECT.json` writes the same
paths with one more `src/` in front.

Contents: 1 inventory, 2 how a module reads, 3 modules, 4 runs, 5 bounds,
6 fairness, 7 proofs, 8 where the code differs from what it says, 9 what is not
modelled, 10 plan.

## 1. Inventory

All state is in PostgreSQL, at Paystack, at Firebase and at Cloudinary. A process keeps
none between requests but the counters of its rate limiters. Nothing in the code
sets an isolation level, so every transaction runs at READ COMMITTED: a statement
sees what was committed when it started, `SELECT ... FOR UPDATE`, UPDATE and DELETE
wait for a row lock and then use the row's newest version, and a value read by an
earlier, unlocked statement may be stale when it is used. Explicit row locks are
taken on `Tenant`, `Event` and `TicketPurchase` only.

Who acts: guests' and organisers' requests, any number at a time, interleaved
between statements; Paystack's webhooks, late, duplicated, in any order or never;
the sweeps that run on each server (media retention, feedback requests); the clock;
a process that dies at any statement. Most of what must happen "later" (an expired
hold, a lapsed plan, a completed event) is not done by anyone: it is worked out when
some later request looks.

| Component | State | Operations | Hard behaviour | What makes it correct |
|---|---|---|---|---|
| ticket purchase (`M/ticket-purchase`) and ticket stock (`M/ticket`) | `TicketPurchase` (status, quantity, paymentRef, holdExpiresAt), `Ticket` (soldCount, heldCount, totalQuantity, isAvailable) | reserve inside an RSVP, retry, confirm, fail, reconcile, lazy sweep of lapsed holds; the organiser's edits; prices and fees | read by reference before the row lock; four ways to give a hold back; charge after the hold lapsed; the reference overwritten by a retry; two roundings to cents | counters equal the rows; each hold given back once; no oversale but by late charges; PAID is final; a charge is recorded; a quote covers what it must |
| payment webhook (`M/payment-webhook`), ledger, Paystack client | `PaystackWebhookEvent` (unique dedupe key), `PaymentLedgerEntry` | verify, deduplicate, dispatch to ticketing, subscriptions or passes, in one transaction; a step after the commit | redelivery after a crash or a 500, two deliveries together, event nobody claims, events that share a key | at most one effect per event; a crashed delivery leaves its key free; the ledger agrees with the purchases |
| payout account (`M/payment-account`) | `Tenant.paystackSubaccount*`, the subaccounts at Paystack | submit, update, status | a call whose answer is lost, two requests that cross | guests pay into the account that is shown |
| subscriptions (`M/subscription`) | the billing columns of `Tenant` | subscribe, changeTier, cancel, four webhook handlers, the tier derived on read | calls to Paystack between reads and writes with no transaction; webhooks matched by email; a refresh after the commit | nobody is entitled to more than was paid for, nor to less; one subscription per checkout |
| event passes and SMS bundles (`M/event-pass`), plan limits (`M/subscription-tier-config`) | `EventPassPurchase`, `EventPass`, `EventSmsBundlePurchase`; the rows of the plans | purchase, confirm, fail, entitlement on read; every rule that asks a plan | a success after a failure of the same reference; two purchases of one event; a plan without a row | what was paid for is granted; a pass only ever adds |
| guest list (`M/guest`), public registration (`M/event-public`), guest answers (`M/rsvp`), their settings | `Guest`, `Invite`, `Attendance`, `RsvpField`, `RsvpResponse`, `Event` (cap, allowance, visibility, dates) | register, validate, submit, create, import, update, archive, reactivate, settings, questions | limits and seats read before the event lock and used under it; an answer that deletes and recreates rows; archived guests that may still answer; a page that must not tell who is on the list | the cap, the plan's limit and the 2000-guest ceiling hold; an answer replaces the one before it; a guest stays reachable; the page tells a stranger nothing |
| invite dispatch and reminders, announcements (`M/invite`, `M/announcement`) | `Invite`, `EventEmailClaim`, `InviteReminderLog`, `SmsSendLog`, `Announcement` | claim, send, release on failure; batches | a claim kept by a process that died; two dispatches of one invite; an answer of the mailer that is lost; the limit reached in the middle of a batch | no reminder after one of the same day that is known to have gone; emails within the limit; after the notice of a cancellation only what was on its way |
| event lifecycle, drafts, full update, days and programme (`M/event*`, `M/program-item`) | `Event`, `EventDraft`, `EventDay`, `EventProgram`, `ProgramItem`, `EventAssignment` | create, draft, materialize, publish, cancel, archive, restore, edit | no lock at all: counts, status and labels are read, then written | limits kept, one event for a save, guests told once, a programme on its day |
| check-in and attendance (`M/check-in`, `M/attendance`) | `CheckIn`, `Attendance` | check in and undo, the door list | a guest of several invites; an invite added during a check-in | nobody arrives twice; the counts add up |
| memory hub, media retention, feedback, consent (`M/memory-hub`, `M/media-retention`, `M/upload`, `M/feedback`, `M/consent`) | `MemoryHub`, `MemoryItem`, `EventMediaPurge`, `ConsentRecord`, Cloudinary assets | upload, moderate, delete; remind and purge; save feedback, allow and withdraw | space counted before the write; asset deleted and row kept; servers that crash, or outlive their lease | within the plan's space; what is shown exists; nothing purged before its date; shown in public only if both agreed |
| authentication, users, team, tenants (`M/auth`, `M/user`, `M/user-invite`, `M/tenant`) | `User`, `Tenant`, `TeamInvite`, `OtpRecord`, `DeviceToken`, Firebase accounts | codes, devices, sessions, invite, accept, suspend, restore, assign | Firebase and the database change in two steps; roles read before the lock | an admin remains; a suspension ends what was trusted; who is narrowed stays narrowed |
| vendors (`M/vendor`) | `VendorSpace`, its services and products | create, archive, restore, users, search | counts without a lock | limits; nearest first |
| rate limits (`src/shared/middleware`) | counters in memory | every limiter chain | overlapping requests, forgiven ones, a window that ends meanwhile | no more let by than allowed |
| designs, middleware, email and SMS engines, geocoding, monitoring, scripts | rows edited one at a time, or none | edits, calls out | little | (see section 9) |

Interactions. An answer (`rsvp.service.ts`) reserves a ticket inside its own
transaction and opens the checkout after the commit. The webhook transaction
contains the dedupe insert and the handler of ticketing, subscriptions or passes,
and then runs a `postCommit` outside it. Registration, answers with plus-ones,
the guest list and restores serialise on the event's row. The guest limit is the
larger of the plan's and the event's pass's. Registration reads both before it takes the lock; additions, imports and restores read the event and its pass before
it and the plan under it, which no event lock holds still. Saves of
feedback and sends of a cancellation also take the event's row; publishing,
cancelling and editing it do not. `PROJECT.json` lists every component with its status
and every hazard with its line.

## 2. How a module reads

* A **worker** (session, clerk, editor...) is one request in progress; `job[w]` is what
  it has read so far and the next step it takes. An interactive transaction is one step
  unless it acts on something it read before it held the lock that protects it: then the
  read and the locked write are two actions with the read's values kept in
  `job`. Calls to Paystack, Firebase, Cloudinary and the mailer are steps between
  transactions.
* The **webhook** of a kind is likewise one transaction; its `postCommit` is a
  step of its own.
* **Paystack, its customer, the organiser and the clock** are external: an
  action for what each may do, with no assumption on when.
* `None`, `Null`, `Unset` and the like are SQL NULL and the absent row. Ids, references,
  emails and codes are model values.
* A definition followed by a second one of the same purpose (`HasRoomNoSold`,
  `HasRoom`) is a plausible mistake next to the code's form. No action uses it:
  it is there to show that the property of the run would notice.
* A **history variable** (`late`, `peak`, `stale`, `hit`, `crossed`, `torn`...) is
  written and never read by a guard: it records what a property refers to.

## 3. Modules

### TicketPurchase: ticketing for one ticket type

`M/ticket-purchase/*`, the stock statements of `M/ticket/ticket.repository.ts`,
the reserving part of `M/rsvp/rsvp.service.ts` and the dispatch and dedupe of
`M/payment-webhook/payment-webhook.service.ts`.

| Variable | Code |
|---|---|
| `invite, status, qty, payRef` | columns of a `TicketPurchase` row; status `"NONE"` is no row |
| `lapsed` | `holdExpiresAt < now()`, set by `HoldLapses` at any time |
| `sold, held, limit` | `Ticket.soldCount, heldCount, totalQuantity` |
| `onSale, payout` | `isAvailable` and not `isArchived`; the subaccount is ACTIVE |
| `ledger, issued, unhandled, duplicates` | `PaymentLedgerEntry` rows, as counts, and the purchase a reference was issued to |
| `processed` | committed dedupe keys |
| `paystack, sent` | what Paystack knows of a reference and the events it may deliver |

Actions: `SubmitRead`/`SubmitReserve`/`SubmitRefused` (an RSVP that buys);
`RetryPayment`; `CheckoutStarts`/`CheckoutFails` (the call after the commit);
`HookStart`/`HookDuplicate`/`ReconcileRead`/`ReconcileVerify`, then `Settle`
(the lookup by reference, then confirm or fail under the row lock: two steps,
because between them the row may be swept and retried); `Abort` (rollback or
crash); and the outside: `HoldLapses`, `SetLimit`, `SetOnSale`, `SetPayout`,
`PaystackDeclines`, `PaystackCharges`.

The dedupe key of a webhook is the event's name with `data.id` or else the
reference. For ticketing it is modelled as the event's name and the reference,
the coarser of the two. Subscription events lack both: Subscription models the key they share.

### TicketStock: what ticketing promises

The abstract specification: one ticket type, buyers in phases none, held, paid
and released. There are no counters, references, locks, webhooks or
workers. `Hold` requires that everything really held or paid, less the holds given
back in that same step, leaves room. `Pay` is allowed from released too (the money
has moved), and remembers the buyer in `late`. `TicketPurchase` maps to it by
`phase <- Phase(status[p])`, `open <- onSale /\ payout` and the other variables
by name; `StockSpec` is `Stock!Spec`.

### Registration: the guest list of one event

`register` (`M/event-public`), `submit` (`M/rsvp`), and
create/import/update/archive/reactivate (`M/guest`), which all change the same
rows under the same event lock.

| Variable | Code |
|---|---|
| `row, host, selfReg, email, allowed` | `Guest` rows, primary guests and plus-ones |
| `inviteLive, answer` | each guest's `Invite`: not archived, and its status |
| `attends` | the `Attendance` rows of that invite, by day |
| `public, cap, allowance, door` | the `Event`: visibility, registration cap and allowance, and what its status and dates let in |
| `limit, passCap` | the plan's guest limit, and that of the event's pass while it is active; `LimitOf` is `resolveGuestLimit` |
| `lock` | the holder of the event's row lock, between the step that takes it and the commit |

`RegisterRead` keeps the cap, the limit and the allowance it read;
`RegisterCommit` uses them under the lock. `submit` is a read (`SubmitRead`), a
lock with the cap check when the registrant asks for more seats than held
(`SubmitLock`, `SubmitFull`), the DELETE of the old attendance rows
(`SubmitClear`: which rows it picks, and which other deletes it waits for), and
the rest (`SubmitCommit`, `SubmitRefused`). `create`, `importGuests` and `reactivate` are
three steps: what is read before the lock (`AddRead`: the visibility, the pass, whether the address is on
the list; `RestoreRead`: the pass, the guest and the guest's invite), the lock with the plan's
limit read under it (`PlanRead`), and the count with the write or the refusal (`AddCommit`, `AddRefused`,
`RestoreCommit`, `RestoreRefused`); plan and pass may change between any two. `Abort` covers rollbacks, crashes
and the deadlock victim. `ArchiveGuest`, `FlipInvite`, `UpdateGuest`, `SetEvent`, `SetPlan`, `SetPass`, `SetDoor`
are one transaction each. `stale` becomes TRUE when a request commits what it worked out from a read
that no longer holds: the precise condition is `Stale`.

### Subscription: the plan of one tenant

`M/subscription/subscription.service.ts`, its repository, and
`effective-tier.util.ts`.

| Variable | Code |
|---|---|
| `plan, code, cancelled, endsAt, graceAt, pending, known` | the billing columns of `Tenant` |
| `refresh` | period ends a webhook's `postCommit` has yet to fetch |
| `page, subs` | Paystack's checkout pages and subscriptions, with what each is paid until |
| `events` | events emitted and not yet handled, oldest first |
| `job, now` | requests in progress; the clock, in ticks |

A request is `SubscribeRead`, `SubscribeSave`, then `SubscribeOpens` or
`SubscribeFails`; or `UpgradeRead`, `Disable`, `Create`; or `EndRead`, `Disable`,
`Schedule`. Each of these is one read, one call to Paystack or one write, and
`Abort` may end the request between any two. The handlers are
`ChargeSucceeded` (with `Refresh` or `RefreshLost`), `ChargeFailed`,
`SubscriptionCreated`, `SubscriptionDisabled`. A plan is its rank, 0 is SPARK;
`EffectivePlan` is `resolveEffectiveTier`.

What may go wrong outside is chosen per run by `Faults`: `"reorder"`, `"lose"`
(a disable event never delivered), `"refresh"` (the call after the commit fails),
`"pages"` (a checkout page used although superseded or while a subscription
runs), and the name of a subscription event, `"subscription.create"` or
`"subscription.disable"`: one of that name is answered as a duplicate. Their data has no
id and no reference, so the dedupe key is the name alone, one row for all tenants
(`payment-webhook.service.ts:45-47, 154`); whether it is taken already is a matter of other
tenants too, so `Duplicate` is a choice at each such event. A run without the fault is about payloads that do carry an id,
which the code would use. `hit` records those that have happened, so a property can be stated for
the histories in which none of a given kind did. `Tick` is enabled when nothing
is waiting to be delivered: a tick is longer than a delivery. That is an
assumption on the scale of time (a tick is days; grace and periods are
counted in ticks), and without it every deadline would be off by a delivery. A renewal
is tried on its day, and when it is charged late the next date is still the
schedule's (`DatesAhead`).

### Modules an organiser works in (scenes of Organising)

| Module | Models | State and actions |
|---|---|---|
| EventStatus | `publish`, `cancel` (`M/event/event.service.ts`), check-in and undo (`M/check-in`) | the stored status; the live days and whether the last lies ahead; the guest's invites; `door`, what each request has read. No operation locks: read and write are two actions, and the cancellation email a third |
| EventCreation | create, archive, restore; draft save, discard and `materialize` (`M/event-draft`); assignments of members | event rows, the draft and the save it holds, the plan's limit, each session's step; the draft is deleted after the event's transaction, and a session may stop anywhere |
| EventContent | days, programme, items, edited part by part and by the full update (`M/event-full-update`) | each editor's plan, made from one read and applied later; labels compared as the code folds them |
| Vendors | spaces, services, products, users of a space, search (`M/vendor`) | rows with what they hang on; lookups and writes are two steps. `Organising` has the property of the two plan limits, here and in EventCreation |
| PayoutAccount | submission, update, status of the subaccount | Paystack's subaccounts beside the columns of `Tenant`; an answer may be lost |
| GuestImport | `guest-import.engine.ts` and the import and create of `guest.service.ts` | the rows of a file, one at a time, in the file's order, against the days and contacts read first |
| RateLimits | `src/shared/middleware/rate-limit.middleware.ts` | each route's chain of limiters: keys, what each counts, what it gives back when the answer is known, from whatever window is open then; windows end, and the server restarts, with requests on their way |

### Modules around an event (scenes of Services)

| Module | Models | State and actions |
|---|---|---|
| MemoryHub | signature, save, moderation, archive, deletion of album items | Cloudinary's file beside the item; a save reads the space used and inserts later; a refused save deletes its file in the background |
| MediaRetention | archive, reminder, claim, purge item by item, lease, a super admin's own run | sweeps on several servers which may crash or outlive their lease; days since archiving and since the reminder |
| Feedback | feedback saves under the event's lock, the requests sent once, permissions of guests and organisers | `ConsentRecord` as the append-only log it is |
| Reminders | invitations and reminders with their claims, the daily limit, the texts' quota | one claim per invite, one cooldown per guest; an email or a text may go though the answer says, or a timeout makes the sender think, that it did not |
| Announcements | posts, batches, the notice of a cancellation, invitations under way | who was told, who was said not to be, who was sent something after the notice. `Letters` has the property of both |
| EventPass | purchase, page, reconcile, confirm, fail, of passes and bundles | purchases and the pass; a charge settles in two steps (read, then write what was read to be pending) |
| SignIn | codes, trusted devices, sessions, suspension in the database, Firebase and the devices | three stores written one after the other |
| Team | roles, suspension, assignments, invitations, the workspace's own suspension | each request's read of the member, which the write under the tenant's lock does not repeat |

### Modules of what a guest sees (scenes of MCPages)

InvitePage is `validate` and `submit` of `M/rsvp` beyond the seats: contacts and the
channel of the invite, offered days, questions, plus-ones by name; `Prefilled` is all that `validate` returns, `PrefilledAsked` the same with the questions alone that the page shows. RegistrationPage is
the public page, the order of the refusals of `register`, and the settings that
decide who may register and until when. `GuestPages` has the type invariant of both.

### Rules with no state

TicketPricing (cents, commission, fees), EventEntitlement (what a plan and a pass
allow), EventGates (which features, plans and accounts let an event be saved,
published and sold), EventDayFields (fields of a day), ShownDates (when a purge, an
announcement or a reminder is due, and what is displayed), DoorRoster (the door
list). They are operators over records. `MCRules` compares them with what they should mean
on small inputs, in ASSUMEs that TLC evaluates in run `services`; their theorems are about every
input.

### Scenes, MC modules and proof modules

`MCTicketPurchase`, `MCRegistration`, `MCSubscription` add symmetry sets and state
constraints. `Organising`, `Services` and `MCPages` each hold several modules that share no
variable: a behaviour picks a **scene** and runs the one module of it, the others staying
as they were, so one run checks them all without multiplying their states, and
the states of a module in it are the ones it has alone. `MCEvents` and `MCServices` give the first two
their values; `VIEW Seen` is the variables of the scene. The proof modules (`...Proofs`) are in section 7.

## 4. Runs

| Run | Configuration | Checks | Shows |
|---|---|---|---|
| `ticket_race` | `TicketPurchase_race.cfg` | `TypeOK HeldExact SoldExact StockBound PaidIsFinal StockSpec` | two guests racing for one or two tickets while the organiser changes the quantity: counters equal the rows, PAID is final, and every step is one `TicketStock` allows |
| `ticket_retry` | `TicketPurchase_retry.cfg` | `LedgerExact UnclaimedOnlyIfSuperseded ChargeIsRecorded` | one purchase and its retry under `FairSpec`, the sale and the payout account switched off and on: the ledger agrees with the row; a charge is unclaimed only if a retry replaced its reference, and every other one ends recorded |
| `ticket_lostcharge` | `TicketPurchase_lostcharge.cfg` | `ProcessedChargeIsPaid` (violated) | a charge on a superseded attempt is never recorded |
| `registration_answers` | `Registration_answers.cfg` | `TypeOK CapKeptIfFresh AnswerReplacesIfFresh` | registrations and answers in parallel, cap and guest edited meanwhile: the cap holds and an answer is the whole answer, up to the first stale commit |
| `registration_list` | `Registration_list.cfg` | `PlanKeptIfFresh CeilingKeptIfFresh` | a private list with a ceiling of two: additions, archives, restores, invites, answers with plus-ones, while the plan and the pass come and go: every request is held to the limit it read |
| `registration_overcap` | `Registration_overcap.cfg` | `CapKept` (violated) | two answers of one guest are each credited with the seats held before either |
| `subscription_changes` | `Subscription_plain.cfg` | `TypeOK ActiveWithinPaid EntitledIfDelivered PaidIsEntitledIfPlain` | two concurrent requests over two periods with declined renewals, aborted requests, lost refreshes, lost disable events and starts answered as duplicates |
| `subscription_missed` | `Subscription_missed.cfg` | `EntitledOnlyIfPaid` (violated) | a disable event that is answered as a duplicate leaves the paid plan for ever |
| `events_organise` | `Events_organise.cfg` | `OrganiserTypeOK ToldOncePerCancel OneArrival WithinPlan CreatedAsAsked ProgrammeKept PaidIntoShown ImportKept AtMostAllowed` | the seven scenes of Organising: status and door, creation and drafts, days and programme, vendors, the payout account, an import, rate limits |
| `services` | `Services_all.cfg` | `ServicesTypeOK AlbumKept PurgesAsPromised ConsentKept LettersInOrder PassAsPaid SuspendedStartsOver RolesKept` | the eight scenes of Services, and the assumptions of MCRules about the rules with no state |
| `resave` | `MemoryHub_resave.cfg` | `RefusedUnreferenced` (violated) | a save sent again once the album is full is refused, and the file of the item the first one made is deleted |
| `guest_pages` | `Guest_pages.cfg` | `PagesTypeOK StillReachable ResendsAsShown TellsNothing PageTrue` | a guest's invitation page in each of its matters, edited and filled in twice at once; the public page under changing settings, dates, seats and plan |

Some properties name two or three of a component, stated and commented in its module:
`WithinPlan` is `ActiveWithinLimit`, `SpacesWithinLimit` and `NearestFirst`;
`CreatedAsAsked` is `OneEventPerSave` and `AccessAsGiven`; `ProgrammeKept` is
`LabelsDistinct` and `ProgramOnItsDay`; `ImportKept` is `EachRowOnce` and `TemplateImports`;
`AlbumKept` is `WithinQuota` and `ShownIsStored`; `PurgesAsPromised` is `WeekToDownload` and
`PurgesWhatItSaw`; `ConsentKept` is `SharedByBoth` and `OneChangeOneRecord`; `LettersInOrder`
is `WithinTheDay` and `CancelledLast`; `RolesKept` is `AdminsRemain` and `NarrowUntilConfirmed`.
The rules of MCRules are `PricesAreFair`, `CentsAreKept`, `CommissionIsRead`, `PassesAdd`,
`SavedIsPublished`, `DaysStaySound`, `CountdownsHold`, `LimitsSayWhen`, `RemindedInTurn` and
`CountsAddUp`.

Every property of a passing run has a mutant in `PROJECT.json`, a one-definition
change of the code's logic under which the same run fails.

`CHECK_DEADLOCK FALSE` is used throughout: guests may stop, references and codes
are used up, and the clock stops at its bound, so a state without a successor is
normal in these finite instances. That no request waits for ever is what
`ChargeIsRecorded` is about for ticketing; in Registration, `Abort` can
end any wait, as Postgres's deadlock detection does.

### Properties that set something aside

`CapKept` and the like are what the code's comments say; they do not hold (section 8).
The `IfFresh` forms say that **the only way** to break them is a stale
commit: every other interleaving, crash, refusal and edit is covered. With the
constraint `Fresh`, TLC does not explore past the first stale commit, of which the
properties say nothing; the commit itself is generated and evaluated, and
`~stale'` in the property excludes it. `PaidIsEntitledIfPlain` says the same with
`hit = {}`, and `EntitledIfDelivered` allows lost refreshes and starts that were answered as duplicates. The other modules do
likewise with a history variable that names exactly what the property sets aside:
`crossed` (an invite added or restored between the read and the write of a
check-in), `over` and `torn` (a limit that fell or a count overtaken; a save two sessions
were making an event from, or one stopped after doing so), `twin` and `moved` (a label or a date written on a stale
check), `uncounted`, `unsure` (an answer of Paystack lost or crossed and not settled),
`unchecked` (space taken that no check counted), `blurred` (two requests that read
different things of one guest), `strays`, `together` (purchases that
two transactions had both read as pending),
`tangled` and `crossing`, `overtaken`, `moved` and `reworked` on the invitation page. `carried` (RateLimits) and
`underway` (Announcements) are not exceptions but amounts: how many more a limiter lets by, and to whom something may still go.
The notes of the hazards in `PROJECT.json` say where the hazard itself is what is set aside.

## 5. Bounds

| Bound | Value | Why it is enough |
|---|---|---|
| purchases, invites (race) | 2 | a hold and its competitor; the sweep of one buyer's hold by the other |
| `Refs` | 2 | in the one-purchase run, an attempt and the retry that supersedes it. In the race run one per purchase, or both for one |
| `Workers` | 2 | every race here is between two requests: each property has a mutant or a finding that needs no more |
| `MaxQty`, `Limits` (race) | 2, {1, 2} | quantities different from the number of buyers; a limit raised, and lowered under what is sold |
| `MaxAborts` | 1 | a crash and the recovery from it; a second crash of another request finds the same states, since a crash leaves nothing in the process |
| `Switches` | {} or both | the sale and the payout account change in the one-purchase run only, to keep the race run within minutes |
| guests, plus-ones | 2, 1 (passing runs); 2, 2 (overcap) | two parties or one party and its plus-one fill a cap of 1 or 2 or a ceiling of 2; the violation needs two sets of plus-ones |
| `Ceiling` | 2 or 9 | 2 when it is what is being reached, 9 (out of reach) otherwise; the code's value is 2000 |
| `Caps`, `Limits` | {1,2} | reached, exceeded by one, lowered below what is there |
| `Passes` | {0, 2}; {0} where the pass is not what is in question | a pass that is bought or whose days go by, against a plan of one guest |
| `Codes`, `Refs` (subscription) | 2 | a subscription and the one that replaces it; a checkout and a later one |
| `TopPlan` | 2 | an upgrade |
| `MaxTime`, `Period`, `Grace` | 4, 2, 1 | two whole periods and a grace that ends within one. A renewal charged more than a period late needs 5: the theorems (section 7) cover it |
| `MaxInvites`, `Staff` | 2, 2 | a guest of two invites and two people at the door, or a cancel and a publish |
| `Events`, `PlanLimits`, `Sessions` | 2, {1, 2}, 2 | a limit reached and passed by a second session; one event holds a pass at most |
| `Days`, `Items`, `Labels`, `Dates` | 2, 1, three spellings of two, {1, 2} | two days that take one label, an item whose day moves |
| `Spaces`, `SpaceLimits`, `Tenths` | 3, {0, 1, 2}, 24/25/34 | two bands of distance with a tie, a space of the platform |
| `MaxAccounts`, `Banks`, `Numbers` | 2, 2, 2 | a second subaccount opened because an answer was lost |
| `MaxFile`, `Cells` | 3, seven kinds of row | a row repeated, a repeat in another spelling, a bad row between |
| `Calls`, `Cut` | 2, 2 | every limit of the code is cut to 2, so that it is reached by two overlapping calls; at most three are counted and two end as counted at a place, so that a window can end and the next fill up |
| `MaxItems`, `Quota`, `Assets` | 2, 1, 2 | the space taken by one of two saves; a file too large |
| `MaxPhotos`, `Sweepers`, `MaxArchivings`, `MaxBreaks` | 2, 2, 2, 1 | an event archived, restored and archived again, two servers, one of which crashes or is late. `RetentionDays` and `ReminderDays` are 1 for 30 and 7 |
| `MaxLetters`, `EmailLimit`, `TextQuota`, `PostsPerDay` | 2, 2, 2, 1 | two invites of one guest, one by SMS; limits that two requests reach |
| `MaxBuys`, `TopPass`, `Cashiers` | 2, 2, 2 | a pass and the larger one, confirmed in either order |
| `MaxCodes`, `MaxDevices`, `Ttl`, `MaxAge` | 2, 2, 1, 2 | a device at, before and past its age |
| `Members`, `TeamRequests`, `Invites` | 2, 2, 1 | the last two admins demoted by two requests |
| `MaxForms`, `MaxParty`, `Tabs` | 2, 1, 2 | a form, and another read before it was saved |
| `EventDays` (pages), `SeatCaps`, `PlanLimits` | 2, {2}, {1} | a day over and a day to come; a page that is full for one reason or the other |

State constraints (each is commented where it is defined) keep a scene to the
combinations that matter: `Small`, `OneErrand`, `OneBank`, `ShortImport`, `OneOfAKind`
in MCEvents, `InviteApart` in MCRegistration (one invite archived apart from its guest at a time, with one request beside it), `Quiet` and `Plain` in MCServices, `OneMatter` and `DatesOrList` in MCPages. A
state outside a constraint is still checked; what follows it is not explored. Most
leave alone what comes after a history variable was set, of which the property says nothing.

Symmetry is over ids that no operator orders; it is not used in the run that
checks liveness. `Find` uses CHOOSE over the rows of a reference, of which there
is at most one, so it is compatible with symmetry.

## 6. Fairness

Only `ticket_retry` checks liveness. `FairSpec` assumes weak fairness of a
worker's next step once it has begun (`Settle`, `ReconcileVerify`,
`CheckoutStarts \/ CheckoutFails`): a transaction is bounded by Prisma's timeout and a
Paystack call by the HTTP client's, so it ends one way or the other. It assumes
strong fairness of the start of a delivery, for each event Paystack has emitted
(`HookStart`): `payment-webhook.service.ts` answers anything but 200 when the
transaction fails, and Paystack redelivers until it gets a 200, so a delivery that
finds a worker free again and again is eventually begun. Weak fairness would not
do, since the key of an event is busy while another delivery of it runs.
Crashes are bounded by `MaxAborts`: a service that crashes on every delivery
records nothing. Nothing is assumed of guests, of the organiser, of the sweep, of
reconcile or of a charge being made.

## 7. Proofs

Every theorem is proved by TLAPS for any constants that satisfy the assumption named
in the module it is about; TLC evaluates these assumptions in every run that extends the module.
`PROJECT.json` lists the theorems one by one. Modules that share no variable have their theorems in one proof module. Where a property of a run is proved, the
run shows it on a small instance and the theorem for every one.

| Module | About | Theorems |
|---|---|---|
| TicketPurchaseProofs | TicketPurchase | `TypeCorrect`, `HeldCountIsExact`, `SoldCountIsExact`, `OversoldOnlyByLateConfirmations`, `PaidStaysPaid`, `LedgerAgrees`, `UnclaimedIsSuperseded`, `ImplementsTicketStock` |
| RegistrationProofs | Registration | `TypeCorrect`, `CeilingHolds`, `PlanHolds`, `AnswersReplace`, `CapHolds` |
| | RegistrationPage | `PublicTypeCorrect`, `PageTellsNothing`, `PageIsTrue` |
| | InvitePage | `PageTypeCorrect`, `GuestStaysReachable`, `PageResends` |
| | both pages | `PagesTypeCorrect` |
| SubscriptionProofs | Subscription | `TypeCorrect`, `UpgradesReplace`, `PlanFollowsPayment`, `PaymentGivesPlan` |
| ServicesProofs | EventPass | `PassTypeCorrect`, `PassIsAsPaid` |
| | MemoryHub | `AlbumTypeCorrect`, `AlbumIsKept` |
| | SignIn | `SignInTypeCorrect`, `SuspensionHolds` |
| | Team | `TeamTypeCorrect`, `RolesAreKept` |
| | Services | `ServicesTypesHold` |
| OrganiserProofs | EventStatus | `StatusTypeCorrect`, `OneEmailPerCancellation`, `OneArrivalAtTheDoor` |
| | PayoutAccount | `PayoutTypeCorrect`, `PaidIntoTheAccountShown` |
| | RateLimits | `LimitsTypeCorrect`, `LimitersLimit` |
| | GuestImport | `ImportTypeCorrect`, `EachRowIsKept` |
| | EventCreation | `CreationTypeCorrect`, `EventsAreAsAsked` |
| | Vendors | `VendorsTypeCorrect` |
| | EventCreation and Vendors | `NoMoreThanGranted` |
| | EventContent | `ContentTypeCorrect`, `ProgrammeIsKept` |
| | Organising | `OrganiserTypesHold` |
| LettersProofs | Reminders | `RemindersTypeCorrect` |
| | Reminders and Announcements | `LettersAreInOrder` |
| OutreachProofs | Feedback | `FeedbackTypeCorrect`, `ConsentIsKept` |
| | MediaRetention | `RetentionTypeCorrect`, `PurgesAreAsPromised` |
| EventRulesProofs | TicketPricing | `EveryQuoteIsFair`, `MoreNeverCostsLess`, `CentsComeBack`, `HalfACentAtMost` |
| | EventEntitlement, EventGates, EventDayFields, ShownDates, DoorRoster | `PassOnlyAdds` ... `CountsAgree` |

**TicketPurchase** (`Purchases` finite, `MaxQty` a positive natural, the limits naturals,
`None` no id). The counters and `StockBound` follow from one inductive invariant,
`StockInv`: their conjunction with `TypeOK`, with "the purchases in `late` are PAID"
(a late purchase would otherwise be taken off a sum it is not in) and with
`limit <= peak`. `StockBound` is not inductive alone: holds are granted and given back
by the counters, so the bound needs both to be exact, and they stay exact because each of
the four ways of giving a hold back tests the status under the row lock. The counts are
cardinalities of sets of ticket units; lemmas (`UnitsAdd`, `UnitsRemove`...) relate a change of one row
to a change of the cardinality.
`LedgerAgrees` needs `LedgerInv`: the property, and that a purchase has had finitely
many references, so that a new attempt makes one more of them.
`UnclaimedIsSuperseded` needs `TraceInv`: Paystack knows, and tells of, references that were issued only,
each to a row that exists; and what a request in progress knows of the reference it
carries (`Knows`): a webhook's that was looked up and found no row has been superseded. The refinement `ImplementsTicketStock` uses the exact counters:
`TakeHoldIsHold` (a reservation or a retry is a `Hold` that returns the holds it sweeps),
`SettleIsPayOrRelease`, `WorldIsWorld` (the organiser's and the clock's steps), and every other step a stutter.

**Registration** (finite guest ids, disjoint from those of plus-ones; caps and limits
naturals or absent; `None` no id). The base is `ListInv`: `TypeOK`; `Known`, what is known of a
request in progress (an answer is by a guest who is there, names nobody if it
declines, and holds the seats of the plus-ones it read); and `Hosted`, that a plus-one was brought by
a guest who is there and has answered. Without the last an answer could
replace nobody: `submit` archives plus-ones only if the invite was no longer PENDING when read. From it,
by counting (`Exchange`: a set that loses some members and gains at most P):

* `CeilingHolds`: additions and registrations are counted under the lock against what is
  there; an answer that is not stale archives exactly the plus-ones it read, so it never adds more
  than it asked for.
* `PlanHolds` and `AnswersReplace`, action properties, from the same counts and from `Committer`
  (only its own commit both ends a request and writes to the list). `PlanHolds` is about the limit the request
  has read, which may be gone when it commits: nothing holds the plan or the pass still.
* `CapHolds` needs `LockInv`: an answer that asks for more seats than it holds, once past
  its check, has the event's lock and there is still room for it. So no other
  request raises the seats in between, and an answer that asks for no more than it holds never raises them
  (`SeatsAfterAnswer`). It has two hypotheses, `"invite" \notin Organiser` and `None \notin Caps`, and
  neither can be dropped: TLC finds the cap passed when an invite is brought back, and when a
  cap is set while an answer that read none is in flight (section 8). The run
  `registration_answers` checks the property under the same two.

**Subscription** (finite `Codes`, `Refs` and `Workers`; any faults). `UpgradesReplace`
adds `IssuedOnce`: a checkout being opened is still only issued, and no other request
opens the same reference; without it, opening a page could take back a paid one.
A request's own steps start no subscription (`NoneStarts`), Disable
exchanges a running subscription for a request about to create one (`GivenUp`), Create does the
reverse (`Replaced`), a paid page adds one to both sides (`CheckedOut`). The point of
interest is `GivenUp`: it holds because Paystack refuses to disable what is not running,
and the code stops there.

`PlanFollowsPayment` and `PaymentGivesPlan` compare the row with Paystack's record, which
agree only once everything has been handled. The first holds also when refreshes fail and starts of subscriptions pass
for duplicates (`Harmless`), as the row then stays with a subscription it had; the second does not. `PlanInv` says what accounts for each difference
before that: a subscription that the row has as running and that is over has its end in the queue, behind
the event that started it (`EndsAreTold`); the one that runs, if every start was handled, is the row's or the last start there
(`StartsAreTold`); while a renewal is being retried, grace runs from its day or the refusal is in the
queue, and nothing that would end the grace is (`RefusalsAreTold`); when the renewal was paid, what ends
the grace is in the queue after every refusal (`PaymentsAreTold`); and there is one subscription at a time,
or one request replacing it (`OneAtATime`). Without the last, one subscription's payment could
end the grace of another. `PaymentGivesPlan` adds that the stored period end is Paystack's, or the
renewal is in the queue, or its refresh to be made (`EndIsFetched`).
Both rest on `DatesAhead`, what Paystack's schedule does: if a renewal charged more than a period late paid
only for a period already over, it would be due again at once, and its refusal would give another grace.

**EventPass.** `PassIsAsPaid` holds through `PaidFor`. A purchase is sold as an upgrade of the active
pass it saw (`SoldAsUpgrade`), so confirming it lowers a pass only if something changed since
(`~lowered`); a purchase that no two transactions read together is with one at most, which finds it
as it read it (`OneAtATime`); what is booked was charged, and the pass is one of those booked
(`Booked`). The types say what a transaction has read (`AtTill`).

**EventStatus.** `OneEmailPerCancellation` counts: the notices are one for each publish that undid a
cancellation, and one if the event is cancelled now (`OneNotice`); and each such publish uses up one of
those that had begun while the event was a draft, of which there are fewer than requests
(`FewPublishers`). `OneArrivalAtTheDoor` needs `Door`: unless an invite was added or restored
meanwhile, what a check-in is about to write is the newest live invite, and no other live one has been
checked in (`AsRead`). That a set of invites has a newest is an induction, done through the well-founded
order of the naturals.

**MemoryHub** (finite `Assets`, `"open"` among the doors). Space: while every save was checked, what is counted is
within the plan's quota, and so is what any one save in progress adds to it (`RoomForSaves`); a save that finds
another in progress is what makes `unchecked` true. Files: one that an item or a save names is
stored and nobody is deleting it, unless two saves named it (`FilesKept`), the re-save of section 8.

**SignIn** (the bounds naturals, `0 < Ttl <= MaxAge`). While suspensions and reactivations neither cross nor fail
one stands at most, and between them the devices from before are revoked and Firebase agrees with the row
(`Untangled`). A code that no two requests send or check at once is with one of them at most, which has opened nothing
before it uses it (`OneOpening`). A device was not used in the future and expires no later than its last use
allows (`Dated`).

**Team** (`Founder` one of `Members`). `RolesAreKept` needs `Fresh`: what a request has read of a member is true until somebody
writes to that member, so a write that is not stale judges the member as they are; the count of the other admins is
made under the lock and needs no such help. It needs `Held` too: a suspended
workspace has somebody whose role is admin, for when it is restored, and every admin was let see every
event, for when they are made an event admin with no list. An acceptance's events are empty only if its invitation's are
(`InvitesFit`): `AcceptRead` refuses one whose events are all gone.

**PayoutAccount** (`MaxAccounts` positive, `Unsaid` no number and no bank). A request that is alone has
read what the row still says, and what Paystack answered it is true, all of it if it gave the whole account or
the row it read was sure (`AnswersAgree`); the row agrees with Paystack's account when no answer is
due and none was lost (`RowAgrees`).

**RateLimits** (finite `Calls`, `Cut` a natural). `LimitersLimit` needs `Within`, of each limiter and key: the requests that ended as it counts
and those on their way are no more than the count plus `carried`, the requests of an earlier window that were taken off this one's count; and those
it let by are no more than it allows plus `carried`. The second needs the first at each arrival, where the count is what is compared. The first is
lost if a request is given back twice, or though it counts, or under another key than it was counted under.

**EventCreation** (finite `Events`, `Null` no member, event or draft). `EventsAreAsAsked` and the first part of
`NoMoreThanGranted` have one inductive invariant, `CreationInv`. A save has a number, and the number is of one draft of one member
(`SavesOK`); while two requests have not read the same save (`torn`), the one that has it made no event yet, and a save
an event was made from is in no draft, except between the event's transaction and the deletion that follows it
(`MakingOK`). That exception is the point: the deletion is a statement of its own, and a request that stops before it makes
its save `torn`. A member found locked before an insert is one to whom an administrator had given a
list (`LocksOK`); what was counted before an insert leaves room for one more, until a count is overtaken (`RoomLeft`).

**Vendors** (finite `Spaces`, disjoint `Services` and `Products`). A creation was let through on a count below the limit (`ErrandsOK`), which is a cardinality of the tenant's live spaces, and
`LiveGrows` says that one step adds one of them. `NearestFirst` is of every result a search may give,
a fact about its order that no step can disturb.

What is offered hangs on a space or a service, and so does what a request is about to offer (`TradeInv`), from which the types follow.

**EventContent.** `ContentInv` gives for each plan that is not stale what it was checked for, judged on what it would leave and not on what was read: the labels of the days
after it is applied are distinct (`LabelPlan`), and the items after it stand on their days (`OnDayPlan`), those of an archived programme apart. Three facts carry it: a day a request will insert is no other's
to write (`DrawnFree`), no item exists before its programme or its day (`ItemsStored`, `FirstPlan`), and what a plan leaves as it is, was
there when it was read (`Stored`). One lemma per action says what it writes, one per part of the invariant that the action keeps it, for the plans of the others too.

**GuestImport** (finite `EventDays`, `MaxPlusOnes` positive; the template's examples three distinct contacts of the kinds the features allow). What the
rows come to is a recursive function on the rows of the file, taken in order. That there is such a function for a file of any length
(`PassExists`) is an induction, done by taking the least length that has none. `JudgedTo` says what the first n rows leave, for every n up to the end
of the file: the contacts seen are those of all rows so far that could be a guest nobody has the email of, repeats included, so which row comes first with a contact is told by the file alone; those kept are in the file's
order, and the rest are reported. Days archived and guests added between the read and the write change nothing, as the desk goes by what it read.

**RegistrationPage** (finite `Public`, finite nonempty `EventDays`). `TellsNothing` and `PageTrue` are of any state of the right types: the state of the page and the refusal of a form are worked
out from the same row by two functions, and `OpenIsOpen` goes through their conditions in the order of the code: the page's deadline, status and
seats against `RefusedUnseen` and `Refusal`.

**InvitePage** (`MaxForms`, `MaxParty` naturals). `GuestStaysReachable` needs `Judged`: what a request would leave of the contact it read has an email or a phone, and the
channel it would set is one that what is left can be reached on. A write by one that read the contact and the channel that are still there
keeps the property, and any other is `overtaken`. `PageResends` says that the answer given can be sent again with the questions that are shown (`PrefilledAsked`), and with all that `validate` returns
(`Prefilled`) exactly if no answer is to an archived question (`Orphaned`). It needs `AnswersInv`: the answer stored satisfies what is asked (`AnswerKept`), each form that has
read what is asked now would satisfy it too (`UpToDate`), nothing is stored before the first answer, and a question not yet asked takes all. A question or an
allowance that is changed empties `current`, so only forms read later speak for it.

**Feedback** (finite `Pictures`, `"event"` none of them, as a record is about a photo or about the event). Of a
photo no two requests crossed over the log says what its guest was told, and at most one request about it is in
progress, which has read what the log still says (`GuestSide`). Of the organisers' saves at most one is in progress, by the
event's lock, and it has read what they allow still (`OneSave`), so each record it makes opposes the last one
about the same thing (`OneChange`). A request for feedback is sent by the one sweep that claimed it (`AskedOnce`).

**MediaRetention** (`RetentionDays` positive, `ReminderDays` at most that, finite `Sweepers`).
`PurgesAreAsPromised` needs two invariants. `PromiseInv`: a day passes only when nothing is in progress (`Calm`),
so what a sweep found due is due when it claims, unless the event was restored meanwhile, and then it has not been
archived long enough (`StillDue`). `PurgeInv`: an attempt's items are covered by its purge and it leaves none of
them without having failed (`AtPurge`); a file is missing only of an item that is marked or that a purge under way
covers (`AsPurged`); of a purge at most one attempt holds the lease, though others may still run (`OneLease`); and
no item is counted by two attempts. The last is not a fact about the counts alone: `CountedOnce` says that sets of marked items exist,
one for each purge and each attempt, disjoint where it matters, of which each count is at most the size. An attempt adds to its own
what it marks first, and hands its set over to the purge when it ends.

**Reminders** (any number of invites a guest). `WithinTheDay` needs three invariants. `ChaseInv`: an invite a reminder holds was
reminded today and no other request holds it (`HeldWell`); and of a guest who is not `blurred`, one invite at most was
reminded today (`OneAtMost`), every reminder about to claim is about that invite, the one `Target` still names
(`Aimed`), and a reminder that reached them went with it and is no request's to give back (`Spent`). `Aimed` is what makes a
claim per invite enough for a cooldown per guest, and it is lost as soon as the guest's invites change between the read
and the claim. From these: nobody was told yet that a guest was reminded about whom one holds a claim not yet sent with (`UntoldYet`), so whoever is reminded after a reminder known to have gone
is `blurred` (`AgainInv`). Of a reminder whose answer was lost nothing is known, and the code, which gives its claim back, sends another. `MailInv` keeps a share of the day's places, disjoint from all others, for each request that has claimed its emails and
not sent them, which makes the sum of what is still to be sent a set; without it `mailed <= posted` is not inductive. `TextInv`: one
request has texts to send, and there is room for what it has left.

**Announcements.** `CancelledLast` needs `NoticeInv`: one request at most cancels, of a cancelled event; and
once its notice is addressed, whoever comes under it is among those it is addressed to or a stray. `LastWordInv`: what may still go to guests of a cancelled event was
past its last look at the event when that was cancelled (`underway`).

**Pricing and rules.** These have no state: the theorems are about the operators, for all inputs,
with the arithmetic in cents and thousandths. They assume only types: the plans' rows are any an admin may set.
`PassTakesWhatItsPlanLacks` and `PassRefusesWhatItsPlanLacks` say exactly what a pass may take away (`TakenByPass`, section 8) and that it takes nothing else.

**Organising and Services.** The runs check these two, which hold the modules above. `OrganiserParts` and `ServicesParts` are refinements: a behaviour of
the whole is one of each of its modules, which steps as its specification says or not at all. So every theorem about a module is one
about what the runs check, and `OrganiserTypesHold` and `ServicesTypesHold` follow from the types of each.

Only model-checked: `ChargeIsRecorded`, which is liveness under fairness, out of the prover's reach. Every other
property of a passing run is stated by a theorem.

Four of these proofs first failed because the model, or what it said, was wrong beyond the instances TLC had checked, and it was set right.
With three events, a member unlocked between the lock read and the insert of another request is locked again to that event alone, and
so keeps the access to none of the events made before (`SettledWith`). With four forms, a contact
that is removed and given back while the invite moved to the other channel is not what was read (`via`). A search may give spaces at one distance in
any order, so `Nearby` is a set of results. And conditions that the code tries in order are nested IFs in RegistrationPage: as alternatives of a
CASE they overlapped, and TLA+ leaves open which of them is taken.

## 8. Where the code differs from what it says

With a run that shows it:

1. **A charge on a superseded attempt is lost** (`ticket_lostcharge`).
   `ticket-purchase.service.ts:423` says that refusing to record a charge as PAID
   leaves the records permanently wrong; `retryPayment` (line 334) overwrites the
   reference, so the earlier page's charge finds no row.
2. **The cap is passed by two answers of one guest** (`registration_overcap`).
   `rsvp.service.ts:595-596` says the lock prevents it; the seats already held are
   from a read before the lock (line 598).
3. **A plan outlives its subscription** (`subscription_missed`).
   `subscription.service.ts:621-623` says access lapses whether or not the disable
   webhook arrives; `resolveEffectiveTier` looks at the period end only when the
   flag that webhook sets is set. And the webhook need not be handled: the same run shows a disable event
   answered as a duplicate. `payment-webhook.service.ts:153-154` makes the dedupe key of the id or the
   reference, and lines 45-47 say that a subscription's create, disable and not_renew events carry neither: their
   key is their name, one row for all tenants, against line 203's "already processed". A tenant whose end is dropped keeps the plan, one whose
   start is dropped never gets the plan paid for, which is why `PaidIsEntitledIfPlain` sets that fault aside.
4. **A shown file is deleted** (`resave`). `memory-hub.service.ts:77` says that a refused
   upload is destroyed so that it is no "orphan nobody ever references"; a save repeated
   once the album is full is refused (line 142) and deletes the file of the item the first one made.

Seen with the same modules under other constants or properties, with no run of
their own.

Tickets and passes:

* `ticket.repository.ts:64` says overselling is prevented where a hold is taken, and
  `schema.prisma:1126-1127` that two guests are never both let through to pay for the
  last unit. A hold that lapses is sold again while its checkout page can still be
  charged, and a confirmation after that passes `totalQuantity`. `StockBound` bounds by exactly how much.
* `ticket-purchase.service.ts:382`: a PENDING purchase whose hold has lapsed is
  said to be resolved later; only another buyer's purchase of the same ticket sweeps it.
* `retryTicketPayment` and `confirmTicketPayment` ask nothing of the event's status or dates.
* A ledger write that fails after the page was opened marks the purchase FAILED though it can be charged.
* On a card the platform may end up to half a cent short of its commission, or over it, by rounding; on an
  EFT never short.
* The late confirmation of a smaller pass lowers the event's pass.
* The plans' rows need not ascend. An event with an active pass is treated wholly as the plan the pass
  grants, so a row of that plan that forbids what the workspace's own allows, or its absence, takes it away.

The guest list and its answers:

* An addition, an import or a restore is held to the pass read before the lock and the plan read under it, a registration to
  both as read before it: none of them is the limit in force when it commits (`guest.service.ts:87, 212, 260`).
* The guest ceiling (`guest-ceiling.util.ts:8-9`) can be passed by an answer whose
  count of its own plus-ones is stale (`rsvp.service.ts:720`), the plan's limit by a
  restore that read its guest as live (`guest.service.ts:234`, against
  `guest.repository.ts:100-102`), and the replacement promised at `rsvp.service.ts:629-632` is
  incomplete when two answers interleave (line 651). These are the stale commits
  the `IfFresh` properties set aside.
* An archived invite that is brought back while an answer is in flight takes its seats again
  under no lock, and a cap set where there was none is not asked by an answer that read none: either takes
  the registered seats past the cap.
* `submit` and `validate` refuse neither an archived invite nor an archived guest. Days and questions can be archived and never restored.
* `validate` leaves archived days out of the form it fills in, since `submit` would refuse them (`rsvp.service.ts:391-394`), and
  returns the answers to archived questions (line 398), which `submit` refuses as well (line 801): a page sent back as it came is refused.
* Two answers that cross can leave a guest with no contact at all; two first answers that choose no
  day both succeed. An organiser's edit of a contact leaves `deliveryMethod` as it was, and
  `invite.repository.ts` accepts any channel and status: with texts switched off,
  "Add an email address for them and send again" is advice that changes nothing.
* A guest all of whose invites are archived is told that an email was sent (`event-public.service.ts:246-256`),
  and the comment at line 371 describes an earlier version. Another registration by someone on the list is
  only sent again if the days and plus-ones it asks for pass.
* The export leaves out the live plus-ones of an archived host; the door list shows a plus-one under the
  wrong host if two have one name.

Subscriptions, accounts and people:

* A period-end refresh that fails and is followed by a cancellation ends the plan
  before the time paid for; `subscription.service.ts:461-468` says only a displayed date
  is stale (`PaidIsEntitled` with fault `"refresh"`).
* With `"reorder"`, both entitlement properties fail. With `"pages"`, a declined
  charge on a page left open starts grace for a tenant whose period is paid
  (`schema.prisma:320-321` says it does not), and two checkouts can both be paid
  (`schema.prisma:353-354` says one attempt at most is in flight).
* A slow cancellation's write, or a late disable event matched by email alone, marks
  the *next* subscription as ending, although
  `subscription.repository.ts:127-129` says a new one supersedes what came before.
  `ActiveWithinPaid` holds under all of these.
* An answer of Paystack that is lost, or two updates that cross, leave another payout account at
  Paystack than the one shown.
* `user.service.ts:316` says reactivation starts from no trusted device; a sign-in that races the suspension
  can trust one. A change to the role a member has already writes it without the lock.
* `Tenant.isArchived` is never set, so the invitations of a suspended workspace still work
  (`user-invite.service.ts:42-43`, against line 149 and `tenant.service.ts:139`).
* The keys of token limiters that cannot be read share one bucket. A plan without a row is unlimited.

Events, the door, photos and notices:

* Publishing races an un-cancel (`event.service.ts:473`). An update of an event has no guard on its status
  and does not hold `registrationClosesAt` against a new answer deadline. One that leaves out ticketing or
  visibility, or is made while a feature is off, promises nothing about publishing;
  publishing asks the plan about selling and not about being public; re-sending PAID after a plan lapsed
  asks again (its own comment says so).
* The instants at which a day starts and ends are not tied to its date. Two crossing updates of a day can
  bring back a venue, or leave an end before its start.
* `getShareLink` makes the link on first use, by a read and then a write. An archive that failed half way
  cannot be tried again. The date shown for an event with nothing to download may be later than its purge.
* At the exact instant shown as the next at which an announcement is possible, it is still refused.
* A call to the mailer or the SMS provider that times out or breaks off is taken for a message not sent (`email.engine.ts:46-54, 64-79`): the claim is
  given back, and a guest who has the reminder may get another the same day; the notice of a cancellation may have reached guests whom
  the organiser is told it did not.
* An announcement or an invitation that read the event as published may follow the notice that it is cancelled.
* A reminder's cooldown is per guest and its claim per invite. The quota of texts is read before sending and
  logged after it. Restoring a vendor space asks no limit. `vendor.repository.ts` says 2.4 and 2.5 both round to 2;
  `Math.round(2.5)` is 3.

## 9. Not modelled, and why

* The content of names, phones, messages, currencies, card details and designs: no modelled decision
  depends on it. Formatting is pure and has unit tests.
* Who may call an operation, elsewhere than where section 1 says: every action is a call that was let in.
* A webhook handler of Subscription is one step. It reads the tenant without a lock,
  so a request may write between that read and its own write; the requests write
  `pending` and `cancelled` only. The one such order with another outcome is
  `ChargeFailed` clearing a newer attempt than the one it matched, which leaves the
  row as `SubscribeFails` does.
* Paystack, Firebase and Cloudinary are what the code can observe of them. A renewal is tried on its day; an
  open page may be paid at any time. These definitions are marked external in `PROJECT.json`.
* Email and SMS engines, geocoding, monitoring, designs, scripts, documentation generator: they keep
  no state a modelled operation reads.
* What the components marked partly leave out is said in their notes in `PROJECT.json`.

## 10. Plan

What is left to model are the parts that the components marked partly leave out, and then to prove what the runs will check of them.
