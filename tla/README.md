# Rentars verification

Rentars is a rental marketplace: a tenant reserves dates, pays in USDC on Stellar, the price waits in
an escrow, and the host is paid when the stay is confirmed or completed. Money and dates are handled in
three places that do not share a transaction: Soroban contracts, a Node.js backend over PostgreSQL, and
external providers (TrustlessWork for escrows, Stellar Horizon for payments).

This directory holds TLA+ modules of the parts that decide about dates and money, and of four parts
they lean on (idempotency keys, account deletion, listing moderation, listing terms), TLC configurations
that check them on small instances, and TLAPS proofs of their main safety properties. `PROJECT.json`
maps every definition to the source lines it models and lists runs, mutants, findings and hazards.
Paths below are relative to the repository; `services/` is `src/apps/backend/src/services/`.

## Inventory

| Part | State | Operations | Talks to | Modelled in |
|---|---|---|---|---|
| booking contract (`apps/contracts/contracts/booking`) | bookings, index per property, admin, token address, vault balance | create, fund, cancel, update status, dispute, resolve, set escrow id, set token | property listing (cross-contract call), token contract | `BookingContract` |
| property-listing contract | listings and their status | create, update, update status, set rented | booking contract | `PropertyListing` |
| booking service (`services/booking.service.ts`, `refund.service.ts`) | `bookings` row, status history, refund request, earnings | create, confirm, cancel, complete, dispute, raise and resolve a dispute, expiry sweep | database, TrustlessWork | `BookingService` |
| calendar (`create_booking_atomic_v2`, `availability.service.ts`, modifications in `booking.service.ts`) | stays, blocked ranges, date change proposals | reserve, block, unblock, request, accept, decline, expire | database only | `BookingDates` |
| payments (`payment`, `paymentCallback`, `stellar` services, `payment.controller.ts`) | `payments` row, ledger of seen events | submit, retry, poll, webhook | Horizon, TrustlessWork webhooks, database | `PaymentService` |
| idempotency keys (`services/idempotency.service.ts`, `booking.controller.ts`) | one row per user and key | claim, replay, complete, release, purge | booking creation | `IdempotentCreation` |
| account deletion and data export (`services/privacy.service.ts`, hourly worker, retention purges) | `account_deletions`, `data_exports`, the tables with personal data | request, cancel, execute, export, purge | every table with personal data, bookings | `AccountDeletion` |
| listing moderation (`services/report.service.ts`, public reads in `property.service.ts`, `cache.service.ts`) | hides and appeals on reports, visibility of the listing, its public copy in Redis | hide, lift, appeal, review, remove, read | database, Redis | `ListingModeration` |
| listing terms (`services/property.service.ts`, `createBooking`) | the listing's row, its numbered versions, the terms stored with bookings | save and publish a draft, edit, roll back, capture | database, booking creation | `ListingTerms` |
| email delivery, review contract and sync, legacy rental contract | one table each | see `PROJECT.json` | providers, chain | planned |
| circuit breaker, attempt limiter, ledger inbox, reminders | Redis keys, tables | without a caller, or called without being imported | | no |
| authentication, search, messages, notifications, frontend | single rows, queries | | | no |

How they meet: a booking is reserved by the calendar (`BookingDates`), given an escrow by the booking
service (`BookingService`), paid through the payment service (`PaymentService`) or on chain
(`BookingContract`). The booking row is shared by calendar and service; the price of the booking is
shared by calendar (an accepted change reprices it) and payments; the escrow's status at TrustlessWork is
shared by service and payments. The on-chain mirror of a booking is best effort: the backend catches its
errors and goes on, so no property here relies on it. `IdempotentCreation` stands around `createBooking` in the
controller; `ListingTerms` covers its reads of the listing; a hidden or removed listing (`ListingModeration`) only turns
away new bookings; open bookings hold up an account's deletion (`AccountDeletion`).

What is hard. Node runs one handler until its next `await`; between two awaits any other request, sweep or
webhook may run, so whatever was read before an await may be stale after it. Provider calls are answered
before they take effect and their answers get lost. Webhooks arrive late, twice or in another order. Sweeps
and pollers die with the process. Date ranges are guarded in four places that do not agree on which statuses
count. The contracts are sequential and atomic; what is hard there is a long sequence of legal calls by
tenant, owner and admin.

What makes each part correct:

- contracts: no two live bookings of a property overlap; the vault holds the open escrows; a price enters and
  leaves once, to the owner or back to the tenant; outcomes are final;
- booking service: overlapping requests still walk the state machine, nobody is on record as paid before the
  provider paid them, overdue holds end;
- calendar: no night is sold twice, a stay moves onto free nights only and a given-up stay never comes back, an
  answered proposal neither expires nor reopens, no proposal waits for ever;
- payments: confirmed means paid, and at the price the booking has, a stale decision never overwrites a newer status, a submitted payment gets
  its final status;
- idempotency: one request at a time acts under a key, one booking and one answer come of it; no key blocked for good;
- account deletion: nothing is erased before a cancellation window has closed, and nothing before the account itself;
  completed means wiped, and every due deletion is carried out;
- moderation: an appeal has one decision; what is hidden or removed leaves the public cache;
- listing terms: a history without gaps that nobody rewrites; no save overwrites what its author has not seen.

## Plan

Done, in this order: `PropertyListing`, `BookingContract` refining `EscrowAccounts`; `BookingService` refining
`BookingOutcome`; `BookingDates` refining `Calendar`; `PaymentService`; `IdempotentCreation`; `AccountDeletion` refining
`AccountErasure`; `ListingModeration`; `ListingTerms`; and the proofs of each.

Next, most important first:

1. A composition of `BookingService` and `PaymentService` over one escrow, with the refinement to
   `BookingOutcome` kept.
2. `EmailDelivery`: the delivery record and the suppression list under webhooks in any order.
3. Reviews: host responses, moderation and appeals in `review.service.ts`; the index and the deduplication of the
   review contract.
4. `RentalContract`: availability against the bookings.

## The modules

Modules named `X` model the code, `MCX` fix small instances for TLC, `XProofs` hold theorems.

### Contracts: `PropertyListing`, `BookingContract`, `EscrowAccounts`

Each entry point is an action, named as in the Rust code, whose guards are its `require_auth`, `assert!` and
`panic!` conditions: a call that panics changes nothing, so it is no step. `BookingContract` extends
`PropertyListing`, because `create_booking` calls `set_rented` in the same transaction; nothing calls the listing back when
a booking ends, its owner reopens it. Storage keys become functions and sequences (`bookings`, `propertyBookings`, `listings`), the token
contract becomes `balances` with `transfer` as its only operation (external). Dates are small naturals with half-open
ranges as in the code. Titles and storage lifetimes are left out.

`EscrowAccounts` says what the contracts promise about money, without listings, dates or statuses.
`EscrowPromise` is its specification under the mapping that reads each booking as an escrow account.

### Booking service: `BookingService`, `BookingOutcome`

One booking. A request (`req[r]`) is a small record: which operation, where it is, what it read when it
started. An action is the code between two awaits: `Load` reads the row and checks eligibility, `Look`, `CallProvider`
and `Recheck` are provider calls, `RequestRefund` to `FailRefund` drive the refund request's own state machine,
`RecordEarnings` writes the ledger, `Commit` is the conditional update of `transitionStatus`, `InsertHistory` the row
it writes after. `createBooking` is its own sequence of steps, with its rollbacks. Every call has an error branch,
and a provider call one in which the order was accepted and the answer lost; a reservation whose answer is lost stays behind, and so
may the row a rollback fails to delete. `Fund` and `Settle` are the tenant and the provider; `resolveRefundTier` moves the refund tier of
a cancellation, which the clock takes down and an accepted date change may take up again.

Left out: queries, validation before the reservation, notifications and the on-chain mirror (best effort), the expiry
warning, the administrator's raw update and delete of a booking. A caller is one the operation authorises.

`BookingOutcome` is the contract with the two parties: the status walks the state machine, one party is paid
once, records of payment follow the payment. `OutcomePromise` is the refinement.

### Calendar: `BookingDates`, `Calendar`

One property. A stay is the set of its nights, so overlap is a common night. `create_booking_atomic_v2` is one step (a
transaction under an advisory lock). Everything else reads in one step and writes in a later one: `blockAvailabilityRange` then
`InsertBlock`; `requestModification` then `InsertProposal`; `acceptModification`, `ApplyDates`,
`MarkProposal`. The preflight of a date change (`Available`) takes a query that fails for one that found nothing, so `MayPass` lets
every stay through that it might; `Excluded`, which does not fail open, is the exclusion constraint, evaluated inside the writes it guards. The sweep takes a
list of lapsed proposals (`expireStaleModifications`) and expires them one by one. A failed creation deletes its row by id,
whatever its status (`DeleteReservation`). Minimum and maximum stay, guests, prices
and same-day turnover are left out.

`Calendar` is what the guests see: a booking takes free nights, moves to free nights, gives its nights up for good. Under
the mapping of `CalendarPromise` a booking holds its stay while its status is any but Cancelled, an expired one included,
as the constraint has it; a cancelled or deleted one is gone. A late `ApplyDates` may still write dates to a cancelled row,
which holds nothing: that step is a stutter of `Calendar`.

### Payments: `PaymentService`

One payment: `payments.booking_id` is unique. `Read` and `Write` are the two halves of `transitionPaymentStatus`; the record
of a request says which transition it wants and what the caller does with the result (`Done`, `Refused`). `Stored` includes
the database trigger `guard_confirmed_payment_amount`, which turns a confirmation at another price into a quarantine. Webhooks
are translated by `mapProviderStatus`, which takes a status it does not know for `under_review`; `Events` are the statuses an
escrow has at the provider.
`submitTransaction` may fail with or without the network having the transaction. `confirmTransaction` is one look at Horizon;
the loop with its backoff is the action staying enabled, the deadline the branch that gives up. A webhook is delivered
again until its event is recorded, and two deliveries may overlap; its reads (replay ledger, payment, price)
are one step, its transition two, recording one.

An event hash is what it is computed from: transaction and status for the backend's own updates, the event for
webhooks. Amounts are abstracted to `priced`: payment, quote and booking still agree. Signatures, clock skew, quotes and the
attempt limiter are left out; the limiter's bound on retries is `MaxVersion`'s role in the instances. The controller calls
`recordSuccess`, `recordFailure` and `checkAndIncrementAttempts` without importing them; the module takes these names for the
services' functions, and the exception their absence raises is one of the failures of `submitTransaction`'s bookkeeping.

### Idempotency keys: `IdempotentCreation`

One key of one user. A request claims the key by inserting its row (`lockKey`); a conflict is followed by a second call that
fetches the row (`fetchExisting`) and ends in a replay, a 409 or a 422, or, when nothing is found, in going on without the key.
`BookKeyed` and `BookUnkeyed` are `createBooking` seen from here: it takes the dates or fails, and a failure may leave the
reservation. `completeKey` and `releaseKey` are the two ends, `purgeExpired` the hourly cleanup, `Age` the retention period
going by. A row is known by the request that made it. `answers` and `unkeyed` are what clients were told, not program state.

### Account deletion: `AccountDeletion`, `AccountErasure`

One user. `requestAccountDeletion`, `LookUp`, `InsertDeletion` and `cancelAccountDeletion`, `MarkCancelled` are the user's
requests, call by call. A batch of the hourly worker works from the row it listed: `CheckObligations`, `WipeTable` for each table
in the code's order, `ClearExports`, `Complete`. `held` is the set of tables that still have personal data; while the account
is open, its user adds to it (`Writes`). An export is read table by table and stored later. Password, tokens, audit log and
the rows of other users are left out.

`AccountErasure` is what the user may count on: nothing is erased unless a deletion on record has outlived its window, and the
account closes before another table is emptied. `ErasurePromise` reads `due` off the deletion rows, cancelled ones included:
a run that has started does not look at its row again (below), so "and is not cancelled" would not hold.

### Listing moderation: `ListingModeration`

One listing and the reports filed on it. A hide is two writes (`RecordHide`, `HideListing`), lifting one is a write, a query and
another write (`clearHide`, `hasOtherActiveHide`, `ShowListing`), an appeal is a read and a compare-and-set (`submitAppeal`,
`FileAppeal`), and so is its review (`reviewAppeal`, `Decide`), which goes on to lift the hide. A public read that misses the
cache reads the row (`getPropertyById`) and stores the copy later (`StoreCopy`). `DropCopy` is the deletion of the copy that an
edit or a removal ends with; a hide makes none. A report's status and the searches' own cache keys are left out.

### Listing terms: `ListingTerms`

One listing. Its tracked fields (`VERSIONED_FIELDS`) are one value: an edit replaces it, where the code merges the fields it was
given. `row.stamp` counts the writes, as `updated_at` tells them apart. A draft is loaded and saved (`getDraftProperty`,
`updateDraftProperty`) with the loaded `updated_at` or without; publishing reads and then flips (`publishDraft`, `GoLive`). An edit or
a rollback reads the row, writes it, asks for the next version number and inserts the version (`ReadBefore`, `updateProperty`,
`next_property_version`, `recordPropertyVersion`); a failed first read is taken for an empty row, so that any edit counts as a change, and a
listing without a slug gets one by a second write (`WriteSlug`). The last two calls run behind the answer and their errors are only logged. A booking's
creation reads the listing three times: live, price, terms. Images count as part of a complete draft.

## The runs

| Run | Instance | Shows |
|---|---|---|
| `contracts` | 3 accounts, 2 tokens, 1 property, 2 bookings, 3 days | types, no double booking, escrow and status agree, vault exact, outcomes final, the contracts implement `EscrowAccounts` |
| `booking_service` | 2 overlapping requests of all 7 operations, every call may fail | types, claims backed by payments, refinement of `BookingOutcome` |
| `booking_expiry` | confirmations and the sweep, 1 crash | overdue holds leave Pending |
| `calendar` | 2 bookings, 1 proposal that does not lapse, 2 requests, 2 nights | types, no shared night, refinement of `Calendar` |
| `calendar_expiry` | 1 booking, 2 proposals, 2 requests | an answered proposal stays answered, every proposal ends |
| `payment` | 2 overlapping requests, 1 transaction, version 4, 1 failure | types, confirmed is paid, none becomes confirmed at a price out of date, stale decisions never land, a submitted payment ends unless a call fails |
| `idempotency` | 2 overlapping requests, 2 payloads, 3 bookings, 2 failures | types, one answer under a key, one holder at a time, no claim lasts for ever |
| `account_deletion` | 2 deletions, 1 export, 3 tables, 2 overlapping batches, 1 client, 1 failure | types and one pending request, completed means wiped, refinement of `AccountErasure`, due deletions end |
| `moderation` | 2 reports, 2 overlapping requests, 1 visitor, any call may fail | types, one decision per appeal, what stays hidden leaves the public cache |
| `listing_terms` | 3 values of the terms, 2 overlapping requests, 1 guest, 5 writes | types, versions numbered without a gap and never rewritten, checked saves overwrite nothing unseen |

Violation runs, each a disagreement between the code and something the repository says of it; the quotes are in
`PROJECT.json` under `findings`:

| Run | What TLC finds |
|---|---|
| `payment_once` | a lost answer to a submission lets a retry pay again |
| `idempotency_duplicate` | two requests with one key book twice although no call fails: one finds the key taken, and gone when it looks for its row |

### Disagreements without a run

Each of these follows from the modules in a few steps, and TLC shows it when the formula is added as an invariant or a property.
They are recorded rather than run: each needs one or two actions that a reader can follow in the code, and whoever changes that code
should know them.

| Code | What the repository says | What the code does | Formula TLC refutes |
|---|---|---|---|
| `booking/src/lib.rs:138` | `:25` a cancelled funded booking gets its tokens back | `set_token_address` while escrows are funded makes the refund and the release draw on a token the vault does not hold | `token \in Tokens => balances[token][Vault] >= ` the funded prices |
| `booking.service.ts:1161` | `:1098` a finished booking is not cancellable | the refund request is made before `transitionStatus` refuses the move | a request at `request` has `from \in {"Pending", "Confirmed"}` |
| `booking.service.ts:1698` | `:1646` the escrow is locked until `resolveDispute` | `disputeBooking` sets the status only; `resolveDispute` wants a raised dispute | `status = "Disputed" => dispute = "raised"` |
| `booking.service.ts:1594` | `:1521` completion is from Confirmed | `completeBooking` takes a disputed booking to Completed | no step from Disputed but a resolution |
| `booking.service.ts:1591` | `:1522` completing releases the escrow | a failed release is logged and the booking completes | `status = "Completed" => escrow = "released"` |
| `availability.service.ts:103` | `:84` a range with a booking is not blocked | the check and the insert are two calls | no night is both booked and blocked |
| `00062_booking_date_exclusion_constraint.sql:30` | `:9-15` an expired booking is not among the statuses that occupy the calendar | the constraint excludes Cancelled only, so an expired hold keeps its nights | no `Expired` booking is among those `Excluded` compares with |
| `payment.service.ts:80` | `:25` refunded is money returned to the tenant | the provider's `released`, which pays the host, is stored as `refunded` | `payment.status = "refunded" => escrow # "released"` |
| `payment.service.ts:64` | `stellar.service.ts:134` timed_out can be revisited later | a success found later is quarantined: no edge from timed_out to confirmed | a confirmation of a timed-out payment is stored as one |
| `paymentCallback.service.ts:225` | `payment.service.ts:31` duplicates are replayed without effect | the check and the record are two calls, and only the last hash is compared | a recorded event is never written again |
| `paymentCallback.service.ts:312` | `payment.service.ts:209` a version conflict is retried once | an event that loses the race for the row is recorded as seen and never applied | a recorded `released` or `cancelled` leaves the payment where that event takes it |
| `payment.service.ts:66` | the comment there: only an administrator takes a payment out of quarantine | events and polls do | no step from `under_review` but an administrator's |
| `payment.controller.ts:282` | `stellar.service.ts:88` polling ends with the final status | the poller lives in memory: a crash, or a failed last update, leaves the payment submitted | `payment.status = "submitted" ~> payment.status # "submitted"` |
| `booking.service.ts:330` | `:309-313` the history records transitions that took place | the loser of a status race goes on to write its move | `\A a, b \in history : a[1] = b[1] => a = b` |
| `booking.service.ts:431` | `:387-389` a booking whose escrow was released in the gap is not silently expired | check, cancel and write are separate calls, and an unanswered check counts as unpaid | `status = "Expired" => escrow # "released"` |
| `booking.service.ts:2343` | `:526-528` of the sweep and the host's acceptance the first write wins | dates and answer are written whatever the proposal's status has become | a booking that takes new dates takes those of a proposal that is not expired |
| `privacy.service.ts:347`, `:447` | `privacy.controller.ts:124` you can cancel until then | a run that has started does not look at the row again; a cancellation that finds no pending row is reported as done | no step from `cancelled` to `completed` |
| `privacy.service.ts:147` | `:440` exports are cleared, for they hold a full copy of the personal data | a generation under way stores its payload afterwards | a completed deletion leaves no `export[x].payload` |
| `privacy.service.ts:384` | `:9-12` obligations are settled before the account goes | a booking opened after the check is stranded | `open => ` no run is past its check |
| `report.service.ts:364` | `:106-107` a listing stays hidden until every hide decision has been lifted | the look for other hides and the write that shows the listing are two calls, and a failed look counts as none | `hidden /\ ~hidden' => \A r \in Reports : ~report[r].hides`, of every step |
| `report.service.ts:92` | `property.service.ts:231` a cached hit is always safe to serve to anyone; `:515` a removal hides the listing immediately | no hide deletes the public copy, which lives up to 300 seconds; a removal does, but the deletion may fail, and a read under way stores its copy after it | `copy => PubliclyReadable` |
| `report.service.ts:527` | `:412` the host of a hidden listing can submit an appeal | a report whose appeal was approved once can hide the listing again, and then admits no appeal | `report[r].hides => report[r].appeal # "approved"` |
| `booking.service.ts:1303` | `refund.service.ts:32` a failed refund can be retried | a retry that falls into a worse tier orders the release of the escrow that the first attempt was refunding | a step of a cancellation that orders the release finds `refund = "none"` |
| `booking.service.ts:993` | `:992` the reservation is rolled back so that its slot is freed | the row is deleted by id, a booking the host has confirmed meanwhile included | `status = "Confirmed" => status' # "Absent"`, of every step |
| `booking.service.ts:852` | `:850` the terms are captured at the same point the price is confirmed | the two are separate reads of the listing | `booking[g].step = "booked" => booking[g].terms = booking[g].charged` |
| `property.service.ts:489` | `00064_property_versions.sql:3` every meaningful update creates a snapshot | of two edits that meet on one version number one is lost | the latest version has the terms of the row once no request is under way |
| `property.service.ts:1530` | `:1472` a draft meets the requirements before it goes live | a save may land between the check and the flip | the step that makes the row active finds `row.terms \in Complete` |

### Bounds, and why they are enough

Races here are between two actors and one row, so two request slots show every pairwise interleaving, and a slot is
free again when its request ends, so sequences of operations are unbounded. Two bookings of one property
overlap, touch or are apart, and the second can take the nights of the first once that is cancelled; three accounts are a host, a tenant
and an administrator or a second tenant; two tokens let the administrator repoint the contract while an escrow is open. Two nights, taken singly or together, give equal, disjoint and partly
overlapping stays. `MaxCrashes` is 0 in `booking_service` because a failing or unanswered call already ends a request at every
await; the proofs hold for any number. `MaxVersion` stops retries from counting for ever; four versions are a
submission, its outcome and a retry with its outcome. One failure reaches every error branch once, in any place.
`Webhooks` are the events the provider calls for and `HashedEvents` those with a transaction hash: `payment` has all but `disputed`, with the
hash of `funded`; the proofs hold for any choice. In `idempotency` the third booking lets a released key, a purged one and an unkeyed request
all book; two deletions are a cancelled or purged one and its successor; five writes of a listing are a save, the publication, two
edits that race for a version number and the slug; `NothingLapsed` keeps lapsed proposals out of
`calendar` (nobody takes them up, and a request that has does not look at the deadline again): `calendar_expiry` is about them; two reports are the fewest with an "other hide". `InitialBalance`, `PriceInputs` allow an account to be short of the price and the price to be
zero or overridden.

Symmetry is used in safety runs only, over sets whose members nothing tells apart. `booking_service` uses the view
`WithoutHistory`: no step reads the history and no property of that run mentions it. Deadlock is not checked: bookings and
payments do end.

### Fairness

- `BookingService!FairSpec`: a request does not stop between awaits (weak fairness of its steps); the scheduler
  starts the sweep again every ten minutes (`services/cleanup-schedular.ts`, which at this commit uses names it does not import: the schedule
  is the one it means to keep), so it is strongly fair; the sweep's update is strongly
  fair, that is, the database does not refuse it for ever. Nothing is assumed of users, provider or crashes.
- `BookingDates!FairSpec`: time passes, the sweep runs and works through its list, and the same update is not refused for ever.
- `PaymentService!FairSpec`: requests go on. `SubmittedEnds` is conditional on no call failing and no process dying, because the
  poller lives in memory only (above): what is checked is that the protocol itself, with its overlapping polls, retries and webhooks,
  leaves no payment behind.
- `IdempotentCreation!FairSpec`: requests go on unless they die, a day passes, the hourly cleanup runs.
- `AccountDeletion!FairSpec`: the hourly worker starts again whenever it rests, and a run goes on unless it fails or dies. Nothing is assumed
  of the user, whose bookings may stay open: `DeletionsEnd` is about users whose bookings are over.
- `ListingModeration!FairSpec`: the cached copy expires, and a public read ends. Nothing is assumed of moderators and owner.

## Proofs

All theorems hold for every value of the constants (any accounts, tokens, dates, requests, crashes, and so on), from the named
assumptions of the modules: the tokens are finitely many, `NoTx` is no transaction, stays are not empty, bounds are naturals, the operations are among the known
ones. Each proof has the same shape: an inductive invariant, `Init` establishes it, one lemma per action shows that the action keeps
it, and the theorems follow by temporal reasoning.

| Module | Theorems | Inductive invariant |
|---|---|---|
| `BookingContractProofs` | `TypesCorrect`, `NoOverlap`, `EscrowAgrees`, `OutcomesFinal`, `VaultIsExact`, `OneTokenSuffices`, `EscrowImplemented` | types, escrow against status, no overlap, and that the index of a property lists every booking of it: `check_availability` reads the index only, so without it nothing follows about bookings |
| `BookingServiceProofs` | `TypesCorrect`, `ClaimsBacked`, `OutcomeImplemented` | types, claims, what a request knows where it is (`Knows`: it writes down only payments it has seen, and these are final), and the order of `createBooking`'s steps (no escrow, no refund before it) |
| `BookingDatesProofs` | `TypesCorrect`, `NightsApart`, `CalendarImplemented`, `AnswersAreKept` | types and `NoDateOverlap`: the constraint is evaluated in the step that writes, so what a request read before does not matter; `expired` is written by the sweep only, onto a row that is pending as it writes; one answer may follow another |
| `PaymentServiceProofs` | `TypesCorrect`, `ConfirmedPaid`, `MovesAllowed`, `ConfirmedPriced` | types, and what a request carries: one that wants or read `confirmed` or `refunded` has seen a transaction succeed; a decision's `from` is the row's status as long as its version is; the price is compared in the write itself, so `ConfirmedPriced` needs no invariant |
| `IdempotentCreationProofs` | `TypesCorrect`, `KeyedOnce`, `HeldByOne` | types, `OneAnswer`, that a request which holds the key and has booked is the row's own, and that whatever was answered is the row's answer: the row carries the promise from one request to the next |
| `AccountDeletionProofs` | `TypesCorrect`, `CompletedWiped`, `ErasureImplemented` | types, and for every run that what it has wiped stays wiped, because the account closes with the first table; so a run that reaches the end has left nothing, whatever other runs did; and `WindowsOver`: the deletion a run works on has outlived its window and is not purged under it |
| `ListingModerationProofs` | `TypesCorrect`, `AppealsDecidedOnce` | types; the compare-and-sets do the rest |
| `ListingTermsProofs` | `TypesCorrect`, `HistoryIsNumbered`, `HistoryIsKept`, `SavesSeeWhatTheyReplace` | types; the numbers in use are `1 .. n` and one that waits to be inserted is at most `n + 1`; a stamp that still stands vouches for the terms it was loaded with |

`EscrowExact` and `EscrowsCovered` are about sums over tokens and bookings, which the code never forms. `VaultIsExact` follows
the vault step by step: the refinement to `EscrowAccounts` says which balance a step moves and by which price, and lemmas on sums
over finite sets say what that does to both totals. The library's induction over finite sets takes an operator as parameter, which
the provers cannot instantiate, so these lemmas argue by a minimal counterexample: strict inclusion is well founded on
the subsets of a finite set. `OneTokenSuffices` adds what the totals alone do not say: while there is one token,
that is, `set_token_address` never changes it, the vault holds the price of every open escrow. With two tokens TLC refutes it, the first line
of the table of disagreements.

Only model-checked: the liveness properties (`HoldsExpire`, `ProposalsEnd`, `SubmittedEnds`, `ClaimsEnd`, `DeletionsEnd`,
`HiddenLeavesPublic`), because they need fairness and ENABLED, which the provers installed here do not handle. Every other property
of a passing run is stated by a theorem.

## Not modelled

See `PROJECT.json` for each part's reason. In short: authentication and authorisation are taken as given; queries and
single-row edits have no protocol; notifications and the on-chain mirror are best effort; `services/sync.service.ts` holds two
merged versions of one class and cannot be read as one program, and `notification.service.ts` is in the same state. Some code is
never reached in this commit: `payment.controller.ts` does not import the circuit breaker's and the limiter's functions it calls;
nothing calls `ledgerSync.service.ts`, `reminder.service.ts`, `reviewSync`'s `recordOnChainSubmission` and `detectOrphanedReviews`, or the older `lookup` and
`store` of the idempotency service; nothing reads the time set for an email's next attempt. Two sets of migrations
(`apps/backend/database/migrations`, `database/migrations`) disagree on the booking statuses the database admits; the models follow the
backend's own.
