# Verification of Inn (lodge-ops)

Inn is a multi-tenant operations system for lodges: a Laravel API (`src/apps/api`)
with a Filament back office, queue workers and a minute scheduler, and a public
web site (`src/apps/web`) where guests book directly. This directory holds TLA+
models of the parts whose correctness depends on the order in which several
actors commit, the TLC runs that check them and the theorems TLAPS proves.

Paths below are relative to `src/apps/api/app`.

## 1. Inventory of the system

| Component | State it keeps | Operations | Interacts with |
|---|---|---|---|
| Direct-booking order (`Services/DirectBooking`) | `direct_booking_orders`: state, version, session/recovery/quote/hold clocks, current request; an event ledger with retry identities | quote, hold, checkout, payments/retry, manual evidence, recover; `transition()` by authority | reservations, payment requests, quotes, evidence |
| Reconcilers (`DirectBookingPaymentReconciler`, `DirectBookingManualReviewReconciler`) | none of their own | approved, needsReview, failed, refunded; prepareApproval, approved, rejected | called after a payment or a review committed; they lock the order, then the reservation |
| Scheduler (`Console/Commands/MaintainDirectBookingOrders`, `ExpirePaymentRequests`, `ExpireReservationHolds`) | the batch it read | expire orders, holds and requests; scrub contact data | every minute, `withoutOverlapping` each, in any order between them |
| Hosted checkout (`Services/Payments/CreateProviderCheckout`, `RevokeOrSupersede…`, `RotateOrResend…`) | `payment_requests`, `payment_attempts` | open a checkout in two commits around a remote call; supersede, revoke, expire | provider, folio, deposits |
| Provider payments (`ProcessProviderEvent`, `PaymentService`) | `provider_events`, `payments` | webhook, claim, look up, apply, record, record for review, replay | attempts, requests, deposits, folio, the order |
| Evidence review (`ReviewPaymentEvidence`) | `guest_payment_evidences` | submit, approve (three commits), reject (two) | payments, deposits, the order |
| Reservations (`ReservationService`, `CloseReservationWithPolicy`) | `reservations`: status, hold expiry, revision | hold, release, confirm, cancel, no-show, check in and out | allocations, deposits, promotions, outbox |
| Inventory (`AvailabilityService`, `AllocationWorkflowService`, `ReallocateResource`) | `allocations`, resource blocks | assertAvailable, create/update/release, reallocate | reservations |
| Folio, deposits, refunds (`FolioService`, `DepositService`, `RequestRefund`, `CompleteRefund`, `ExecuteProviderRefund`, `RecoverProviderRefund`) | folio lines, `deposits`, `provider_refunds` | post, close, reopen; request, execute remotely, recover, complete | payments, provider |
| Front desk (`RecordFrontDeskPayment`, cash shifts) | cash shifts and movements | tender, open, close, approve a variance | payments, deposits |
| Outbox and automation (`Services/Automation`) | `outbox`, automation executions | record, claim under a lease, publish, evaluate rules | every component records messages |
| Integration kernel (`Services/Integrations`) | sync runs, items, checkpoints | start, claim, heartbeat, pause, resume, retry | external systems |
| Command idempotency (`EnsureDirectBookingIdempotency`, `EnsureIdempotentCommand`, `FinancialCommandExecutor`) | stored responses by key | begin, complete, replay, expire | guest and staff commands |
| Quotes and pricing, promotions, documents, tasks, retail, disputes and settlements, CRM, portal, projections, tenancy, UI | see `PROJECT.json` | | |

What is hard here, and where a test hardly reaches:

* **Interleavings under different locks.** A guest command, two queue workers, the
  scheduler's three commands and staff all write rows of one booking. Each
  transaction locks its own rows; handlers that commit several times leave gaps.
* **Stale reads.** `direct-booking:maintain` reads a batch without locks and writes
  it back order by order; `checkout()` reads the order again after a remote call
  and extends a hold on what it read.
* **Ordering.** Payments are looked up by workers in any order, an attempt takes
  whatever status a worker fetched, a superseded checkout page can still be paid.
* **Crashes between commits.** A payment can be on the folio while the order knows
  nothing of it; evidence approval commits three times.
* **Late messages.** A payment of a hold that expired, of an order that was
  recovered, of one whose contact data was scrubbed.
* **Limits.** The extension of a hold is the least of three durations; deposits
  are taken once whatever channel pays first; one open request.

`PROJECT.json` lists each hazard at its line with the property that covers it, or
the planned module that will.

What makes each component correct: an order is confirmed only with money and over
a running hold; a deposit is taken once; money is never lost from Finance's view;
a hold ends; contact data that was scrubbed belongs to a closed order
(`DirectBooking`). Nobody arrives to a room given to two guests, and no night is sold beyond
what it has (`Inventory`). A notification is processed once and never stuck
(`ProviderEvents`). A refund reaches the folio only when the provider made it, and no
more goes back than was paid (`Refunds`). A message is published at least once, by one
publisher at a time; items of a run are applied once; a retried command has one effect
and one answer (not modelled yet).

| Module | Models | Composed with |
|---|---|---|
| `DirectBooking` | the order, its hold, checkouts, payments and evidence | |
| `Calendar` | what inventory promises, abstractly | implemented by `Inventory` |
| `Inventory` | `AvailabilityService` and every operation on allocations, blocks and the reservations that own them | `INSTANCE Calendar` |
| `Refunds` | refund requests, provider refunds, chargebacks and the folio of one payment | |
| `ProviderEvents` | the notification store, its jobs, workers, operators | what processing does is in `DirectBooking` and `Refunds` |
| `DirectBookingProofs`, `DirectBookingTablesProofs`, `DirectBookingMoneyProofs` | theorems about the order, about the rows it hangs on, about the money | each extends the one before |
| `InventoryProofs`, `RefundsProofs`, `ProviderEventsProofs` | theorems | extend their modules |
| `SumProofs` | lemmas about sums over finite sets | extended by the proofs of `Inventory` and `Refunds` |
| `MCDirectBooking`, `MCInventory`, `MCRefunds`, `MCProviderEvents` | small instances and symmetry | |

## 2. `DirectBooking`

One order, its reservations, requests, attempts, payments, evidence, the workers,
the scheduler and staff, one action per database transaction or remote answer.

| Variables | Rows or processes |
|---|---|
| `order` | the `direct_booking_orders` row |
| `quotes`, `res` | quotes made for it; reservations, each named by its quote, with the status of its deposit and of a front-desk tender |
| `req`, `att`, `calls`, `owed` | `payment_requests`; `payment_attempts`; remote `createHostedCheckout` calls in flight; checkouts whose extension step is still to do |
| `pay` | payments at the provider, with what Inn booked of each and how often its job was tried |
| `ev` | `guest_payment_evidences` and the commit their review has reached |
| `wk` | a queue worker: its step in `ProcessProviderEvent`, the payment, the status it fetched |
| `sweep` | the version of the order the maintenance batch read |
| `used`, `tasks` | retry identities already in the ledger; finance tasks |

How handlers become actions:

* **Guest.** `Quote`, `Hold` (commit of the quote, shortened hold, `provisionHeld`
  and the transition are one transaction), `IssueHeld` / `IssueReplacement`
  (`IssueDirectBookingPaymentRequest::handle`), `CheckoutManual`, `RetryManual`,
  `SubmitEvidence`, `Recover`. The transition table is `Transitions`; `MayMove` is
  the part of `transition()` that accepts and `Moved` what it writes.
* **Checkout.** `OpenCheckout` (first commit), `CheckoutReady` / `CheckoutFailed`
  (the provider's answer overwrites the attempt), `ExtendCheckout` /
  `LeaveCheckout` (what `checkout()` does afterwards).
* **Worker.** `Fetch`, `Apply`, `Record`, `BookReview`, `Mark`, `Approve`, `Fail`,
  one per commit of `ProcessProviderEvent`, and `WorkerFails`, possible at every one
  of them; the job is tried `JobTries` times.
* **Review.** `PrepareApproval`, `BookEvidence`, `ConfirmEvidence`; `RejectEvidence`,
  `ApplyRejection`; `ReviewStops` between any two. `approve()` may be called on any evidence:
  rejected evidence throws after the order was moved, approved evidence books nothing and is
  confirmed again. One review of an upload is open at a time; a second reviewer's call is the
  same steps later.
* **Scheduler.** `SweepSelect` reads, `SweepExpire` writes under the version check,
  `ExpireHold`, `ExpireRequest`, `Scrub`.
* **Staff.** rehold, release, confirm, cancel, tender, resend, revoke, refund
  (`Refund`, and `NotifyRefund` that tells the order).

### Abstractions

* Transactions are atomic: MySQL/PostgreSQL row locks and `DB::transaction(…, 3)`.
  A deadlock abort is a failure of the caller, which is always possible.
* One order. Orders share only inventory; whether `confirm()` or a staff move finds
  inventory is a choice here (`Approve` has both outcomes).
* Instants are naturals, one unit a minute, 0 a NULL timestamp.
* Money is counted in deposits: `DepositsInTotal` of them fit the balance.
* `Apply` reads and updates the attempt in one step, and `ExtendCheckout` reads the
  order (`fresh()`) and moves it in one: a version change between the two makes the
  code throw, which is `LeaveCheckout`.
* A request for more information about evidence leaves it pending. Check-in,
  check-out and no-show are not here: they do not touch an order.
* A command with a stale `expected_state_version` changes nothing and is not an
  action. Replays of a stored response are for `CommandIdempotency`.
* The notification store (leases, duplicates) is reduced to: any idle worker may
  look a payment up, at most `JobTries` times.

## 3. `Inventory` and `Calendar`

One property, its resources, categories and blocks; one action per transaction.
`assertAvailable()` locks the property's row until its transaction commits
(`AvailabilityService:17`), so checks are serial, and the transactions that change
rows without a check are where the interleaving is.

| Variables | Rows |
|---|---|
| `res` | `reservations`: status, whether a hold's `hold_expires_at` has passed, the stay |
| `alloc` | `allocations`: status, reservation, category, resource, interval, quantity |
| `blocks` | `resource_blocks` |

`Reserves` is `activeAllocationScope()`, `ResourceFree` and `CategoryFree` the two branches of
`assertAvailable()`; they take the tables as parameters, because a swap checks one row
over the tables with the other already moved. Actions: `CommitQuote`, `PlaceHold`,
`BackToDraft`, `Confirm`, `CheckIn`, `CheckOut`, `Close`, `ExpireHold` (`ReservationService`),
`Create`, `Update`, `Release` (`AllocationWorkflowService`), `Reallocate`, `Swap`
(`ReallocateResource`), `Amend`, and the blocks. `Lapse` is the clock: a hold's time may be
over at any moment.

`Calendar` is the abstract specification: a set of entries (place, interval, whether the
guest is in the house), of which any may be given back and only fitting ones may be
added, unless the guest is in the house. `Inventory` implements it (`KeepsCalendar`) under
the mapping `book <- {Entry(a) : OnCalendar(a)}`: the rows with a place that others
must respect.

Left out: service occurrences, programs' own requirements, the catalog's edits, prices.

## 4. `Refunds`

One provider payment of a folio, in one currency.

| Variables | Rows |
|---|---|
| `stay`, `folio` | what the folio charges beside the payment, `folio_status` |
| `req` | `refund_requested` changes and whether a `refund_completed` follows, with its reference |
| `exe` | `provider_refunds`: state and recorded identity |
| `disp` | `provider_disputes` with their folio line |
| `refunded` | the payment's status |
| `remote`, `claims`, `news` | the provider's refunds, chargebacks and notifications, seen through calls only |
| `wk` | callers of execute and recover (the schedule among them), queue workers |

`ExecuteProviderRefund::handle` is `Execute` (its transaction), `MarkProcessing` (an update
under no lock), `Call` (the answer may be lost) and `TakeAnswer` (an update under no lock).
`RecoverProviderRefund::handle` is `Claim`, `FetchRefund`, `FinishRecovery`. Eloquent
writes only the columns that differ from the row as that worker read it; both unguarded
updates are modelled so. `CompleteRefund` is `Complete`, by hand or inside
`FinishRecovery`, where it commits with the row's success. `RecordProviderDispute` is
`FetchDispute` and `RecordDispute` (`Impact` is `applyImpact()`). `Crash` is possible between
any two steps.

Left out: refunds of tenders taken by hand, corrections of front-desk payments,
`CompleteRefund::fail()` (it appends a record and leaves the request open), reversal of lines that are not
chargebacks, taxes, conversion.

## 5. `ProviderEvents`

| Variables | Rows or processes |
|---|---|
| `row` | `provider_events`: processing state, age of `updated_at` |
| `job` | the event's job in the queue: ready or reserved, its age and the time since it was reserved |
| `wk` | web requests, queue workers, operators: the step, the event, its age, the outcome |
| `stopped`, `replayed` | history: whether the event's last request or command stopped half-way, whether an operator ever put it back |

`Receive` and `Dispatch` are the webhook's two commits. `Take`, `GiveUp`, `Release`, `Delete` are
the queue's side of `ProcessProviderEventJob` (`retryUntil`, `failed`, a throw, a return); `Claim`,
`Process`, `Record` are the three parts of `ProcessProviderEvent::handle`, which an operator's
`Replay` / `PutBack` and `Reconcile` run as well, outside the queue. `Tick` is a second; `Stop` kills
any process at any step. Ages are counted up to the limit they are compared with. `GiveUp` is one
step although Laravel's `Job::fail` deletes the job before it calls `failed()`: a worker that dies between
the two leaves the event unfinished without a job, and `NothingForgotten` says nothing of that moment.

The constants' order is an assumption, `TimesAssumption`: a worker's timeout (30 s) is
less than the lease (90 s), and lease plus timeout are at most `retry_after`, as
`compose.yml:25` sets it (240 s). See section 8 for the default.

Left out: rows marked `Duplicate`, which nothing reads again; the job's back-off (a released job may
be taken at any time, which includes every back-off).

## 6. Runs

Each configuration opens one part of the system and keeps the rest small; together they
fire every action. Every bound is a constant whose name begins with `Max`, or a size of a set.

| Run | Configuration | Checks | Shows |
|---|---|---|---|
| `hosted` | two workers (symmetric), two payments, matching or not, a total of one deposit | `TypeOK`, `MoneyOnCurrentRequest`, `MoneyIsAccountedFor` | races of duplicate, mismatched and over-paying money with retries of the checkout |
| `recovery` | three statuses, two tries, two quotes, scrub, a stale batch, no evidence | `SingleOpenRequest`, `ScrubbedIsClosed`, `MoneyIsAccountedFor`, `ExpiredOnlyWhenDue` | expiry, recovery, a second hold, late money, crashed jobs |
| `staff` | all staff moves, bank transfer with evidence, and hosted | `ConfirmedIsPaid`, `DepositTakenOnce`, `ConfirmsOnlyLiveHolds`, `ExpiredOnlyWhenDue` | three channels pay one deposit while staff move the reservation; evidence is escalated only when the hold is over |
| `progress` | `FairSpec`, longer time, an extension that fits | `HoldWithinPolicy`, `ExpiriesAgree`, `HoldsEnd`, `ApprovedIsBooked` | the extension stays in policy; holds end and approved money is booked |
| `inventory` | two reservations, three rows, two rooms, a buyout, a pool, a block | `TypeOK`, `StatusesAgree`, `ArrivalsFit`, `KeepsCalendar`, `SalesFit` | inventory implements the calendar; nothing is sold of a category that a day does not have, or beside a buyout |
| `refunds` | two requests, two people and the schedule, two identities at the provider and a mistyped one | `PostedRefundsWereReturned`, `RequestsFitPayment` | crossing executions and recoveries post only what the provider returned, and promise no more than was paid |
| `refund_recovery` | `FairSpec`, one request, the schedule, a chargeback | `TypeOK`, `SucceededIsPosted`, `ChargebacksFit`, `StuckRefundsSettle` | a stuck refund is settled by the schedule; success and folio line go together though a chargeback closes the way |
| `events` | `FairSpec`, one event, two workers, two operators, one request; times 1, 2, 3, 5 | `TypeOK`, `NothingForgotten`, `ProcessedStays`, `QueuedEventsSettle` | leases, redelivered jobs, replays and crashes neither strand nor undo an event |
| `late_payment_after_recovery` | violation | `LatePaymentsAreBooked` | finding 1 |
| `finance_review_ends` | violation, under `FairSpec` | `FinanceReviewEnds` | finding 2 |
| `in_house_overlap` | violation | `ExclusivePlacesDoNotOverlap` | finding 3 |
| `returned_too_much` | violation | `ReturnedWithinPayment` | finding 4 |

What a run does not reach: in `progress` the initial hold and its extension together stay below the maximum, so
that a repeated extension would show; that the maximum bounds the hold where it is the least term is the theorem
`HoldKeptWithinPolicy`. `refunds` has no chargebacks and `refund_recovery` one request; chargebacks beside any
number of requests are the theorems `RequestsNeverExceedPayment` and `ChargebacksTakeWhatIsLeft`.

Why the bounds are enough. Direct booking: two workers and two payments are what it
takes for one commit to come between two of another's; two requests for one to supersede the
other; two quotes for a recovered order to have a second reservation; two tries for
a job to be repeated; the time bound lets a hold begin, be extended and expire, and
the retention end. Inventory: a clash is between two rows, a swap needs two reservations
with a row each, and the third row lets a stranger arrive meanwhile; of intervals
only whether they overlap matters to one check, and one night is what the run can afford; sums over stays that
overlap in part are the theorem `SalesAlwaysFit`, which is for any stays. Refunds: two people
and two identities are what a late answer needs to overwrite what another recorded; the
chargeback comes with one request, since it looks only at their sum. Events: events share
nothing, two workers let a job's second run meet its first, two
operators let a replay cross a replay; the times are the smallest that meet the assumption
strictly in the order of the code's, and the deadline leaves room for a second reservation of
the job. What the last three leave open the proofs of section 9 close.

Where symmetry is used (`hosted`, `inventory`, `refunds`) no liveness is checked.
`CHECK_DEADLOCK FALSE` is only in the direct-booking runs, which end at `MaxTime` with everything processed.

## 7. Fairness

`DirectBooking!FairSpec`: the clock advances and the scheduler runs (`everyMinute` in
`routes/console.php`): weak fairness of `Tick`, `SweepSelect`, `SweepExpire`; a queue
worker that holds a job takes its next step and an idle one takes a job whose tries
are not used up (`WorkerFairness`; a crash is never fair, it may happen at any
step and uses up a try); a review that was begun goes on (`ReviewFairness`, its
commits are one HTTP request). Nothing is assumed of guests, the provider or of
other staff moves: staff need never approve evidence, once or again.

`Refunds!FairSpec`: the schedule's command runs every ten minutes, oldest attempt first, so it
picks up each stuck row again and again if it is stuck again and again (strong fairness of
`ScheduleRecovery(r)`: while the command is busy with one row it cannot begin another); a step
of a call is taken (every remote call has a timeout).

`ProviderEvents!FairSpec`: seconds pass; the queue is first in first out, so an available job is not
passed over for ever though other jobs occupy the workers in between (strong fairness of `Take` or `GiveUp`
of each event); a process takes its next step unless it is stopped. Operators need never act.

## 8. Findings and observations

Findings, each with a run that shows it:

1. **A late payment of an earlier hold is not booked.**
   `docs/direct-booking-contract.md:75` promises `paid_needs_review`. After `recover()` and a new
   hold the order has another reservation, and a payment for the first finds no
   order: it ends `mismatched`, on no folio and without a task.
2. **Finance review has no way out after the hold lapsed**
   (`docs/direct-booking-contract.md:85`), though its transfer is booked. The edges to `refunded` and from
   `paid_needs_review` to `confirmed` have no caller, and `approve()` called again finds the same lapsed hold
   (`ReviewPaymentEvidence:42-44, 93`). After a crash behind the second commit such a call does confirm the
   order while the hold runs; the panel does not offer it for approved evidence.
3. **The room of a guest in the house is sold again.** `docs/architecture.md:51` promises that
   exclusive resources cannot overlap active allocations. Editing the allocation of a checked-in
   reservation (`AllocationWorkflowService:78`) makes it tentative, and a tentative row
   without a hold reserves nothing.
4. **More goes back than was paid.** Two workers record a chargeback's facts in the wrong
   order (`RecordProviderDispute:115`): the dispute is under review again while its line
   stands, and `CompleteRefund:47` counts only lost and applied disputes.

Observations the models contain and no run is spent on:

* `refunded()` moves a confirmed order to `refunded` for any refunded payment of the
  reservation, also the duplicate that `docs/direct-booking-contract.md:76` wants returned (`NotifyRefund`).
* A payment recorded for review and processed again while its request is open marks the
  request paid and leaves the deposit due (`PaymentService:53-69`).
* `docs/p3-06-…:97` wants a refund executed or recovered before it is posted. A request for a
  provider payment may be completed by hand (`CompleteByHand`, `ReservationChangeController:103`), and
  executing it afterwards still sends the money. `PostedRefundsWereReturned` is
  therefore about completions that name a provider refund.
* A late answer overwrites the identity a recovery recorded and completed with meanwhile
  (`ExecuteProviderRefund:107-111`): the succeeded row then names another refund than its completion,
  and the first identity is free for another request. Two completions may so name one
  provider refund; each is still of an approved refund of its amount.
* A mistyped identity is recorded before it is looked up (`RecoverProviderRefund:45`) and can
  never be corrected; this is why `StuckRefundsSettle` is about identities the provider knows.
* With the default `retry_after` of 90 s (`config/queue.php:43`, and `.env.example` uses the
  database queue) `TimesAssumption` does not hold: the job of a worker that stopped comes
  back while its claim, made at least a second after the job was taken, is still
  leased, returns normally and is deleted; the event stays `processing` for ever, since a replay refuses
  it and no schedule looks for stale leases (`docs/client-ready-phase-3-plan.md:33` names one). `compose.yml:25` sets 240 s.
* A request that stops between the row's commit and the dispatch strands the event: the
  provider's redelivery only makes a `Duplicate` row, and a replay refuses `received`. So does an
  operator's command that stops half-way. `NothingForgotten` names exactly these (`stopped`).
* `Record` looks at nothing: after a replay that crossed the job a worker's older
  `mismatched` overwrites `processed`. `ProcessedStays` exempts every event an operator ever replayed
  (`replayed`), whether or not the replay crossed the job.
* At the very instant a request expires it can still be paid (`CreateProviderCheckout:38`, `isPast` is strict),
  while the sweep already expires the order (`<=`). A guest who recovers, asks for a quote and holds again within
  that instant has a second payable request, against "only one active app-owned payment request/checkout may
  compete" (`docs/direct-booking-contract.md:76`). `SingleOpenRequest` names exactly this: two such requests are of
  different reservations and one is at its last instant. Of one reservation there are never two.
* Capacity is counted in rows, not nights (`AvailabilityService:210`): all rows that overlap the asked stay are
  added up, also those that do not overlap each other. This never oversells (`SalesFit`, proved for any stays), but
  it refuses what fits, and with it a hold of two nights can become impossible to confirm: of two rooms a hold has
  "any room" for nights 1 and 2, then one guest takes night 1 and another night 2. Both checks see two of two; the
  hold's own check at `confirm()` sees three.
* A row added for a guest in the house and an update whose request clears the category are not checked against the
  category's capacity (`AllocationWorkflowService:86`, the category is put back when the row is saved), so either can
  sell more than there is, against `docs/architecture.md:52`. `SalesFit` names exactly these two (`UncheckedSale`).
* `tries = 5` of the job is superseded by `retryUntil()`.

## 9. Proofs

### `DirectBookingProofs`

For every value of the constants that satisfies the three assumptions of
`DirectBooking` (durations and bounds are naturals, an initial hold is not empty and fits
the maximum):

* `TypeCorrect`: `Spec => []TypeOK`. `TypeOK` is inductive. One lemma per helper
  says which type it returns, one per part of `Next` has a step per action.
* `ScrubbedStaysClosed`: `Spec => []ScrubbedIsClosed`. Every write to the order goes
  through `MayMove`, except the scrub, which asks for a closed state; `MayMove` keeps
  the state of a scrubbed order.
* `NeverExpiredEarly`: `Spec => ExpiredOnlyWhenDue`. Only the sweep expires an order
  or escalates evidence nobody reviews, and from a row read earlier. The strengthening is `SweepInv`: the version
  the batch holds is at most the row's, and when they are equal the row was due then and
  still is (time only grows), and was marked late exactly if its
  evidence is under review. It needs that every write moves the version, the lemma `Write`.
* `ConfirmedOverLiveHold`: `Spec => ConfirmsOnlyLiveHolds`. Only `Approve` and
  `ConfirmEvidence` write `confirmed`, each after comparing the hold under the lock.

### `DirectBookingTablesProofs`

* `RowsLinked`: `Spec => []Linked`. Every row refers to rows that were made: a request
  to the reservation it was issued for, an attempt to its request and that request's reservation, a payment to its attempt,
  approved evidence to its booked transfer, the order to its current request, which is of its reservation and expires with its hold, a worker to its payment. This holds
  over retries, supersessions, recovery and late answers; the money theorems follow these
  links from a payment to the order and back.

### `DirectBookingMoneyProofs`

What the runs count on two payments and two requests, for any number of either, of workers and of staff moves:
`HoldKeptWithinPolicy`, `ExpiriesMoveTogether`, `OneOpenRequest`, `DepositHasOnePayer`,
`MoneyStaysOnCurrentRequest`, `ConfirmedOrdersArePaid` and `MoneyKeptAccountedFor`, each
`Spec => []` the property of its run. They rest on `MoneyInvariant`, whose parts need each other:

* `HoldColumns` bounds the hold by the policy whatever state the order is in, because `ExtendCheckout` writes from a
  state read long before; `HoldWithinPolicy` follows.
* `OneRequest`: a request the order let go of is paid, closed or at its end, and a reservation has one payable
  request at most. The first is why this needs `SweepInv` of the first module: the order lets go of a request when
  it expires, and only because no sweep expires it early has the request's own time run out too.
* `Paid` and `Working`: a paid request names a payment or transfer of its own that is booked; a worker about to mark a payment
  has it booked, and one about to tell the order has it as the request's payer, whatever a second worker did meanwhile.
* `OneTaker`: whoever took the deposit (a payment, a transfer, a tender) is the only one, with the deposit's status as witness.

### `InventoryProofs`

For any reservations, rows, resources, categories, buyouts and stays that meet `CatalogAssumption`, `SeparateAssumption`
(what `Resource::saving` refuses), `OfferAssumption` and `FiniteAssumption`:

* `TypeCorrect`, `StatusesFollow`, `ArrivalsNeverCollide`: `Spec => []` of `TypeOK`, `StatusesAgree`, `ArrivalsFit`.
* `Implementation`: `Spec => KeepsCalendar`, the refinement of `Calendar`, step by step.
* `SalesAlwaysFit`: `Spec => SalesFit`.

The invariant is `IInv`: the three above and `Owned` (a row in use has a reservation that exists, so that a new one has
no rows). One lemma per action shows `Keeps`, whose part `Lands` says of each row that stands on the calendar after the
step that it stood there before, is of a guest in the house, or is alone: the lemma `Checked` gets this from
`ResourceFree`. For a swap the first row was checked without the second; that they do not clash comes from the
second's check, which is symmetric. `LandsRebooks` turns `Lands` into a step of `Calendar`.

`SalesFit` needs one more invariant, `Categorized` (a row with a resource is of its category), and the lemma
`CheckFits`: what a check counted includes every row sold on a night of the checked stay, a subset sums to no
more, and blocks of a night are blocks of the stay. Each action supplies a checked row for every sale: a
draft's rows are checked before any of them sells, and a swap's second check speaks for both rows.

### `ProviderEventsProofs`

For any sets of events, requests, workers and operators that are apart, and any times that
meet `TimesAssumption`:

* `TypeCorrect`: `Spec => []TypeOK`.
* `NoEventForgotten`: `Spec => []NothingForgotten`.
* `ProcessedEventsStay`: `Spec => ProcessedStays`.

All three follow from one inductive invariant, `IInv`, because none is inductive alone. `Kinds` says which steps each kind
of process takes. `Exclusive`: a queue worker holds its job alone, and the job has been reserved
exactly as long as the worker has had it; since `Tick` lets no worker pass its timeout and
`retry_after` is longer, the job is not given to a second worker meanwhile. `Fresh`: nothing knows an event before its row,
and only its request before its job. `Covered` strengthens `NothingForgotten`: it says who will finish
the event, and for one in `processing` whose job is reserved that the lease is over or the job has
been held at most a timeout longer than the lease has run. When the queue gives the job again it has been held
`RetryAfter >= Lease + Timeout`, so the lease is over and the next claim succeeds. `Single`: until a replay,
one process at a time handles an event, and the row is `processing` while it does. `Record` therefore overwrites
`processed` only after a replay.

### `RefundsProofs`

For any requests, disputes, callers, identities and amounts:

* `NothingPostedUnreturned`: `Spec => []PostedRefundsWereReturned`.
* `SuccessHasItsLine`: `Spec => []SucceededIsPosted`.
* `TypeCorrect`: `Spec => []TypeOK`.
* `RequestsNeverExceedPayment`: `Spec => []RequestsFitPayment`.
* `ChargebacksTakeWhatIsLeft`: `Spec => ChargebacksFit`.

The invariant of the first two adds what a worker knows at each of its steps (`Aware`: once it fetched a matching
refund, that refund is approved and of the request's amount, and stays so), and that a
request executed or completed has its amount (`Begun`), so that `Request` cannot change it under a worker. Every action is an instance of one of four
lemmas: a worker moves, a worker calls, the provider moves, a request changes.

The money is about sums, and `MoneyInv` adds `RequestsFitPayment` itself and `Notified` (a queue worker with facts has
them of a dispute). `Request` asks for at most what is left of the payment, which its check computes from the same sums; a completion
moves an amount from one sum to the other (`RequestTotals`, `TotalChanges`); a chargeback adds what is left or nothing. That an amount is at most what
was paid, which `TypeOK` says, is a consequence.

### `SumProofs`

`Total(f, S)` is `MapThenSumSet` of the community modules. The library's induction theorems cannot be used here, since they
take an operator as a parameter; the lemmas use instead that proper inclusion of finite sets is well founded
(`WFMin`, first order): of the subsets for which a fact fails one would be least (`LeastSubset`). First that the recursion by which the
fold is defined has a solution (`SumsAgree`, `SumsExist`, `TotalSplits`); then that the sum does not depend on the
order in which elements are taken (`TotalTakes`); then what the models need: monotonicity, parts, one changed value.

### Only model-checked

Liveness (`HoldsEnd`, `ApprovedIsBooked`, `StuckRefundsSettle`, `QueuedEventsSettle`), since fairness and
`ENABLED` are out of the prover's reach. Every invariant and every action property of a passing run is also a theorem.
The violated properties of section 8 are shown by their runs' counterexamples.

## 10. Plan

Modelled so far, in this order: the direct-booking core, inventory with its calendar, refunds and
chargebacks, the event store. Next: `Outbox` (claims, leases, publication; an at-least-once log as its abstract
specification), `IntegrationRuns` (runs and items under leases, pause and resume), `CommandIdempotency` (an
exactly-once register); then cash shifts, promotion limits, document jobs, tasks and stock. After them an abstract order (what a guest is
promised: waiting, booked, in Finance's hands, gone) that `DirectBooking` implements.

Theorems next: the safety half of the liveness properties (which step may still be taken from a state that is not
done: an open hold has a time at which the sweep's guard holds, an approved payment a worker whose next step is
open), an abstract order with its refinement, and that leases exclude two owners in `Outbox`.

## 11. Not modelled

Rendering, PDF and report output, projections and KPIs (read-only), tenancy and access
rules (the models are of one tenant), exchange-rate and price arithmetic, and the
components marked `not_modelled` in `PROJECT.json`, each with its reason.

None of the repository's JavaScript or TypeScript is modelled. The files under
`src/apps/api/public/js/filament` are the minified bundles Filament publishes, third-party code; `src/apps/web/src/app`
holds static pages with no state, and the rest is build configuration. The system's own logic, which the
modules model, is the PHP of `src/apps/api/app`.
