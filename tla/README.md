# E-Foods (FEASTY): verification project

TLA+ models of the server side of the FEASTY food-delivery platform, the TLC
runs that check them on small instances, and TLAPS proofs of the results that
matter most for every size of the system. `PROJECT.json` maps every
definition to the source lines it stands for and lists runs, mutants,
findings, hazards and theorems. Paths below are relative to the repository;
`_shared/` is `supabase/functions/_shared/`.

## 1. The system

FEASTY is a set of Supabase Edge Functions in TypeScript over one Postgres
database, with Expo apps for customers, restaurants (partners), riders and
administrators, and two Cloudflare workers in front. There is no long-lived
server process: every request is an invocation that reads rows, decides, and
writes rows, and a `pg_cron` tick posts a drainer function every minute.
Nothing is held across calls except database rows, so all the difficulty is
in what happens **between a read and the write that was decided on it**.

| Component | State it keeps | Operations | Who else touches that state |
|---|---|---|---|
| Order lifecycle (`_shared/orders.ts`, `_shared/domains/{orders,partner,dispatch}.ts`) | the `CustomerOrder` row: status, the JSON columns `payment` and `timeline`, attention flag | partner and dispatch transitions, customer cancel, lazy expiry of unpaid orders, escalate and resolve | payment verification, both order sweeps |
| Payment verification and webhook (`payment-verification/`, `paystack-webhook/`) | the payment column, `PaymentTransaction`, idempotency records | verify a charge, advance the order, record late money | checkout, status refresh, sweeps |
| Payment screens (`_shared/domains/orders.ts`, `_shared/paystack.ts`) | the payment column | initialize, fail, refresh | the webhook |
| Acceptance deadline (`_shared/acceptanceDeadlineSweep.ts` and its SQL) | status, attention, refund on record | flag, cancel and refund under a row lock | the restaurant |
| Scheduled release (`_shared/scheduledOrderReleaseSweep.ts`) | status, `timeline.placedAt` | release by compare-and-swap | the webhook, the deadline sweep |
| Work queue and drainer (`_shared/queue.ts`, `queue-drainer/`) | `queue_*` rows: status, retry count, `available_at`, `updated_at` | enqueue, claim, reclaim, retry, dead-letter | overlapping drainers |
| Customer confirmation (`_shared/customerConfirmation*.ts`, `_shared/domains/orders.ts`) | due time, confirmation, report, reminder counter | confirm, report, remind, auto-close | overlapping sweeps, double taps |
| Dispatch offers, selection and rider load (`_shared/dispatch*.ts`) | offers with a TTL, assignments, load counters | offer, accept, decline, expire, re-offer | riders, sweeps, dispatchers |
| Rider payouts (`_shared/riderPayouts.ts`, `paystack-webhook/transfers.ts`, `20261020_rider_payouts.sql`) | earnings, payouts, the lease of a run, bank account holds | plan, create, send, look up, re-send, settle | overlapping runs, the transfer webhook, Paystack |
| Checkout and promo codes (`_shared/domains/orders.ts`, `_shared/orders.ts`, `20260821_promo_codes.sql`) | redemptions against two caps, the new order, the idempotency record | look up a key, redeem, insert, open a payment, record, undo | double taps, other checkouts, cancellations |
| Auth gateway, staff invites, rate limits | one-time codes, attempts, invites | issue, resend, verify, redeem | retries and second devices |
| Order placement and pricing | one request's inputs | validate, price | none |
| Notifications, broadcasts, heartbeat, alerts, observability | best-effort calls, per-instance counters | push, watch, shed load | the drainer |
| Client packages (`packages/auth`, `packages/runtime`) | session lock, realtime channel, poller | lock, refetch, poll | tabs and devices |
| Apps, edge cache, scripts, flags, settings, RPC registry | no protocol of their own | | |

Interaction in one paragraph: a checkout creates an order and a gateway
transaction; the gateway's webhook verifies the charge and writes the order's
payment; the apps' reads settle unpaid orders lazily; restaurant and dispatch
move the status; the minute drainer first runs the sweeps (acceptance
deadline, scheduled release, customer confirmation, offers, rider pings) and
then works the queues; every transition may enqueue notifications.

What makes it hard, and where:

* **Stale snapshots.** A handler writes whole JSON columns from the row it
  read. Some writes carry the observed status (`updateOrderRecordIfStatus`),
  some re-check it under a row lock (the RPCs), some have no condition at all
  (`updateOrderRecord`). Their mix is what `OrderLifecycle` is about.
* **At-least-once delivery.** Webhooks and queue jobs are delivered again.
* **Death between two writes.** An invocation can be killed at any await.
* **Overlapping sweeps.** A slow minute overlaps with the next.
* **Time.** Deadlines are measured from fields other handlers can rewrite.

Properties that make each component correct: *orders*: no unpaid food, no
invented payment, captured money accounted for, ends are final, a paid order is
answered, the deadline is fair to the restaurant; *queue*: no job in two hands,
bounded runs, true alerts, every job ends; *confirmation*: one reminder per
stage, one confirmation, no auto-close over a report, everyone is told once,
every order settles; *offers*: one rider per order, load ledger equal to live
assignments, the offers a book of one question at a time; *payouts*: an earning
is paid by one transfer at a time and never forgotten, the books agree with the
bank, the caps of a day hold; *checkout*: the caps of a code hold, a discount
the customer gets is redeemed, a slot nobody uses comes back, a retry of an
answered checkout places nothing; *one-time codes*: attempts bounded.

`PROJECT.json` `hazards` lists each of these dangers at the line where it
bites, with the properties that would catch it.

## 2. Modules

### OrderLifecycle, MCOrderLifecycle, OrderLifecycle_proofs, OrderGuarded_proofs

One `CustomerOrder` row and every handler that writes it. A request is a
*worker*: `job[w]` holds the operation, the step it has reached, the snapshot
it read and the gateway's answer. Each database access is one step, so
all interleavings at the grain of the database are behaviours.

| Model | Code |
|---|---|
| `order` | the columns; `captured` is "the payment carries a paid-at stamp", `placedAt` and `escFrom` are `timeline.placedAt` and `timeline.escalatedFrom` |
| `LoadBundle`, `ExpireUnpaid` | `loadOrderBundle` and the `maybeExpireUnpaidOrder` it runs on the way |
| `PartnerCommit`, `DispatchCommit` | `partnerUpdateOrderStatus`, `dispatchUpdateOrderStatus`: `PartnerFrom`, `DispatchFrom`, `Target`, `StageKept` are their tables, `Unmoved` the compare-and-swap |
| `CancelOrder` | `cancelCustomerOrder`: guard on the snapshot, write by id |
| `VerifyForRefresh`, `SyncPayment` | `refreshPaystackPaymentForOrder`, `syncOrderPaymentState` |
| `CheckoutInitialized`, `CheckoutAnswered`, `CheckoutFailed` | `initializeCustomerPayment`: the transaction is opened and the payment column written; the answer goes out; or its catch block cancels the order, before the transaction is open or after |
| `WebhookArrives` .. `WebhookLate` | `handlePaymentVerification`, `markOrderPaymentState`: already-paid shortcut, compare-and-set advance, reload, unconditional advance, late payment |
| `WebhookRecord` | `storeIdempotencyRecord` at the end of the handler, a step of its own: the ledger, the risk signals and the notices lie between it and the order write, and a delivery that dies there (`Abort`) is delivered again to a row that may have been cancelled and refunded since |
| `AcceptanceSweepReads`, `FlagUnaccepted`, `TimeOutUnaccepted` | `sweepUnacceptedOrders` and its two row-locked RPCs |
| `PageShifts` | the sweep reads the 100 oldest `placed` rows, paid or not (`ACCEPTANCE_SWEEP_LIMIT`): other orders may fill that page (`crowded`) or leave it at any moment |
| `ReleaseSweepReads`, `ReleaseScheduled` | `sweepScheduledOrderReleases` |
| `AssignCourier` | any path by which dispatch assigns a rider |
| `CustomerPays`, `GatewayReverses` | the gateway, external |
| `Abort` | the invocation dies or a call fails |

Data abstractions: amounts, lines, texts and addresses are left out; the
acceptance deadline is the unit of time (an unanswered order is flagged at one
deadline and cancelled at two) and `PayWindow` is the unpaid window in the same
unit. `Tick` saturates at `MaxAge`. The promo slot of an order is left to
`Checkout.tla`: every path that cancels gives it back in a later, best-effort
call. The record of an earlier delivery and the row are read in two calls of
the handler; they are one step of `WebhookArrives`, which matters only to
deliveries that overlap. The release sweep's page limit is left out: no
property says that a release happens. `markPaymentVerificationFailed` is left
out because nothing reaches it: the webhook calls the handler directly and
nothing fills `queue_payment_verification`, whose drainer is its only caller.
`MCOrderLifecycle` only names the assignments of operations to workers.

### WorkQueue, JobLedger, WorkQueue_proofs

A queue table and the *runners*, each the part of a drainer invocation that
handles one row. `Select`/`Claim` are the two calls of
`claimPendingQueueJobs`; `ReadStale`/`Reclaim` those of
`reclaimStaleQueueJobs`; `Send`, `Throw`, `Complete`, `CountRetry`,
`DeferRetry`, `ReturnJob`, `ExhaustJob`, `BuryJob` are `drainQueue`,
`incrementRetry` and `updateJobStatus` call by call; `AlertDeadLetter` is
`onDeadLetter`. Any call may fail (`Fault`, bounded by `MaxFaults`): an outcome
write that fails is only logged, and a failed read of the retry count counts
from zero. `updated_at` is a counter (`stamp`), `available_at` a flag.
One assumption is taken from `queue.ts`: `VISIBILITY_TIMEOUT_MS` is longer
than an invocation may live, so a row is `Stale` only when no living runner
holds it.

`JobLedger` is the abstract specification: a job waits, is taken at most
`Allowance` times, and ends once as done or dead. `WorkQueue` implements it
under the mapping `LedgerState`, with
`Allowance = (MaxRetries + 1) * (MaxFaults + 1)`.

### CustomerConfirmation, CustomerConfirmation_proofs

The flow after a restaurant marks an order delivered. `sweep[s]` is one minute
sweep with the time it started at, its batch (with the reminder count it read
for each order) and the reminder it has claimed but not yet pushed;
`request[q]` a confirm or report request of the customer.
`MarkDelivered` is the partner's `delivered` (a rider's delivery never enters
this flow), `SelectCandidates` the capped, oldest-due query, `Decide` the loop
body with the closing write (`Closable`) and the claim (`Claimable`),
`PushReminder` the push after the claim; `LoadOrder`, `Confirm`, `Report`,
`NotifyRestaurant`, `PostToSupport`, `NotifyAdmins` are the two requests.
`StageDue` is `getReminderDecision`: stages at 30, 90 and 150 minutes of the
three-hour window, none from 22:00 to 07:00 Lagos time, only the latest one
due. Time counts half hours, the unit in which all those constants are whole.
`OrderFails` is the error branch of the loop: the write of one order failed, or
landed and lost its answer, and the sweep goes on with the next. `SweepDies`
and `RequestDies` end either between any two steps. The properties say which
reminder is in turn in their own words (`InTurn`), not by `StageDue`.

### DispatchOffers, OfferBook, MCDispatchOffers, DispatchOffers_proofs

How an order finds its rider. `offer[o][r]` is the `DeliveryOffer` row,
`courier` and `released` the `DeliveryAssignment`, `load` the rider's
`activeLoad`, `marks` the `dispatch_offers_exhausted` events; `job[w]` is a
request with the bundle it read.

| Model | Code |
|---|---|
| `LoadBundle`, `Commit`, `Release` | status updates of restaurant, customer and rider as far as dispatch sees them: bundle, write (compare-and-swap, or by id for the customer), `releaseDispatchAssignmentLoad` |
| `Select`, `MakeOffer` | `runAutomaticDispatchAssignment`, `ebuy_offer_dispatch_assignment` |
| `LookUpMark`, `InsertMark` | `recordDispatchOffersExhausted`, a look and an insert |
| `Reload` | `reofferDispatchOrder` |
| `Accept`, `Decline`, `Lapse` | `ebuy_accept_dispatch_offer` with the claim in it, `dispatchDeclineOffer`, the clock passing `respondsBy` |
| `StartSweep`, `ExpireOffers`, `ExpireFails`, `ListCandidates` | `sweepDispatchOffers`; `batch` is what is left of its list |
| `LoadAssignment`, `Assign`, `Tidy` | `dispatchAssignOrderCourier`: check, `ebuy_reassign_dispatch_assignment_courier`, offers superseded |
| `ReadUnpaid`, `ExpireUnpaid` | `maybeExpireUnpaidOrder`, in any request that loads the order: decided on the row as read, written by id, no release of the rider |
| `AdvancePaid` | `markOrderPaymentState` after a lost compare-and-set: `placed`, by id; it may reopen an order that ended meanwhile (`reopened`) |
| `CancelUnaccepted` | `ebuy_auto_cancel_unaccepted_order`, under the row lock, no release either |
| `Die` | the invocation dies; `abandoned` is the history of a claim left on an order that ended, by a death before the release or by a write that releases nobody |

The SQL functions lock the order row and are one step each. Statuses are
grouped as dispatch tells them apart (`moving`, `ended`). The flag
`platform_dispatch` is on and orders are deliveries. Which riders are online
and how they score is left open: any rider not yet asked may be selected, or
none. Escalations, batch limits and notifications are left out. The payment
column is not kept: a live order may be read as unpaid and past its window at
any stage, which is more than the code allows at the later ones and covers what
it does allow, a stale answer of the gateway over a paid order included.
`MCDispatchOffers` adds the symmetry of riders and requests to the safety run.

`OfferBook` is the abstract specification, without requests, sweeps and clocks:
an order is offered to one rider at a time, never twice to the same one, to
`Max` riders at most; an answer is final, and one rider says yes.
`DispatchOffers` implements it under the mapping that takes an offer's status
to asked, yes or no.

### RiderPayouts, PayBook, MCRiderPayouts, RiderPayouts_proofs, RiderCaps_proofs

The daily run that pays riders, beside transfer webhooks and Paystack.
`earning` and `payout` are the rows, `lease` the holder of
`RiderPayoutRunLease`, `run[u]` an invocation with the list it looks up, the
earnings and the plan it holds, and Paystack's last answer; `transfer` and
`late` are Paystack.

| Model | Code |
|---|---|
| `StartRun`, `ReleaseLease`, `Stop`, `LeaseExpires` | the lease: acquired when free or expired, released in `finally`, kept by an invocation that dies, expired under one that lives |
| `LoadStale`, `VerifyFinds`, `VerifyRefused`, `VerifyLeaves`, `Resend` | `reconcileStaleProcessing` with the re-send under the same reference |
| `LoadEarnings`, `MakePlan` | the reads and `planRiderPayouts` (`BatchOf`, `Room`, `IsPlan`) |
| `CreatePayout`, `Send` | `ebuy_create_rider_payout`, which looks at everything again (`Creatable`), then the transfer |
| `ApplyNothing`, `ApplyRefusal`, `ApplyFinal`, `ApplyInProgress` | the branches of `applyTransferOutcome` and of a refused re-send |
| `Settle` | `ebuy_settle_rider_payout`: `Pays`, `Releases`, `Anomalous`, `GivenBack` |
| `Webhook` | `handleRiderTransferWebhook`, any event that has happened, in any order, any number of times |
| `Request`, `LateLands`, `BankMoves` | a transfer request may be refused, answered, unanswered with or without effect, or arrive after its timeout; transfers move on by themselves |
| `Clear`, `GrowStale`, `NextDay`, `RecipientChanges` | clearing, the lookup delay, midnight in Lagos, holds and approvals |

Abstractions: the five reads of a plan are two steps; verification, holds and
eligibility are one flag `recipient`; the age of a payout is today, yesterday
or older (beyond the re-send window); payout ids come from the finite set
`Payouts`; the row limits of the two lists (50 and 5000) are left out.
Assumptions on constants: riders and earnings are numbers, for their order;
there are finitely many earnings, each of a positive amount; and
`RIDER_PAYOUT_LIMITS` are naturals, as the literals of the code are.
Assumptions on the world: an invocation and its request do not live for
`reconcileAfterMinutes` after creating a payout (`GrowStale`); Paystack keeps
references unique and echoes our amount.

`PayBook` is the abstract specification, seen from the bank: a transfer pays a
set of earnings once, no earning is paid by two transfers, and only a
reversal, which brings the money back, makes an earning payable again.

### Checkout, MCCheckout, Checkout_proofs

The placement of a single-restaurant order paid by card. A request stands for
the order id it generates; `pc` is its next call.

| Model | Code |
|---|---|
| `Lookup` | `initializeCustomerPayment` up to the idempotency lookup, with the code the draft resolved |
| `LockCode`, `CountUses`, `Redeem` | `ebuy_redeem_promo_code`: row lock, both counts, insert and commit |
| `Insert`, `InsertItems` | `createOrderWithItems`, with the delete when the items fail |
| `OpenPayment`, `StoreRecord` | the first `PaymentTransaction`, Paystack, the order's payment, transaction, event and signals; then `putIdempotencyRecord` |
| `CancelOrder`, `Undo` | the catch blocks and `releasePromoRedemption` |
| `Die` | the invocation dies; a transaction that was open rolls back |
| `Close`, `ReleaseClosed` | cancellations by the customer, the payment window and the acceptance deadline, each a write and then a release |

A call may fail without effect, or take effect and lose its answer; `lost`
records the redemptions whose release was never reached or failed, `repeats`
the requests that began after their key was answered. Abstractions: one
restaurant per order; ids are fresh, so the unique order id of a redemption
never bites; a live order is any that was not cancelled by one of the paths
that release (rejections and dispatch escalations, which keep the redemption,
leave it live here); caps are naturals, no cap being a large one; a code that
was switched off is a refusal of `CountUses`.

## 3. Runs

`order_f_...` and `dispatch_f_...` are *findings*: the code does something a
comment of the repository says it does not.

| Run | Question | Bounds and why they are enough |
|---|---|---|
| `order_guarded` | Webhook (one delivery at a time, redelivered after a death), staff and minute sweeps overlap freely: do ends stay final, captured money visible, escalations reversible, is a refund written away only with a human told, and is every paid or cash order within the sweep's page answered? | three workers, one per kind of writer: two suffice for any read-write race, the third lets a sweep overlap one; `MaxAge = 2` is the automatic cancellation (twice the deadline), `PayWindow = 3` keeps the payment inside its window; `Crowding = TRUE` |
| `order_counter` | A customer reads, refreshes and cancels while the webhook is delivered, restaurant and dispatcher move the order and the window runs out: no unpaid food, no invented payment, nothing but the money reopens a closed order? | three workers, one per side; `PayWindow = MaxAge = 1` so the window does run out, and no sweep that looks at later times is among the workers; riders' updates, `ready` and the restaurant's own delivery are left to `order_guarded`: they would multiply the run and act on later stages only |
| `queue` | Overlapping drainers, deaths, retries, reclaims: one holder, bounded runs, completed means sent, true alerts, the ledger kept, every job ends? | jobs do not interact, so one job; three runners so that a claim, a reclaim and a second reclaim can overlap; two recipient groups; one retry, so that both outcomes of the cap occur; one failing call |
| `confirmation` | Two sweeps and two requests on one order: reminders and notices once, no close over a report, confirmed once, every order settles? | orders interact only through the cap of a sweep's batch, which one order never reaches (the theorems hold for every number of orders and every cap); delivery at 05:00 puts the first two stages into quiet hours and the third out of them, so both branches happen: the first stage is always superseded unsent, the second may be; the horizon is the end of the window |
| `order_f_expiry` | `ExpiryOnlyUnpaid`: a read past the window cancels an order the webhook paid meanwhile | |
| `order_f_window` | `UnpaidCheckoutEnds`: an abandoned transaction stamps `failed` and the order never expires (under fairness: the apps do keep reading) | |
| `dispatch` | Status updates, selections, declines, sweeps, manual assignments, payment expiry and reopening overlap: does the load equal the open claims, are claims given back at the end and not before, left only by a death or by a writer that releases nobody, and do the offers keep to the offer book (`KeepsOfferBook`)? | riders and requests are interchangeable (`SYMMETRY`, no liveness here); one order; `Max = 2` with three riders, so that the limit bites while a rider is still unasked; two requests, enough for any race between a read and the write decided on it. What two orders could do to each other, share a rider's load, is covered for any number of them by `LoadIsAlwaysLive` |
| `dispatch_live` | Is an offered order with offers left ever left alone? | fairness below; one request, because the liveness graph of two does not fit the time of a run; with one the sweep, declines, selections and deaths still alternate freely |
| `payouts` | Two runs overlap (a lease can expire under a living holder), die, lose answers, and webhooks come in any order: do the books match the bank, is an earning never stranded, and paid by one transfer at a time (`PaysOnce`)? | one earning is enough for being paid twice or not at all; two payouts, so that it can be given back and paid again; two runs; payouts and runs are interchangeable (`SYMMETRY`) |
| `payouts_live` | Do plans, settlements and midnights keep the platform's cap of a day and the rider's, and is every transfer that ended written down without any webhook? | two earnings, of which the caps admit one a day; two payouts; one run, because the liveness graph of two does not fit the time of a run, and the lease makes the runs follow each other except when it expires early. With one rider both caps bite at once; several riders, unequal amounts and overlapping runs are covered by the theorem `CapsHold` |
| `checkout` | Overlapping checkouts of one code, two taps with one key, cancellations beside them, while any call fails or any request dies: do caps hold, is a discount backed, do slots come back, does a retry place nothing? | two taps of one customer (interchangeable, `SYMMETRY`) and a request of another; one code scarce for everybody, one for each customer, so each cap bites alone |
| `dispatch_f_fallback` | `FallsBackToManual`: when the last offer lapses unanswered, the sweep's list leaves the order out (its offers are used up) and nobody marks it for the manual queue | as `dispatch_live` |

Why different runs list different properties: `TerminalIsFinal`,
`CancelledMoneyReturned`, `CapturedMoneyAccounted` and `RefundNotErased` hold
for the guarded handlers and not for every mix of writers. The customer's
cancellation, written by id, moves an order that the kitchen delivered
meanwhile to cancelled; a status refresh writes an older answer over the
webhook's; and the payment handler, after it lost its compare-and-set, advances
without one and can reopen an order that was closed meanwhile (section 5).
What remains true with all of them is `OnlyPaymentReopens`.

Each property of a passing run has a mutant in `PROJECT.json`: a definition
changed the way a plausible bug would (a dropped compare-and-swap, a report
not looked for, an off-by-one of the cap) that makes TLC refute it.

Deadlock is checked in the dispatch runs, where a sweep may always start. It is
not in the others: a finished order, an empty queue, a settled confirmation and
answered checkouts are states the system may rest in, and the ids of payouts
run out.

### Fairness

* `OrderLifecycle`: time passes; `pg_cron` posts the drainer every minute and
  the apps poll the order, so the acceptance sweep's read and the view are
  strongly fair, the sweep's read only while the order is within its page:
  `PaidOrderAnswered` is promised only if it comes to be there for good
  (`<>[]~crowded`), which the code does not guarantee (section 5). A request in
  flight ends (weak fairness), by answering or dying; not every sweep dies before
  its write (strong fairness of `TimeOutUnaccepted` and `ExpireUnpaid`). Nothing
  is assumed of the customer, the gateway, the restaurant or dispatch.
* `WorkQueue`: backoffs pass, a due or stale row keeps being selected by some
  runner, a runner that is not killed goes on, and not every one is killed
  before its compare-and-swap. A handler may throw or die every time.
* `CustomerConfirmation`: time passes, sweeps start and go on, and not every
  one dies before its query or write. Nothing is assumed of the customer.
* `DispatchOffers`: offers lapse, `pg_cron` starts sweeps, a request in flight
  ends, and not every one dies or fails before each of its calls. Nothing is
  assumed of riders, restaurants, customers and administrators.
* `RiderPayouts`: time passes (`LeaseExpires`, `GrowStale`), `pg_cron` starts a
  run every day, none hangs, and not every one dies before it reads the list,
  before Paystack answers a lookup, or before it writes the answer down.
  Nothing is assumed of webhooks, riders and the progress of transfers.

## 4. Theorems

All hold for every value of the constants, under the named assumptions on them
in the component's module. The five of `OrderGuarded_proofs` are about the
mixes of handlers that satisfy `GuardedMix`; the others assume nothing more.

| Theorem | Statement | Argument |
|---|---|---|
| `OrderLifecycle_proofs!TypeCorrect` | `Spec => []TypeOK` | `TypeInv` adds `StageKnown`: a resolving write already checked the stage it returns to |
| `MoneyBeforeFood` | `Spec => []FoodNeedsMoney` | `MoneyInv`: the row *and every snapshot in flight* are `Honest`, they show money, or a stage only paid orders reach, only if the gateway has the money; requests past their payment check have it too. Snapshots are why the property alone is not inductive: a stale write must restore nothing dishonest. `MoneyStable`: money once taken stays taken (a reversal is recorded as one) |
| `NoInventedPayment` | `Spec => []PaidMeansCaptured` | same invariant |
| `PaymentAloneReopens` | `Spec => OnlyPaymentReopens` | `CloseInv`: staff writes were admitted from a live status (`Admitted`), which the compare-and-swap finds again; `Reopens` for each kind of step |
| `OrderGuarded_proofs!MoneyStaysAccounted` | `GuardedMix` implies `Spec => []CapturedMoneyAccounted` | `GuardInv`, see below |
| `CancelledMoneyGoesBack` | `GuardedMix` implies `Spec => []CancelledMoneyReturned` | `EndOfRow`: captured money of a cancelled order is refunded or in front of a human |
| `EscalationKeepsItsStage` | `GuardedMix` implies `Spec => []EscalationReversible` | part of `GuardedRow`: the webhook's copy of the timeline is written before the first escalation |
| `EndsAreFinal` | `GuardedMix` implies `Spec => TerminalIsFinal` | `GuardStep`: every step leaves an end as it is, and takes a refund off the row only as it flags it (`Lasting`) |
| `RefundsStayOrAreFlagged` | `GuardedMix` implies `Spec => RefundNotErased` | same lemma: the only such step is the late branch of a redelivery whose first delivery died before its record, on an order cancelled since (`PaymentJob`), and that branch asks for attention |
| `WorkQueue_proofs!TypeCorrect` | `Spec => []TypeOK` | |
| `ExclusiveRuns` | `Spec => []ExclusiveRun` | `LeaseInv`: the row of a runner at work is `processing` (or just failed by it), at most one runner works on a row, and as long as the lease a reclaim read is current nobody works on the row (`LeaseRead`) |
| `CompletedJobsWereSent` | `Spec => []CompletedWasSent` | `SentInv`: a runner has sent for every group before the one it is at, and what was sent stays sent, whoever takes the job next |
| `AlertsAreTrue` | `Spec => []AlertIsTrue` | same invariant with `AlertDue` |
| `RunsAreBounded` | `Spec => []RunsBounded` | `CountInv`: every run is paid for by a retry on the row or by a failed call; losing a count costs at most a whole cap |
| `FinishedStaysFinished` | `Spec => FinishedIsFinal` | `JobMoves`: every step moves one job along an edge of the ledger, or none |
| `ImplementsLedger` | `Spec => KeepsLedger` | `JobMoves`, and `RunsBounded` for the allowance |
| `CustomerConfirmation_proofs!TypeCorrect` | `Spec => []TypeOK` | |
| `RemindedOnceHolds` | `Spec => []RemindedOnce` | `ReminderInv`: a stage is sent, or owed by exactly one sweep, only once the order's counter has reached it; a claim raises the counter above everything sent or owed. `TurnInv`, with `DueInTurn`: what a sweep has claimed is the stage in turn by its own time |
| `ClosesOnlyUnreportedHolds` | `Spec => []ClosesOnlyUnreported` | `SettleInv`: a sweep's time is never ahead of the clock, an undelivered order is unconfirmed |
| `HeardOnceHolds` | `Spec => []HeardOnce` | `HeardInv`: a request with a notice ahead of it won the write, and is the only one |
| `ConfirmedOnceHolds` | `Spec => ConfirmedOnce` | `ColumnStep`: the six ways a step changes an order's columns |
| `DispatchOffers_proofs!TypeCorrect` | `Spec => []TypeOK` | |
| `OneRiderIsAsked` | `Spec => []OneRiderAsked` | `AskInv`: an accepted offer belongs to an owned order, and an owned order takes no further offer |
| `OffersAreBounded` | `Spec => []OffersBounded` | `OffersMove`: a step settles offers of an order, asks one rider, or lets one take it; only the second adds an offer, and it looks at the count |
| `AnswersAreFinal` | `Spec => AnswerIsFinal` | same lemma |
| `LoadIsAlwaysLive` | `Spec => []LoadIsLive` | `ClaimsMove`, `LoadStep`: every step that changes a claim changes the load of exactly the riders concerned; the clamp at zero is never reached because a rider who is relieved carries something |
| `ImplementsOfferBook` | `Spec => KeepsOfferBook` | each kind of step of `OffersMove` is a step of the book or a stutter; `OffersAreBounded` for the limit |
| `ClaimsFollowTheirOrder` | `Spec => []ClaimsFollowOrder` | `ClaimInv` with `JobsTrue`: a write under way makes a legal move, and a release under way belongs to an order that ended or was reopened; an ended order stays ended unless the payment handler returns it (`StagesMove`, `EndedStays`), and a write that releases nobody leaves its mark (`HistoriesStay`) |
| `RiderPayouts_proofs!TypeCorrect` | `Spec => []TypeOK` | |
| `NothingStranded` | `Spec => []NoEarningStranded` | an earning and its payout only change together, in one transaction; a payout that is created covers exactly the earnings it takes |
| `BooksAgree` | `Spec => []BooksMatchBank` | the invariant follows what Paystack said into the run that heard it: an answer under way is still true of the transfer, a refusal counts only for the first request, and a payout whose first request may still be travelling is neither stale nor given back |
| `PaysEachOnce` | `Spec => PaysOnce` | `NothingStranded` and `BooksAgree`: a transfer pays only while its payout is processing or paid, and an earning covered by two payouts was given back by the first, whose transfer is dead |
| `RiderCaps_proofs!CapsHold` | `Spec => []WithinDay` | `CapInv`: what counts today is `Capped`, and a plan gives each rider earnings of his own. Only `CreatePayout` makes more money count (`OthersShrink`), it counts the batch for its rider alone, and it looks at the caps again (`CappedBatch`) |
| `PlannerAgrees` | in every reachable state, a plan for the pending earnings is `Payable` | `FitFits`: the batch is a running total cut off, so its own total is that of its greatest member; `BatchWeighs`, and for the whole plan the last rider it pays (`LastPlanned`) |
| `Checkout_proofs!TypeCorrect` | `Spec => []TypeOK` | includes that a locked code has a holder inside its transaction |
| `CapsAreKept` | `Spec => []CapsHold` | `LockTrue`: who is about to redeem holds the lock, and the counts it saw can only have shrunk |
| `DiscountsAreBacked` | `Spec => []DiscountBacked` | `OrderTrue`: a request past its redemption holds it until it has cancelled its order |
| `SlotsAreKept` | `Spec => []SlotsComeBack` | same invariant |
| `RetriesAreSafe` | `Spec => []RetryPlacesNothing` | `RetryTrue`: the record of an answered key is never empty again, so a repeat is answered from it |

### The guarded mixes

`OrderGuarded_proofs` is about the handlers that look before they write.
`GuardedMix` says which: no worker runs the customer's `cancel` or `refresh`,
at most one runs `webhook` (deliveries of one payment do not overlap, but one
that dies is delivered again, whatever it had written), and
`PayWindow > MaxAge` (the payment window does not lapse within the clock). It
restricts neither the number of staff workers and sweeps nor what each of them
may do, and the constants of `order_guarded` satisfy it. Each hypothesis is
needed by some of the five properties: sections 3 and 5 name the behaviours
that break them without it, and `order_f_expiry` is the trace for the last.

`GuardInv` was checked as an invariant of `order_guarded`'s specification, also
with a second staff worker, before it was proved. It has three parts.
`MoneyOfRow`: the row shows the money, or none of it, shows it once the
verification is recorded, and until it does a card order is where checkout left
it. `EndOfRow`: a refund is one of a cancelled order, and captured money of a
cancelled order is refunded or in front of a human. `GuardedJobs`: a webhook
under way read an order still awaiting its payment, or (a redelivery whose
first delivery wrote the row and died) one that was cancelled since; and every
staff write or automatic cancellation was decided on a snapshot that already
showed the payment, or on an order that never has any. The last is what the
properties lack: a write of an older snapshot is harmless because no snapshot
that can still be written is older than the payment.

### Sums

`Sum` is a fold over a set of earnings, given by a `CHOOSE` of a function. The
library's induction theorems over finite sets take an operator as a parameter
and are out of reach, so `RiderCaps_proofs` derives what it needs from the
least-number principle (`LeastNumber`, from the well-foundedness of `<`): of
the sets for which a fact fails, look at a smallest one (`SmallestSet`). In
this way it shows that the function that adds up exists and is unique
(`TallyExists`, `TallyUnique`), and that sums of disjoint sets add up
(`SumUnion`) and parts weigh no more than the whole (`SumPart`).

`PlannerAgrees` has no run of its own. Its invariant was looked at by TLC on
two riders, three earnings of unequal amounts and limits that bite, to some
1.6 million states without exhausting them.

### Only model-checked

The liveness properties `PaidOrderAnswered`, `EveryJobEnds`,
`EveryOrderSettles`, `OfferMovesOn` and `EveryTransferSettles`: liveness under
fairness is beyond this prover. Every other property of a passing run is stated
by a theorem.

## 5. Other divergences met while modelling

Not given runs of their own. Each is a behaviour of the models, except where an
item says that the source alone shows it.

* A customer's cancellation is admitted on the snapshot and written by id, so
  it also lands on an order that started preparing, or was delivered, meanwhile
  (`domains/orders.ts`, `cancelCustomerOrder`).
* A partner's rejection does not touch the payment column and no code path in
  the repository executes a refund, but the notification text, which the source
  alone shows, mentions one (`_shared/notifications.ts`).
* A rejection or failed delivery keeps the promo redemption that
  `_shared/orders.ts` says an unsuccessful order gives back (the source alone:
  `Checkout` has one kind of order that stays live).
* A redelivered webhook that advances from a snapshot erases
  `timeline.escalatedFrom`, after which `resolve_escalation` answers 409.
* The claim of a queue job does not re-check `available_at`, so a job that was
  retried between another drainer's select and its claim runs before its
  backoff is over.
* A sweep decides with the time it started at, so a reminder can leave just
  after 22:00 or just after the order's deadline.
* A delivery that dies after it wrote the row and before its record
  (`payment-verification/handler.ts`) is delivered again to a row that may have
  been cancelled and refunded since. The shortcut looks for `paid`, so the late
  branch writes `paid` over the refund on record and asks for a human's
  attention: the case `RefundNotErased` excepts. If the row still shows `paid`,
  the redelivery skips the `PaymentTransaction` upsert and the notifications
  that were lost; that the source alone shows, see the plan.
* The acceptance sweep reads the 100 oldest `placed` rows, paid or not, and
  looks at payment afterwards. Its comment counts on such rows being
  "short-lived" and a straggler being "picked up next minute"
  (`_shared/acceptanceDeadlineSweep.ts`, `ACCEPTANCE_SWEEP_LIMIT`); but unpaid
  orders that never leave `placed` (`order_f_window`), or that nobody reads
  past their window, fill that page for good once there are a hundred of them,
  and a newer paid order behind them is never answered. Hence the condition of
  `PaidOrderAnswered`.
* The payment window and the acceptance deadline end an order and release
  nobody. An order read as unpaid past its window, then paid, accepted and
  claimed before that cancellation lands, leaves the rider carrying it for good
  (`ExpireUnpaid` of `DispatchOffers`).
* Deliveries of one webhook that overlap each other: `TypeOK`,
  `CapturedMoneyAccounted` and `PaidOrderAnswered` still hold;
  `CancelledMoneyReturned`, `TerminalIsFinal`, `RefundNotErased` and
  `EscalationReversible` do not, which is why `order_guarded` has one delivery.
* A webhook that read the order while it was scheduled writes its timeline back
  after the release (`payment-verification/handler.ts`, "NOT awaiting
  payment"), without `placedAt`. The release says it starts that clock "so a
  just-released order is not instantly overdue"
  (`_shared/scheduledOrderReleaseSweep.ts`); the deadline falls back to
  `createdAt`, and the order can be cancelled before the restaurant had its
  window.
* A status refresh that asked the gateway before the charge and writes after the
  webhook overwrites `paid` with the older answer, although the same file calls
  the gateway authoritative (`domains/orders.ts`).
* After a lost compare-and-set the payment handler advances the order without a
  condition; if what it lost to was a cancellation between its reload and that
  write, a closed order is open again, against the comment "We do NOT revive it"
  (`payment-verification`).
* A queue job that is run again after a death between the push and the write
  pushes again; `queue-drainer` calls a re-run job a safe no-op.
* The confirmation sweep takes the oldest due orders up to its cap; more open
  orders than the cap that all wait for a quiet hour or a later stage keep the
  same ones selected each minute, so a straggler is not "simply picked up".
* A rider's self-assignment is checked before the call that reassigns without
  asking who holds the order: of two riders who pass the check the second
  displaces the first (`LoadAssignment`, `Assign`).
* `dispatch_offers_exhausted` is looked for and then inserted, so two requests
  can both write the event that is said to be written once per order.
* A restaurant's update that read the order before a rider accepted can still
  mark the offers as exhausted (`LookUpMark` is reached from the older read).
* If the request that ends an order dies before the release, nothing else gives
  the load back (`abandoned`).
* An order for which nobody was online when it became ready has no offer row,
  so no sweep lists it; a comment expects a rider coming online to fix it.
* The key of a checkout is looked up at its start and recorded at its end, so
  two taps that overlap both place an order that can be paid; the client says a
  double tap "replays the first response" (`customerOrderActions.ts`).
  `RetryPlacesNothing` is therefore about requests that begin after an answer.
* The record keeps naming an order that was cancelled since, so the same basket
  checked out again within fifteen minutes is answered with the dead order
  (`checkoutIdempotency.ts`: "it resumes the original pending order"). The same
  happens when the record was written but its answer lost: the catch block
  cancels the order the record names.
* When the items of an order fail to be inserted, an error of the order's
  delete is not looked at; and an insert whose answer was lost is not deleted.
  Either leaves a live order without redemption or payment page until the
  payment window closes it (`OpenPayment` never made it payable, which is what
  `DiscountBacked` counts on).
* A slot of a code leaks (`lost`) when a redemption was committed and its answer
  lost, when the write before the release fails, or when the release does;
  a comment in `_shared/orders.ts` counts on all its paths to give it back.
* `docs/ops/rider-payouts.md` says an anomaly halts every run until it is
  resolved. Only payouts that are still processing are looked up again, so an
  anomaly on a settled one halts at most the run that meets it.
* A payout created before midnight and re-sent after it leaves on a day whose
  cap it does not count for: the cap is on creation (`OutToday`).
* With one run a day, a payout whose request was lost has a single lookup
  within the re-send window of 24 hours; after it, only a human settles it.
* A failure is held against the rider, not the account it went to: new bank
  details that were given while the transfer was under way are held for its
  failure, and a submission under way when the hold is written clears it
  (`RecipientChanges`, `Settle`).
* A payout that waits for an OTP, or whose re-send is refused, stops every run
  at the lookup, so riders behind it are not paid until a human acts. The
  operations document says so too.

## 6. Not modelled yet, and the plan

Order of work, most important first:

1. **PaymentVerification**: the side effects after the row is paid
   (`PaymentTransaction`, idempotency record, notifications), crash and
   redelivery; composes with `OrderLifecycle`'s webhook steps.
2. **DeliveryCode** and **OneTimeCodes**: the handover code a rider enters
   (`_shared/deliveryCode.ts`, its gate in `_shared/domains/dispatch.ts`, five
   attempts counted by compare-and-swap), attempts bounded under concurrent
   guesses, resend cooldown, single use of invites.
3. **Checkout, extended**: baskets of several restaurants (an order group that
   shares one payment), cleanup of idempotency records.
4. **DispatchOffers, extended**: escalation on and off a claimed order, the
   pool and its scores.
5. **Drainer**: sweeps before load shedding, heartbeat watchdog; liveness.
6. **ClientRuntime**: session lock with timeout, refetch ordering, poller.
7. **Pricing**: total as an operator against a reference over bounded baskets.
8. Proofs: an abstract specification of an order's statuses, implemented by
   `OrderLifecycle`; with the modules above, their invariants. The safety
   properties of the present runs are all proved.

Left out for good: user interface, wording, logging, HTTP and signature
details, reads without a protocol, generated code and configuration.

## 7. Running it

    tlasany M.tla
    tlc -config order_guarded.cfg MCOrderLifecycle
    tlc -config queue.cfg WorkQueue
    tlc -config confirmation.cfg CustomerConfirmation
    tlc -config dispatch.cfg MCDispatchOffers
    tlc -config dispatch_live.cfg DispatchOffers
    tlc -config payouts.cfg MCRiderPayouts
    tlc -config checkout.cfg MCCheckout
    tlapm OrderLifecycle_proofs.tla
    tlapm OrderGuarded_proofs.tla
    tlapm RiderCaps_proofs.tla

The slowest runs, `dispatch`, `confirmation`, `payouts_live` and
`dispatch_live`, take one and a half to two minutes with two workers; each proof
module takes a few minutes.
