# Formal model of the rent-a-car booking back end

TLA+ modules, TLC configurations and TLAPS proofs for the part of this
repository that decides who gets a car, who has paid for it, who gets the money
back and who is told: `src/backend/src`. Paths below are relative to that
directory unless they start with `src/`.

## 1. Inventory

The system is an Express server (several processes may run), a worker that runs
scheduled jobs, PostgreSQL, Stripe and a mail server. All state is in PostgreSQL
and at Stripe; the processes share memory with nobody. Processes interact only
through rows: a transaction with row locks or advisory locks is atomic, while a
row read outside such a transaction may be stale when it is used.

| Component | State | Operations | Hard behaviour | What makes it correct |
|---|---|---|---|---|
| Reservation lifecycle (`domain/reservationStatus.js`, `services/reservation/reservationStatusService.js`) | `reservations.status`, status history | `changeStatus`: guards, patch, calendar release, order deletion | called by everybody, on rows read earlier | orders, blocks and refunds agree with the status |
| Car calendar (`services/sql/bookingSyncSqlService.js`, `services/admin/order/orderMapper.js`) | `car_date_blocks` | add, move, update, remove, purge | half-open ranges; a release looks for "the" block; the purge clamps, deletes and stretches | blocks of one car never overlap; each booking owns one |
| Payment holds (`services/sql/reservation/reservationHold*.js`) | hold rows, their TTL, four kinds of lock | create, rehold, reprice, release, expire | guests compete; locks taken in different orders; TTL against Stripe's expiry | no two holds of a car overlap; no deadlock; holds end |
| Checkout (`services/payment/checkout/`) | linked session id, attempt number; Stripe's sessions | prepare, reuse, supersede, create, link, compensate | calls to Stripe between transactions, crashes, two tabs | one payable session per reservation, the linked one |
| Finalization (`services/bookingFinalization/`, `services/payment/webhookService.js`, `successService.js`) | orders, processed events | webhook, success page, reconciling job | duplicates, late payments, races, savepoints | paid once, booked once, or sent to review |
| Staff (`services/admin/reservationAdminService.js`) | the same rows | status changes, confirmation of a review | unlocked read before the write | a confirmed booking has order and block |
| Refunds (`services/payment/refund/`) | `refund_operations`, attempts, inbox | request, Stripe's answer, webhook, reconcile | success after failure, lost answers, status moved on | refunded if and only if the money went back, once |
| Counter (`services/admin/checklist/`, `services/account/`) | checklists, mileage, damage reports, cancellation requests | pickup, return, ask, approve, reject | several statements without a transaction, two clerks on one sheet | records agree, answers are true |
| Admin orders and staff calendar (`services/admin/order/`, `modules/calendar/`) | orders, blocks | create, edit, move, resize, delete, restore | full-row writes from earlier reads, `force` | blocks follow orders, orders follow reservations |
| Fleet status (`services/carFleetSyncService.js`) | `cars.status` | follow the reservation, set by hand | last writer decides | a car that is out reads rented |
| Fleet alerts (`services/carFleetAlertReconcileService.js`) | `car_fleet_alerts` | reconcile by job and by staff | overlapping reconciles from different reads | an alert for every expired paper and open damage |
| Notifications (`modules/notifications/`) | `notifications` | schedule, claim, send, mark | several workers, crashes after the claim | nobody mailed twice, nobody forgotten |
| Background jobs (`jobs/`, `services/reservationService.js`) | advisory job locks | every job above on a timer | two processes, runs by hand without lock | one run of a job at a time; lapsed holds end |
| Pricing, auth and RBAC, realtime, files, mail templates, analytics, front ends, infrastructure | | | | section 6 |

`PROJECT.json` lists every component with its status and every hazard at the
line where it bites, with the properties that cover it.

## 2. Modules

| Module | Models |
|---|---|
| `ReservationStatus` | statuses, the transition graph, the kinds of status, what a pending refund permits |
| `CarCalendar` | ranges, overlap, a free range, and which block a release deletes |
| `BookingFinalization` | everything that writes a reservation between its hold and its refund; composes the two above |
| `RefundPromise` | abstract: a reservation with at most one refund, and what the rest of the application may do meanwhile |
| `RefundLedger` | the refund service: rows, attempts, calls to Stripe, webhook inbox, reconciling job; implements `RefundPromise` |
| `RentalCounter` | checklists and cancellation requests, on the other side of `RefundPromise` |
| `HoldLocks` | the transactions that place, move, reprice, free and expire holds, lock by lock |
| `OrderCalendar` | admin orders, staff calendar, fleet status, passing time and the purge |
| `JobLock` | try-locks of the scheduled jobs |
| `NotificationOutbox`, `FleetAlerts` | the two jobs with tables of their own |
| `BackgroundJobs` | composes the two jobs with `JobLock` |
| `MC*` | small instances for TLC, with the constants' definitions and symmetry |
| `*_proofs`, `BookingSafety_proofs` | theorems, each beside its module |

`BookingFinalization` and `RefundLedger` meet in `RefundPromise`: the first
shows that everything outside the refund service keeps the promise
(`RefundsKeepPromise`), the second that the service itself does (`KeepsPromise`),
the counter that clerks with stale reads do (`CounterKeepsPromise`). Each knows
of the other only what the promise says, so each is checked on an instance of
its own size. `MCRefundCounter` runs ledger and counter beside each other: they
share no variable, and its next-state relation is that either of them takes a
step.

### BookingFinalization: state and code

| Variable | Code |
|---|---|
| `res[r]` | the `reservations` row: status, trip (car and dates), `live` (hold_expires_at in the future), `sid` (stripe_session_id), price |
| `blocks` | `car_date_blocks` |
| `orders[r]` | the `orders` row of a reservation (reservation_id is unique, so there is at most one, live or soft-deleted) |
| `refunds[r]` | status of the latest `refund_operations` row |
| `events` | processed Stripe events; a session has one completion event |
| `reviewed` | whether the status history has a `manual_review` row |
| `stripe[s]` | Stripe's record of a Checkout session. `created`: exists but no guest has its URL; `open`: can be paid |
| `fin[p]` | a finalization between its first read and its commit |
| `checkout[r]`, `release[r]`, `staff[r]`, `sweep[r]` | requests and job runs between an unlocked read and their write |
| `gap[r]` | history variable: which recorded accident took the calendar block of a confirmed booking |
| `crashes` | bound |

A transaction is one step, taken where it commits, when its reads are under
row or advisory locks. A program has a step of its own for each read outside
such a transaction, and for each call to Stripe:

- *Release* (guest and account page): `ReleaseRead`, `ReleaseAct`.
- *Checkout*: `CheckoutPrepare` (or `CreateHold` for a new guest) happens before
  the checkout lock; then `CheckoutRefuse`, `CheckoutReuse` or
  `CheckoutSupersede`; then `CheckoutCreate` at Stripe; then `CheckoutLink`.
  Each can fail, and the process can die between them.
- *Finalization*: `AnswerKnown` and `BeginFinalization` read without locking;
  `Complete` writes under the savepoint, which in its `changeStatus` locks the
  row; `CompleteFails` is the savepoint's rollback; `RecoverKnown`,
  `RecoverElse` and `Review` follow it in the same outer transaction. Success
  page and reconciling job run the same code and record no event (`direct`).
- *Confirmation by staff*: `StaffConfirmRead` decides the path, then
  `StaffConfirmReview` or `StaffConfirmGeneric`.
- *Sweep*: `SweepRead` (Stripe is asked), `SweepExpire`.

`ChangeStatus` is `changeStatusCore` with the release of the calendar and the
deletion of the order, so every caller includes them.

Abstractions:

- Guests: a reservation row stands for its own guest's browser session, with at
  most one checkout request in flight. Two tabs still interleave through
  `CheckoutPrepare` on a row that is already being paid.
- Time: only whether a hold's TTL is over. `HoldLapses` cannot happen while an
  open session or a running request of the same reservation exists, because the
  TTL (35 minutes, extended when checkout prepares) is longer than a session's
  life (30 minutes): `config/reservationTiming.js`.
- Changing the extras of a hold writes back the status of an unlocked read
  (`controllers/api/orderController.js:183`). `RepriceHold` takes any status that
  read can have seen (`SeenStatuses`): `pending_payment`, and `processing_payment`
  once the reservation has had a session. `changeStatus` judges it under the row lock.
- Retrieving and expiring the previous session and clearing the link are one
  step (`CheckoutSupersede`), under the checkout lock. A session created and not
  linked is never payable, because the guest does not have its URL.
- `finalizeReservationCore` is entered with unpaid sessions too, but no path
  that does so writes anything but an expired hold; the sweep covers that.
- The status `paid` is not visible outside the transaction of `Complete`; it is
  in the graph, and `CompletionError` asks for it.
- A booking found corrupted (operational without order) throws: no step.
- `no_show` keeps its order and gives back the dates, as in the code.
- Left to other modules: fleet status, ends of rentals, purge and edits of
  orders (`OrderCalendar`), the refund service (`RefundLedger`), locks
  (`HoldLocks`), mail (`NotificationOutbox`). Payment amounts count only as far
  as they differ.

### RefundLedger and RefundPromise

| Variable | Code |
|---|---|
| `status` | the reservation's status, with who moved it |
| `ops` | `refund_operations` rows: status, attempt, amount, Stripe's refund id, flag for review |
| `stripe` | Stripe's refunds by idempotency key (operation and attempt), and those made in its dashboard |
| `admin`, `worker` | a request for a refund, and the webhook or job that applies an answer, between two statements |
| `inbox` | refund events received and not marked processed |
| `requests`, `crashes` | bounds |

The request opens or reopens the row under `FOR UPDATE` and the partial unique
index of active operations, commits, calls Stripe with the key of this attempt,
and applies the answer in another transaction. The answer may be lost, be an
error that proves nothing, or be a definite failure. Webhooks and the job apply
Stripe's refund to the row they find. `RefundPromise` has five actions (ask,
Stripe's success or failure, a retry, the staff's status changes) over status
and refund only.

### RentalCounter

State: `booking` (the promise's two variables), the cancellation request row,
the two checklist sheets, the car's mileage, damage reports, and per clerk the
statement reached with what was read. A checklist is several statements without
a transaction, so each is a step, and a clerk may break off between two. The
refund moves by `RefundPromise` only. History records which answers and sheets
were overtaken by another clerk or broken off half way. Late payments
(`cancelled` to `manual_review` by a finalization) and other edits of
`cars.mileage` are left out, as are photos, signatures and texts.

### HoldLocks

State: the hold rows (owner, car, status), per transaction the statement it is
at and the locks it has, and the cleanup job as one more transaction. Locks are
the advisory lock of the browser session, the advisory locks of cars (taken in
ascending order), row locks, and the wait of an insert for the end of a
transaction that inserted or changed a conflicting row. Any two trips of a car
overlap, so a car stands for its dates. `Pay` stands for checkout's and the
webhook's one-row transactions. A transaction reads its session's active rows
before it locks, as the code does.

### OrderCalendar

State: reservations (status, dates, car), orders (live, deleted, their own
copy of dates and car), blocks with their kind, the fleet status of each car,
the day, and per clerk an edit or a move between its unlocked read and its
write. `astray` is history: the reservations touched by a recorded accident
(another's block taken or cut, a pickup after the end, an edit or move whose
read was stale, a restore that keeps the link to a dead reservation). Holds are
placed and confirmed in one step and the guard of a pending refund is left out:
both belong to `BookingFinalization`. The statements that expire holds leave the
car's fleet status alone, and the job that finds the payment session expired goes
by `changeStatus`: `HoldEnds` does either.

### JobLock, NotificationOutbox, FleetAlerts, BackgroundJobs

`JobLock` is `pg_try_advisory_lock` per job with the session that holds it; a
session that ends gives it back though its program may go on. The outbox has
the rows of `notifications`, the programs that schedule, claim, send and
mark, what the mail server took, and history: how often a mail left, and the
rows whose program died. The alerts have the condition of papers and damages,
the alert rows, and per reconcile what it read. `BackgroundJobs` puts both
beside each other: they share only the locks by key. `requeuePending` and
`purgeOrphaned` have no caller in the repository and are no steps.

## 3. Runs

Sessions, reservations, programs and clerks are model values; symmetry is used
for safety only. Deadlock is not an error: when every booking is closed and the
bounds are used up, nothing is left to do.

| Run | Instance | Shows |
|---|---|---|
| `core` | 2 guests, 2 sessions, 2 finalizations, 1 car, trips 1-3, 2-4, 3-5 | holds of a car do not overlap, bookings own their blocks, no car is booked twice, orders are paid |
| `checkout` | 1 guest, 2 sessions, 2 cars, 2 prices, 1 finalization, staff moves to car_prepared, picked_up, no_show, 1 crash, 2 requests at once, 1 refund | a payable session is the linked one; orders, refunds and statuses agree; the refund's promise is kept |
| `locks` | 2 guests who hold a car each, 2 cars, 2 requests, the cleanup job, 4 rows; its list of active sessions complete or one short | requests never wait for each other in a circle; what was found free is free at the write; no refusal without a reason |
| `money` | 1 guest, 2 sessions, 1 crash, fair; beside it a paid booking's refund with 2 administrators, 1 worker, 2 attempts, 2 requests, 1 crash, no dashboard, staff cancels, fair | a payment ends as an order or a review; a lapsed hold ends; money given back is booked in the end |
| `refund` | 2 administrators, 1 worker, 2 attempts, 2 requests, a crash or a refund in the dashboard, staff moves to picked_up and cancelled; beside it 2 clerks, 1 guest, 1 request, 2 checklists, 1 break | one refund in force, success is real but for what `charge.refunded` says too early, books agree, the service implements `RefundPromise`; clerks keep it too, and their answers and records are true |
| `desk` | 2 reservations, 2 orders, 2 cars, 3 trips, 1 clerk, 1 manual block, 1 tick of time, forced writes | bookings own their blocks, orders follow reservations, no ghost blocks, no status against the graph, a car that is out stays rented |
| `jobs` | 1 reminder, 1 confirmation, 2 job runs, 1 run by hand, 1 booking; 1 paper, 1 damage, 1 job, 1 desk, 3 changes; 1 fault each, fair | nobody is mailed twice, no row is left unseen, what is due gets out, alerts end right |
| `doc_block`, `doc_kept`, `doc_answered`, `doc_release`, `doc_refunded` | small | violated by the code, see below |

Why these bounds are enough for the questions asked:

- Bookings: every property relates at most two reservations and one session; the
  accidents need at most two reservations, two sessions and two finalizations of
  the same or different sessions; three trips give overlap, equality and
  adjacency (a return at the instant of another pickup); a second session
  appears only by supersession, which needs a second price or an ended session.
- Money: `MCMoney` puts an instance of `BookingFinalization` beside one of
  `RefundLedger`; a behaviour follows one of them, and each property is asked
  under the fairness of its own.
- Refunds: two administrators race for one row, and the second attempt exists
  only after the first failed; the worker is a webhook or the job, and one death
  between its work and its mark makes it do the work again. A behaviour has that
  death or a refund in the dashboard, not both (`OneAccident`): each meets every
  other step, and the theorems hold of the two together.
- Counter: a request has one answer, which one clerk gives while the other gives
  another; a third clerk could only repeat one of the two. The booking is found
  confirmed, with a payment that is looked up through its session, because that
  path includes what the other two can answer.
- Locks: a circle of two is the shortest, and the theorem covers the longer ones;
  each guest holds a car so that both place, move and swap.
- Desk: two bookings that meet or overlap, on the same or different cars; one
  read that may be stale against everything else.
- Jobs: two job processes, one of which may lose its lock and go on beside the
  other; mails are claimed two at a time, so that a claim can die half way.

Each property has a mutant of the code (a dropped check, a range a day short, a
session left payable, ...) that the same run refutes; the mutated operators
stand before the ones they replace.

### Fairness

Only what the deployment schedules is assumed.

- Stripe redelivers an event until it is answered. Strong fairness, since the
  server may be busy with another finalization whenever a delivery arrives. The
  success page gets no fairness: the guest may never come back.
- Stripe settles a refund it accepted.
- A running finalization, checkout, release, confirmation, sweep, send or
  reconcile goes on (weak fairness); a crash takes it away, and crashes are
  bounded.
- Time passes: an open session is paid or expires, a TTL runs out.
- Jobs return on their schedule (`setInterval` in `jobs/backgroundJobRunner.js`;
  strong where their lock can be held by another run each time).

The decisions of guests, staff and administrators are never forced.

### Where the code and its documents part

- `doc_block` (`ConfirmedHasBlock`). The release of a reservation deletes the
  first calendar block that overlaps its dates, also when the reservation was an
  unpaid hold that never had a block (`services/admin/order/orderMapper.js:115`).
  Guest A pays after the hold lapsed, guest B already holds the dates, A's
  payment is confirmed first, B releases: A's block is gone, and the car can be
  booked again. `src/README.md:45` says that confirmed ranges are stored in
  `car_date_blocks`.
- `doc_kept` (`AcknowledgedPaymentKept`). A second tab puts a reservation that
  is being paid back to `pending_payment` with another price; the payment
  conflicts, `manual_review` is refused from that status, the refusal is
  swallowed (`services/bookingFinalization/paidConflictManualReviewService.js:85`)
  and the event is answered: neither order nor review.
- `doc_answered` (`ReviewIsAnswered`). If the success page or the cleanup job
  sent the reservation to review first, the webhook's completion throws and each
  redelivery fails in the same way until somebody settles the review, against
  `services/payment/webhookService.js:4`.
- `doc_release` (`ReleaseCancelsOnlyHolds`). The release reads an unpaid hold
  without a lock; if a payment is finalized before the cancellation, the
  cancellation takes the confirmed booking with it
  (`services/reservationService.js:33`).
- `doc_refunded` (`RefundedIsPaidBack`). Stripe's `amount_refunded` counts a
  refund from its creation, pending or not: `remainingRefundableCents`
  (`services/payment/refund/resolvePaymentIntent.js:40`) reads it so, and the
  repository's stub writes it so (`services/payment/stripeTestStub.js:473`). The
  handler of `charge.refunded` takes it for money that came through
  (`services/payment/refund/refundWebhookService.js:96`): the row succeeds and the
  reservation is `refunded`, which `src/README.md:269` calls "Payment refunded".
  If the refund fails afterwards, the failure is not written over a succeeded
  row, and the reservation stays refunded with no money back or on its way.

The positive properties name what remains true beside these.
`BookingHasOrder`, `BookedHasBlock` and `NoDoubleBookingButGaps` except the
bookings whose `gap` records an accident: confirmed by staff after a stale read
(`bare_confirm`), stripped by another release (`stripped`), or finalized for the
car the reservation had before a rehold (`stale_car`). They say that there is no
fourth way. `PaymentIsNoticed` is checked where price and dates do not change
under a payment; elsewhere `doc_kept` refutes it. `SuccessIsReal` excepts a row
for the whole payment after a `charge.refunded` in a story where some refund was
at first pending, which is what `doc_refunded` shows, and attempts for different
amounts; it says that no refund event, answer, late match, replay or reconciling
pass makes a row succeed without its money. The history variables of the
other modules (`astray`, `crossed`, `lost`, `blurred`, `orphans`, `stale`)
serve the same purpose.

What a reader of the code should also know, found while modelling and visible in
the definitions, though no run is spent on it:

- *Locks.* A create whose guest still has a stale row can deadlock with the
  cleanup job (the run says that every circle goes through it). An edit of an
  order locks orders before reservations, a cancellation or refund the other way
  round. A hold that lapses while its owner rebooks is reported as taken by
  another.
- *Calendar.* The purge clamps blocks of any reservation that is not open, also
  those not yet picked up (`services/sql/bookingSyncSqlService.js:126`, against
  the comment at 104), and a swallowed exclusion violation aborts its caller's
  transaction (188). A calendar move writes the whole row from an unlocked read
  in any status. A deleted order can be edited; a restored one keeps the link to
  a dead reservation. `no_show` of a booking without a block deletes whatever
  block overlaps, also that of an overdue rental.
- *Fleet.* The return of one rental frees the car while another one of the same
  car is out; a refund leaves it reserved; a rental moved to another car leaves
  both statuses as they were. `OutStaysRented` names these ways. It also excepts
  whatever the staff writes to the car itself: the fleet page, the car form,
  which writes back the status it was opened with
  (`services/admin/car/carAdminCrudService.js:73`), and a damage report, whose
  check is not locked (`services/admin/car/carAdminDamageService.js:47`).
- *Mail.* The confirmation of a booking can be mailed twice. A crash after the
  claim leaves the row `processing` for ever, since nothing calls
  `requeuePending`. A crash between the booking's commit and the enqueue loses
  the confirmation. Without SMTP settings the sender counts a mail as sent and
  sends nothing; `SentHasLeft` is about a server that has them.
- *Refunds.* `applyRefundFromStripeObject` compares the amount with the row it
  matched but marks the active one. A pending row without Stripe's id is never
  reconciled. A rate limit (429) counts as a definite failure. A refund made in
  Stripe's dashboard can leave one of the application's own without a booking.
- *Counter.* A request whose booking was refunded some other way can only be
  rejected. An approval reads "approved" while the refund is pending, and it may
  fail later. A failing lookup of the payment is taken for "no payment", and the
  booking is cancelled without a refund. A return checklist sent twice makes two
  damage reports.

## 4. Proofs

TLAPS proves, for any number of guests, sessions, cars, trips, prices, clerks
and programs, and without a bound on crashes or requests (the bounds are
constants of any size):

| Theorem | Says |
|---|---|
| `BookingFinalization_proofs!TypeCorrect` | the type invariant, with `BusyOK` |
| `BookingSafety_proofs!OrdersCorrect`, `LifecycleCorrect` | `BookingHasOrder`, `OrderMatchesLifecycle` |
| `BookingSafety_proofs!RefundsCorrect`, `PromiseKept` | `RefundMatchesStatus`; every reservation and its refund are a `RefundPromise` |
| `BookingSafety_proofs!HoldsCorrect` | `HoldsExclusive` |
| `BookingSafety_proofs!CalendarCorrect`, `BlocksCorrect` | `NoDoubleBookingButGaps`, `BookedHasBlock` |
| `BookingPayment_proofs!PayableLinked`, `OrdersPaid` | `PayableIsLinked`, `OrderIsPaid` |
| `BookingPayment_proofs!BookingsPaid` | no booking, review or refund without a payment of its own |
| `RefundLedger_proofs!LedgerTypes`, `OneRefund`, `BooksCorrect` | `TypeOK`, `OneActiveOperation`, `BooksAgree` |
| `RefundLedger_proofs!LedgerImplementsPromise` | the refund service implements `RefundPromise` |
| `RefundLedger_proofs!SuccessHasMoney` | `SuccessIsReal` |
| `RentalCounter_proofs!CounterTypes`, `PromiseIsKept` | its types; clerks keep the promise |
| `RentalCounter_proofs!ApprovalsAreActedOn`, `AnswersAreTrue`, `RecordsAreTrue` | `ApprovedIsActedOn`, `AnswersAgree`, `CounterRecordsAgree` |
| `HoldLocks_proofs!LockTypes`, `OnlySweepDeadlocks` | `TypeOK`; `CirclesNeedSweep` for circles of any length |
| `HoldLocks_proofs!CheckedStaysFree`, `RefusalsHaveReasons` | `CheckedIsStillFree`, `RefusedForAReason` |
| `OrderCalendar_proofs!DeskTypes`, `OrdersFollow` | `TypeOK`, with `OrdersLinked`; `OrderFollowsReservation` |
| `OrderCalendar_proofs!BlocksOwned`, `NoGhosts` | `BookingOwnsBlock`, `NoGhostBlock` |
| `OrderCalendar_proofs!NeverTwice` | no car is given to two bookings, but through a recorded accident |
| `OrderCalendar_proofs!GraphKept`, `OutRented` | `StatusByGraph`, `OutStaysRented` |
| `BackgroundJobs_proofs!JobTypes`, `MailedOnce`, `ClaimsOwned`, `SentLeft`, `RightAlerts` | every safety property of `jobs` |

The assumptions are those the modules make of their constants: trips are
ranges, "no such" values are not members of their sets, bounds are natural
numbers, and the staff's statuses are those the endpoints take (in
`OrderCalendar` the whitelist without `confirmed`, which has its own action, and
`refunded`, which a refund sets). No theorem has a hypothesis of its own.

**Bookings.** Two layers. *Types*: `TypeOK` is not inductive, since a
finalization writes `res[fin[p].rid]` and must know that a busy one has a
reservation; `BusyOK` says so, and both together are inductive. *Cases*:
`StepCases` shows that whatever action is taken, the tables see one of six
things: changes of columns and lapses (`Mild`), a new or moved hold (`Hold`), a
`changeStatus` (`Change`), a booking with order and block (`Book`), a
confirmation with neither (`Bare`), or a refund row (`Ledger`). Each safety
proof is by those cases.

- Orders and refunds are inductive as they stand, with facts on the transition
  graph: operational statuses are entered only through `confirmed` and left only
  by a release, and nothing leaves `no_show`.
- Holds need that `Hold` comes after the stale holds of the car were expired, so
  that a hold in the way is a live one, which the availability check sees.
- The calendar is inductive only together with `Disjoint(blocks)`: a booking
  inserts a range that is free; its overlap with another booking would be an
  overlap with that one's block; and a release either leaves a booking's block
  alone or marks the booking stripped.

**Refunds.** The invariant is `LedgerInv`: types, `OneActiveOperation`,
`BooksAgree`. `RowStep` sorts the actions: each fails a row, reopens one, lets
one succeed, opens a new one, or moves the reservation, and each of these is one
action of the promise or a stutter. Needed beside it: a request in flight names
a row (`Busy`) and an unused row is blank (`Blank`).

**Counter.** `BookingStep`: every step leaves the booking alone, is a
`changeStatus` to a status of the staff, or a step of the refund; the refinement
follows at once. `ApprovedIsActedOn` needs that an ended booking never comes back
(`Sane`) and that a clerk who is about to write "approved" has ended it;
`AnswersAgree` that a rejection beside an open approval was recorded
(`Overtaken`); the records that readings are numbered as they are handed in and
that a clerk alone on a sheet has written exactly what its statement says
(`Numbered`, `Clear`, `HalfWay`).

**Locks.** What is said of a program reads only its own work and the table, and
what others may change in the table is bounded by the locks it has (`RowStep`).
No lock has two owners. A program that waits for a row or an insert waits only
for the cleanup job, because the row's car is locked; one that waits for a
session has no lock; those that wait for cars want a larger one than any they
have, so in a circle the one with the largest wanted car has nobody to wait for.

**Jobs.** `Budget`: the mails that left plus those a program or row can still
send are at most one (two for a confirmation). `Tidy`, `Sure` and `Apart` tie
the marks to the rows. Alerts: a reconcile knows what it read (`Informed`), and
takes down only what it listed (`Listed`). `LockStep` and `Holding` give the
locks.

**Payments.** `OrderIsPaid` looks at one row, but an order is written by a
program that read the session, and the link, some statements earlier. `PayInv`
therefore says what everybody who acts on money has in hand. `LinkInv` is about
the links: a session that can be paid is linked (`PayableIsLinked`), a link
names a session of its own reservation, and a checkout request between
superseding the old session and linking the new one keeps the reservation
without a link (`CheckoutInv`). `MoneyInv` is about payments: a finalization in
flight, a staff member who confirms a review, a status that only a payment leads
to, a refund, and an order, live or deleted, each have a session that was paid
for their very reservation. A link is withdrawn only by a
supersession, which takes a hold whose session was not paid, and what a payment
led to is no hold any more. Most steps touch neither Stripe nor the links (`Calm`) and keep the
invariant by `CalmKeeps`; supersede, create, link and Stripe's own moves are
proved one by one.

**Money given back.** `SuccessIsReal` compares a row with a sum over all refunds at
Stripe. `TrueNews`: whatever a request, a worker or an event says has succeeded
has succeeded at Stripe, and once a `charge.refunded` is out the refunds that
succeeded sum to the payment, or some refund was at first pending (`Slow`);
Stripe's sum of both kinds is the sum of the succeeded ones when none is under
way. An event that a worker acts on was taken up (`Held`), so a row that
succeeded on the charge's word can name it for ever after. `Even`: as long as all attempts are for one amount,
each refund that a row, a key or a program knows is of that amount; from the
first differing attempt on the property promises nothing (`Uneven`), and rows
keep their amounts. The sums are folds over finite sets; that a fold exists for every
finite set, does not depend on the order and grows with its terms is proved from
a least counterexample on the sets' sizes, since the library's induction theorems
cannot be instantiated.

**Desk.** Three layers. `TypeInv`: rows and what a clerk read earlier name
reservations that exist. `LinkInv`: a reservation has one order at most, live or
deleted, and a live one follows it; needed because a restore or a delete changes
one of the two. `DeskInv`: blocks of a car are disjoint, an untouched booking owns
its block (`EachOwns`), no two start together on a car (`Apart`), and each booking
block is explained by a booking (`GhostInv`). `Apart` is what makes a block's owner
unique, so that an edit which takes its own block away takes nobody else's. The
purge cuts a block at the latest return that touches it, found as a least element by
well-founded induction (`LatestReturn`); no booking that is out loses its block
by it.

Only model-checked: the five liveness properties (`PaymentIsNoticed`,
`LapsedHoldEnds`, `MoneyIsBooked`, `NoticesSettle`, `AlertsSettle`), since liveness
under fairness is out of the prover's reach, as are ENABLED and induction over
data. Every other property of a passing run is stated by a theorem.

## 5. Plan

1. `CheckoutSession`: one reservation, many tabs, the checkout lock that fails
   fast, attempt numbers, idempotency keys with parameters, the connections the
   lock keeps; refines the promise of at most one payable session.
2. The proofs about it, and an abstract calendar (reserve, move, release, cut)
   that `BookingFinalization` and `OrderCalendar` both implement, as both
   implementations of a refund already keep `RefundPromise`.
3. The cleanup of image files, the last-owner rule of RBAC.

## 6. Not modelled

- *Pricing* (`services/pricing*`, `services/sql/pricingConfigSqlService.js`):
  arithmetic on rates with no state of its own. A booking tells two totals apart
  and nothing more, which `Prices` models. Its seven tables are read without a
  snapshot, so one quote may mix two versions of the rates.
- *Authentication, RBAC, API keys*: data and checks on it. The rule that the
  last owner stays counts without a lock (`services/rbacService.js:148`); login
  throttling is a counter in one process's memory.
- *Realtime updates*: events for the staff's screens from a ring buffer per
  process, best effort; no state of a booking depends on them.
- *Files, images, documents, e-mail templates, PDF*: input, output and layout.
  The cleanup of orphaned images counts only `cars.image`, so photos of damage
  reports are removed with it.
- *Database layer*: a transaction is atomic at its commit; the locks that matter
  are in `HoldLocks` and `JobLock`. Pool metrics and migrations are left out.
- *Middleware, validation, monitoring, analytics, dashboards*: no state.
- *Web front ends*: presentation; the back end is modelled against every order
  of requests they could send. They and the static pages, tests, infrastructure
  and test stubs are most of the repository's lines, which is why the modelled
  share of it is small though the booking core is covered.
- Inside modelled components: orders from before reservations existed, emptying
  the bin, creating and deleting cars, the staff calendar's tasks, travel
  details of a reservation, `expireFinishedOrders`, and code nothing calls
  (`requeuePending`, `purgeOrphaned`).
