# Tribel backend: TLA+ models and proofs

This directory models the backend of Tribel, an Express and Prisma server for
booking beds in shared accommodation: who may hold which bed on which night, what
happens to a booking over its life, how payments and refunds are kept straight
between the database and the payment gateway, what the message queues and the Redis
copies may lose or keep too long, and what happens to tenants, room templates and
pictures. Paths are relative to the root of the repository; the code is under `src/`.

    tlc -config Reservation_handlers.cfg MCReservation # model-check one run
    tlapm ReservationSafetyProofs.tla                  # check the proofs

## 1. Inventory

| Part | State it keeps | Operations | Correct when |
|---|---|---|---|
| Booking policy: `services/booking-state.service.ts`, `lib/dates.ts` | none | `assertX`, `computeBookingPrice`, `normalizeBookingStatus` | the rules are enough for what the handlers do with them |
| Booking engine: `controller/booking.controller.ts`, the exclusion constraint of migration `20260905090000_add_booking_engine_v2` | tables `Booking`, `IdempotencyKey` | create, cancel (guest, admin), approve, reject, assign a bed, move (guest, admin), PATCH, mark as paid | no bed-night is held twice, no template is oversold in the sight of those who book it, one booking per key, price follows dates, endings stay |
| Lifecycle job: `jobs/booking-lifecycle.job.ts` | Redis lock | list, list, update, update under a lock | due bookings that the job sees advance in the end, never wrongly |
| Refund recording: `recordAdminPaymentRefund`, `services/razorpay-refund.service.ts` | table `Refund`, a row lock on `Payment` | lock, check, call the gateway, insert | never more than captured, one refund at a time |
| Refund settlement: `services/refund-ledger.service.ts`, `services/webhook.service.ts`, `jobs/refund-reconciliation.job.ts` | table `Refund`, dedupe keys, Redis lock | webhook, reconciliation, `settleRefund` | the ledger says what the gateway says, settles once, and settles in the end unless a row grows older than 7 days |
| Payments: `controller/razorpay.controller.ts`, `services/webhook.service.ts`, `markAdminPaymentPaid` | table `Payment`, `Booking.paymentStatus`, dedupe keys | order, verify, `order.paid`, `payment.failed`, mark as paid | a captured payment is recorded, reaches a booking it is for, and no late failure takes it back |
| Messaging: `lib/rabbitmq` | RabbitMQ queues, one channel per process, table `Invoice` | publish, consume, retry, dead-letter, number and store an invoice | a message is handled or ends in a dead-letter queue; an invoice keeps its number and its booking knows it |
| Caches: `lib/redis`, the controllers | Redis keys with a time to live | fill on a miss, overwrite, delete | an old copy has a reason its expiry is there for |
| Back office: `controller/tenant`, `property`, `roomTemplate`, `user`, `upload` | their tables, the cached session, the public bucket | onboarding, CRUD, pictures | an admin has a tenant; prices agree; what is shown is stored; a deletion takes nobody else's bookings |
| Locks and rate limit: `lib/redis`, `jobs` | Redis keys | `SET NX EX`, a Lua script | see Reservation and RefundLedger; section 6 |
| Auth0 login, validation, e-mail layout, telemetry | cookies, none | I/O | |

How they interact. All state is in PostgreSQL, Redis, RabbitMQ and the gateway;
handlers of several processes run concurrently and share nothing else. Handlers
call the policy between a read and a write. The RLS-extended client
(`lib/prisma/prisma-rls.ts`) wraps every query in a transaction of its own, so that
a handler is a sequence of separate statements, also where it opens an interactive
transaction on that client (`handleOrderPaid`, `verifyRazorpayPayment`): the batch each
statement is put in replaces the transaction around it. Only `createBooking` and
`recordAdminPaymentRefund` use the plain client and one transaction with a row
lock.

Row-level security decides which rows of `Booking` a statement sees: it is enabled
(`20260216093741_implementing_rls`) and forced (`20260218152334_update_rls_policies`),
and the one policy that lets anybody read or update a booking
(`booking_all_guest_or_admins`, `20260219083058`) asks for the guest's own id, for an
admin of the property's tenant, or for a Super_Admin. Hence a client secured for an
admin sees the bookings of his tenant; one secured for a guest, and the transaction of
`createBooking`, which sets the guest's id and no role, see the guest's own; the plain
client sees none. This depends on the database role behind `APP_DATABASE_URL`, which
the migrations leave open (`20260216093741:7` has an `ALTER ROLE ... BYPASSRLS` in a
comment): the constant `Exempt` of `Reservation` and `Payments` says whether the role is
exempt. It is FALSE where the models follow the migrations, TRUE where a run
asks what would hold if every statement saw what it means to see.

Both cron jobs write the tables handlers write, under a Redis lock with a
time to live that its holder may outlive. The gateway calls back through webhooks,
which may be lost or repeated.

What is hard here: a decision on a row that changes before the write; two counts
before two inserts; a transaction that times out around a call nobody can undo; a
dedupe key set before the work is done; a lock that expires under its holder.
Behind these stand an event that arrives late or in another order, a connection that is
opened once and never again, a copy that is filled while its source changes, and
statements sent in parallel of which one fails. `PROJECT.json` lists each of these under
"hazards" at its line.

## 2. Modules

| Module | What it is |
|---|---|
| `BookingPolicy` | the pure rules as predicates on a booking row and the calendar day |
| `Reservation` | the booking engine and the lifecycle job |
| `BedCalendar` | abstract: bookings exchange bed-nights that nobody else holds |
| `RefundLedger` | refund recording, webhook, reconciliation, and the gateway as an external part |
| `RefundAccount` | abstract: what was paid back per payment grows and stays within what was captured |
| `Payments` | payments of bookings: orders, verification, events, cash, and the gateway as an external part |
| `PaymentAccount` | abstract: a booking is credited once, for good, and only after money came in |
| `Messaging` | both queues with their consumers and workers, and the broker as an external part |
| `Caches` | the Redis copies and the handlers around them, each a program of its awaited steps |
| `BackOffice` | onboarding, properties, room templates, pictures |
| `MC...` | the definitions of the instances TLC checks; `Payments` needs none |
| `...Proofs` | the theorems; those of `Reservation` and of `RefundLedger` are in two modules each |

### Reservation

| Variable | In the system |
|---|---|
| `today` | the calendar day in IST; all date comparisons of the code are on IST day keys |
| `booking` | table `Booking`, with its guest and with the `IdempotencyKey` row of each booking |
| `req` | the handlers in flight: what each has read and still uses, and its next statement |
| `sweep` | the lifecycle sweeps in flight, with the two lists they have read |
| `lock` | Redis key `BookingLifecycle:sweepLock` |

One action is one database statement with the code around it:

| Handler | Actions |
|---|---|
| `createBooking` | `CreateBookingReceive` (key lookup, date checks), `CreateBookingCount` (row lock, and the count of what the guest sees), `CreateBookingCommit` (both inserts and commit) |
| `cancelBooking`, `cancelAdminBooking`, `updateBookingStatus`, wrong signature in `verifyRazorpayPayment` | a `...Read` with its assertion and a `...Write` by id |
| `assignBookingBed` | `AssignBedRead`, `AssignBedCount`, `AssignBedWrite` |
| `updateGuestBookingDates`, `updateAdminBookingDates` | `DateChangeRead`, `DateChangeCount`, `DateChangeWrite` |
| `updateUserBooking` (PATCH) | `PatchRead`, `PatchCount`, `PatchWrite` |
| `markAdminPaymentPaid` | `MarkPaidRead`, `MarkPaidWrite` |
| sweep | `SweepStart`, `SweepListEnded`, `SweepWriteStarted`, `SweepWriteEnded`, `SweepRelease`, `SweepCrash`, `LockExpires` |

`Store` is an UPDATE or INSERT under the exclusion constraint: it takes effect or
is refused. `Abandon` is every other way for a handler to end early, a statement that
row-level security leaves without its row included. `visible(g)` are the bookings guest
`g` sees, `visibleToPlain` those the plain client sees. By the first, `createBooking`
and a guest's move count only the guest's own bookings; by the second, the guest's
cancellation, PATCH and the sweep have no effect unless the role is exempt. The two
capacities of the code are two here as well: `TotalBeds` is `numberOfRooms *
bedsPerRoom`, which a creation compares with, `bedRows` the `Bed` rows that are not
deleted, which a move compares with. What is
abstracted: properties and prices (`nights` stands for the price, which is
a function of it), authorisation, caches, e-mails and invoices. Payment callbacks
that succeed do not touch the fields the properties are about, but for
`paymentStatus` and `paymentMode`, which are in `Payments`. Rows are never deleted here;
the one handler that deletes bookings is in `BackOffice`.

### RefundLedger

| Variable | In the system |
|---|---|
| `gateway` | the gateway's record of each refund; not ours to write but by `GatewayAccepts` |
| `ledger` | table `Refund`; a row with a gateway id is indexed by it, since it is unique |
| `req` | admin requests in flight; `tx` says that the transaction, and with it the row lock, is still open |
| `seen` | Redis keys `webhook:event:<id>`; one event per refund |
| `settle` | calls of `settleRefund` in flight, one per webhook delivery and per reconciliation |
| `job`, `lock` | reconciliations in flight with the rows still to do, and their Redis lock |
| `stuck` | refunds whose row is more than 7 days old; `RowAges` adds a pending one at any time |

The reconciliation passes over stuck rows in this run and in every later one, as the
code does; a webhook still settles them. `RefundCheck` is the transaction up to the gateway call, `GatewayAccepts` the call,
`RefundCommit` the insert and the commit. `TxExpires` is Prisma's 20 second
timeout: the lock is gone while the handler still waits. `SettleRecover` waits for
the row lock because the insert's foreign key does. Assumed of the gateway: it does
not refund more than was captured, an outcome is final, and its answers do not lie.
Abstracted: amounts are whole rupees, and `total` counts them one by one, so that the
proofs can use what the library knows of cardinalities; the 15 minute head start and
the batch size of 50; the 7 day life of a dedupe key; the six month window; several
payments of one booking.

### Payments

| Variable | In the system |
|---|---|
| `gateway` | the gateway's record of each order: its booking, failed attempts, capture |
| `payment` | table `Payment`, by order id, or by an id of its own for cash |
| `booking` | of table `Booking`, `paymentMode`, `paymentStatus` and whether it is cancelled |
| `seen` | Redis keys `webhook:event:<id>`; `order.paid` once per order, `payment.failed` once per attempt |
| `req` | requests in flight, of guests and of admins, with what they have read |
| `delivery` | how far the handler of each event has come; an event is handled once, since `seen` refuses it afterwards |
| `funded` | history: bookings money came in for, by a capture of an order made for them, by a right signature sent with their id, or in cash |
| `torn` | history: payments one of whose handlers died between two statements |

| Handler | Actions |
|---|---|
| `createRazorpayOrder` | `CreateOrderRead`, `CreateOrderPayments`, `CreateOrder` |
| `verifyRazorpayPayment` | `VerifyRead`, then `VerifyRecord` and `VerifyCredit`, or `VerifyReject` and `VerifyFail` |
| `handleOrderPaid` | `WebhookReceive`, `OrderPaidFind`, `OrderPaidRecord`, `OrderPaidCredit` |
| `handlePaymentFailed` | `WebhookReceive`, `PaymentFailedFind`, `PaymentFailedRecord`, `PaymentFailedMark` |
| `markAdminPaymentPaid` | `MarkPaidRead`, then `MarkPaidRecord` and `MarkPaidCredit` in either order: the array holds two statements that are transactions already |
| `cancelBooking` | `CancelRead`, `CancelWrite` |

Two bookings may stand behind one order. `verifyRazorpayPayment` takes the booking from
the request body and does not compare it with the order's, so that `VerifyRead` has any
booking; the signature covers only the order and the payment. The upserts of the webhook
(`Upsert`) leave the booking of a row that exists as it is, while the credit goes to the
booking of the receipt. `paysFor` is both.

Assumed of the gateway: it captures an order once, and a signature is right only if it
did. Abstracted: who may name which booking (a guest names his own), amounts, and the life of a booking after its approval, which is in
`Reservation`.

### Messaging

| Variable | In the system |
|---|---|
| `channel` | the one promise `createRabbitMQConnection` keeps per process, as open or closed |
| `mail`, `task` | where each message of `tribel.email.queue` and `tribel.invoice.queue` is, with the `x-death` count of an e-mail |
| `mailer`, `biller` | what the consumers of each process are doing; `prefetch(1)` gives each one message |
| `sent`, `dlq` | e-mails the provider accepted, and those in `tribel.email.dlq` |
| `invoice`, `linked` | table `Invoice` (the number of the day), and `Booking.invoiceId` |
| `torn`, `breaks` | history, and the bound on faults |

`MailDeliver`, `MailSend`, `MailFail`, `MailGiveUp` and `MailAck` are the e-mail
consumer, `TaskDeliver`, `InvoiceFind`, `InvoiceNumber`, `InvoiceStore`, `InvoiceLink`,
`InvoiceFail` and `TaskAck` the invoice consumer and its worker. `RetryExpires` is the
message's way back from `tribel.email.retry`. `ConnectionCloses` returns what the channel
held while the worker goes on; its `ack` throws then, the `nack` in the exception handler
throws too, and the process goes down (`Restart`). Publishing has no confirm, so a
message may be `lost` on an open channel as well. Abstracted: contents, dates (all
invoices are of one tenant and day, where numbers meet), rendering and upload, which
fail or do not (`InvoiceFail`).

### Caches

| Variable | In the system |
|---|---|
| `db` | the version of each table: how often it was written |
| `cached` | what each key holds: the versions it was made from, and whether they were outdated when it was stored |
| `request` | the handlers in progress: the next step, what the last read and write returned |
| `missed` | history: keys left as they were by a failed request or by a handler that forgets them |
| `overlapped` | history: two requests have been in progress at once |
| `offered` | the handlers of a behaviour, so that TLC need not combine those that share no key |

A handler is a sequence of steps (`Get`, `Read`, `Write`, `Put`, `Fill`, `Del`, `Scan`,
`DelScanned`), as the code awaits them; `Program` lists all of them. `Keeps` says which
tables a key is kept up to date with; what a copy embeds of others (a guest's avatar in
an occupancy window, say) is left to its expiry. Handlers that clear the same keys after
one write are represented by `cancelBooking`.

### BackOffice

| Variable | In the system |
|---|---|
| `role`, `session`, `tenants` | `User.role`, the role in `session:<sub>`, table `Tenant` |
| `owner`, `deleted`, `template`, `booking` | tables `Property`, `RoomTemplate` with the price of its `Room` rows, `Booking` |
| `picture`, `stored`, `upload` | `User.avatar` and `Tenant.profile`, the objects in the bucket, and what became of each key given out |
| `request`, `broken` | requests in flight, and the history of those that broke off |

`SessionGet`, `SessionQuery`, `SessionSet` are the middleware in front of `createTenant`,
which may store an older role than the one `createTenant` stores, and `CreateTenant`,
`TenantPromote`, `TenantSession`, `TenantCreate` are `createTenant`;
`UpdateRoomTemplate` and `UpdatePrices` (twice, in any order) `updateRoomTemplate`;
`DeleteRoomTemplate`, then `DeleteOwnBookings` in parallel with `ReadRoomTemplate`, then
`AuthoriseDelete` and `DeleteRooms`, `deleteRoomTemplate`; `PictureRead`, `PictureWrite`,
`PictureDiscard` both `updateAvatar` and `updateTenantProfile`. Handlers of one write
whose reads cannot change in between are one action. Abstracted: descriptive columns,
numbers of rooms and beds.

## 3. Runs

Bounds are small, but each run is built around an interleaving it must contain.
Symmetry is used for request slots, rows, keys and ids in runs without liveness, since
nothing distinguishes them.

| Run | Checks | Instance and why it is enough |
|---|---|---|
| `handlers` | `TypeOK`, `BedExclusive`, `PriceMatchesDates`, `KeepsBedCalendar`, `TerminalUndoneOnlyByStaleDecision` | 2 bookings of 2 guests, 1 bed and 1 out of use, 2 handlers of every operation but the payment in cash, stays of one and two nights that overlap, midnight in between; under row-level security. A conflict is between two rows and two handlers |
| `capacity` | `NoOversellInView`, `OneBookingPerKey` | 3 bookings of 2 guests for 2 beds, 2 creations at once, perhaps of one key, stays that overlap; under row-level security |
| `sweep` | `StayHasBed`, `SweepCatchesUp` | 2 sweepers, crashes, expiring lock, 3 days; an exempt role, and with it the two handlers that write for no other, PATCH and the guest's cancellation |
| `online` | `TypeOK`, `OnePendingPerPayment`, `LedgerFollowsGateway`, `SettledIsFinal`, `KeepsRefundAccount` | 2 rupees paid online with 2 gateway refunds, so that partial, failed and repeated refunds occur, and 1 rupee paid offline that 2 requests may refund; 1 delivery, 1 reconciliation |
| `settle` | `PendingIsSettled` | 2 reconciliations and a delivery on one refund, whose row may grow old at any time |
| `captured` | `TypeOK`, `PaymentReachesBooking`, `KeepsPaymentAccount`, `PaidCashCancelledOnlyByStaleGuest`, `CaptureIsRecorded` | 2 bookings and 1 order, so that a client may name either with it; the order may fail once before it is paid, so that both events race, each with its own handler; 1 payment in cash; a request of a guest and one of an admin at a time. Two verifications or two admins at once are left to the theorems |
| `queues` | `TypeOK`, `AckedIsDone`, `GivenUpAfterThree`, `InvoiceIsLinked`, `RenumberedOnlyByOverlap`, `MessagesSettle` | 2 processes of which one breaks once, so that a message is worked on twice at a time; 1 e-mail through all its attempts; 2 invoices that compete for a number |
| `copies` | `TypeOK`, `NoForgottenInvalidation`, `FreshAtRest` | 2 requests at a time, 2 writes per table, all handlers that share a key with each other: a copy goes wrong between one reader or writer and another writer |
| `office` | `TypeOK`, `AdminHasTenant`, `RoomsPricedAsTemplate`, `PictureIsStored`, `OthersBookingsStay` | 2 users, 2 templates of a property, 2 bookings, 2 pictures, 2 prices, 2 requests; onboarding (with the session between its statements), inventory and pictures are not mixed, since they share no state but `tenants` |

These runs pass. The following ones find what documents or comments say and the
code does not do; each is a finding in `PROJECT.json`:

| Run | The code does |
|---|---|
| `oversell` | two guests book the one bed of a template, one after the other: the second count does not see the first booking |
| `blindSweep` | a confirmed booking with a bed stays CONFIRMED for good: the sweep's client sees no booking |
| `aggregate` | an order that fails first and is paid then leaves a PAID row and a FAILED booking: the guard of `order.paid`'s second update finds no PENDING booking |

`oversell` and `blindSweep` have `Exempt` FALSE. What is left under row-level security is
`NoOversellInView` (`capacity`): capacity holds among the bookings a guest sees. With an
exempt role `SweepCatchesUp` passes (`sweep`) and `NoOversell` is a theorem for creations, which no run repeats.
`handlers` has every write of a guest and an admin, but PATCH and the guest's cancellation
end there without their write; the writes of both occur in `sweep`, and the bed calendar
is proved for all of them and for either value of `Exempt`. `captured` has an exempt
role, so that the race with a guest's cancellation is in it.

In `CHECK_DEADLOCK FALSE` runs an instance really stops: its rows, keys and ids are used
up, its calendar is at its end, or every connection is closed. Bounds are the constants
`MaxDay`, `Bookings`, `Guests`, `Beds`, `TotalBeds`, `Requests`, `GuestRequests`,
`AdminRequests`, `Stays`, `GatewayRefunds`, `MaxFailures`, `MaxBreaks` and `MaxVersion`; the
calendar stops at `MaxDay`, attempts to pay at `MaxFailures`, faults at `MaxBreaks`, writes
of a table at `MaxVersion`.

### Fairness

`SweepFairness` and `ReconciliationFairness`: the cron fires again and again, also at
every start of a process; a Redis key with a time to live expires; a job whose
queries are tried again and again does not fail each time (strong fairness, because
a crash may interrupt it, and because two processes compete for one lock). It asks for no
more than that a query is answered: a sweep that sees no rows lists none (`blindSweep`),
and a row older than 7 days is in no batch, so that `PendingIsSettled` ends there.
`WebhookFairness`: the gateway delivers `order.paid` at least once, which is what it
promises, and a handler goes on to its answer unless it dies. `ConsumerFairness`: a
message waits 30 seconds in the retry queue and no longer, and a consumer with an open
channel takes what is ready and goes on; faults are bounded by `MaxBreaks`, so that they
cease. Clients and admins are under no obligation anywhere.

## 4. Proofs

All theorems hold for any number of bookings, beds, orders, messages, processes, users,
handlers and amounts, under the named assumptions on the constants
(`ReservationAssumption`, `RefundAssumption`, `PaymentAssumption`, `MessagingAssumption`,
`BackOfficeAssumption`, `CachesAssumption`).

| Theorem | States | Argument |
|---|---|---|
| `TypeCorrect` | `[]TypeOK` | inductive only with `SlotsRemember`: a handler holds the id of a row that exists, since rows are not deleted |
| `ReservationKeepsBedCalendar` | refinement of `BedCalendar` | every write is of one row and passed `admissible`, so the nights it takes are free; the sweep's updates only keep or give back |
| `NoBedSoldTwice` | `[]BedExclusive` | from the refinement and the invariant of `BedCalendar` |
| `CreationsDoNotOversellInView` | `[]NoOversellInView` if `Traffic` brings back and moves nothing | `CapacityInv`: while a creation is between its count and its insert it holds the template lock, and the occupants its guest sees can only leave. This strengthening is the whole argument for the row lock |
| `ExemptCreationsDoNotOversell` | `[]NoOversell` if moreover `Exempt` | then a guest sees everything, and it follows from the theorem before. `oversell` shows that it cannot be had without |
| `RetriesCreateOneBooking` | `[]OneBookingPerKey` | uniqueness of the key at the insert, and no other write of `key` |
| `StaysHaveBeds` | `[]StayHasBed` | the lists of a sweep hold only bookings with beds, and a bed is never taken away |
| `PriceFollowsDates` | `[]PriceMatchesDates` without PATCH, or without an exempt role | every other write of the dates writes the price, and PATCH finds no booking |
| `EndingsUndoneOnlyByStaleDecisions` | the action property | a slot remembers the active status it decided on |
| `RefundTypeCorrect` | `[]TypeOK` | |
| `OnePendingRefund` | `[]OnePendingPerPayment` | `LockedPaymentsQuiet`: while a transaction is open no refund of its payment is pending and no other transaction on it is open; settlements never write PENDING |
| `LedgerAgrees` | `[]LedgerFollowsGateway` | `RequestsFollow` and `CallsFollow`: every copy of what the gateway said, in a request or between read and write of a settlement, agrees with the gateway |
| `SettlingIsFinal` | the action property | from the same invariant: a second, stale settlement writes the outcome that is there already |
| `RefundAccountKept`, `NeverMoreThanCaptured` | refinement of `RefundAccount`, and its `[]Within` | `MoneyInv`. Online the gateway keeps the balance (`GatewayWithin`, which rests on what is assumed of it), and the rows that say PROCESSED are among its own refunds (`PaidBackMoved`, from `LedgerFollowsGateway`), so a row that a webhook recovers or a settlement writes needs no check. Offline the row lock keeps it: `OfflineChecked` says that the balance an open transaction has checked still holds when it inserts. Each step adds one row to the sum or none |
| `PaymentTypeCorrect`, `PaymentReaches` | `[]TypeOK`, `[]PaymentReachesBooking` | with `SlotInv`: a handler in flight holds an order the gateway knows, or the row it has inserted. Every write of a PAID row has its handler in front of the credit of a booking the row is for, or, in cash, after it, and no credit leaves PENDING |
| `PaymentAccountKept` | refinement of `PaymentAccount` | `SlotInv` also has the money behind a handler that credits: the booking it is about to credit is in `funded`, which only grows; marks of failure ask for PENDING |
| `PaidCashCancelled` | the action property | `SawOnline`: what a cancellation read allowed it, so a booking paid in cash by now was not read as paid |
| `MessagingTypeCorrect`, `GivenUpAfterThreeRejections` | `[]TypeOK`, `[]GivenUpAfterThree` | `MailInv`, in which `MailHeld` says that a held message has one consumer with an open channel: whoever is about to send has fewer than three rejections, whoever gives up has three, and nobody else moves the count |
| `AcknowledgedIsDone` | `[]AckedIsDone` | a consumer in front of its `ack` has done the work, which nothing undoes |
| `InvoiceLinked`, `InvoiceRenumbered` | `[]InvoiceIsLinked`, the action property | `BillInv`: what a worker is about to link exists, and one about to store looked when there was no invoice |
| `BackOfficeTypeCorrect`, `AdminsHaveTenants` | `[]TypeOK`, `[]AdminHasTenant` | `SlotInv`: each stage belongs to its operation, and the session and creation stages to a promoted user |
| `RoomsArePriced` | `[]RoomsPricedAsTemplate` | `PriceInv`: `OnePrice` says that unbroken templates have at most one update under way, `halfway` what it has written so far |
| `PicturesAreStored` | `[]PictureIsStored` | `PictureInv`: a key sent once is in one place, a request or a picture (`OneCarrier`), and one not sent is nowhere (`Unused`); so what a request discards is shown by nobody |
| `OthersBookings` | the action property | `RowInv`: bookings refer to templates that are there, since the deletion is refused while one does |
| `CachesTyped`, `NoneForgotten` | `[]TypeOK`, `[]NoForgottenInvalidation` | `ProgramsSound`, one lemma per handler: a write is followed by a step for each key it makes outdated, but for those `forgets` names. Then `Explained` is inductive: a request that made a copy outdated answers for it until it sets or deletes the key, or fails and leaves it in `missed`. A handler that gains a write, or loses a delete, makes one lemma false |
| `AloneIsFresh` | `[]FreshAtRest` | with `AloneInv` as long as no two requests have overlapped: what the request in progress is about to store agrees with the tables, so that no copy is late; the rest is `Explained` with nobody left to answer |

Only model-checked: the liveness properties (`SweepCatchesUp`, `PendingIsSettled`,
`CaptureIsRecorded`, `MessagesSettle`), since fairness and ENABLED are out of the
prover's reach. Every other property of a passing run is stated by a theorem.

## 5. Where the code and its description part

Besides the three findings, the models contain these behaviours. Where a property names an
exception, this is why.

Row-level security:
- Unless the role of `APP_DATABASE_URL` is exempt, creations of different guests oversell
  a template (`oversell`), the lifecycle job does nothing (`blindSweep`), and a guest's
  cancellation and PATCH fail, the one in its update by the plain client, the other in its
  first read. `README.md:381` names `adminDB` for background work; no module imports it.
- A guest's move counts his own bookings only. The bed is safe all the same, by the
  exclusion constraint; the capacity of the template is not.
- `README.md` says a trigger rejects direct role changes; it rejects Super_Admin alone, as
  onboarding needs.

Bookings and refunds:
- A move of a booking that has a bed looks at the bed alone and takes no template lock
  (`applyBookingDateChange`): it may oversell a night whose last bed was sold to a booking
  that has no bed yet, which `booking.controller.ts:73-77` says the lock prevents. The
  theorems about capacity exclude moves and approvals of cancelled bookings for this reason.
- A creation compares with `numberOfRooms * bedsPerRoom`, a move with the `Bed` rows that
  are not deleted. The two may differ.
- `docs/booking-system-blueprint.md:65-66` calls CANCELLED and REJECTED terminal; an
  approval that read PENDING overwrites a cancellation by id
  (`TerminalUndoneOnlyByStaleDecision`). The wrong-signature branch of
  `verifyRazorpayPayment` cancels a booking in whatever status, a completed stay included.
- A stay an admin extends between list and update of the sweep is completed early,
  against the comment at `services/booking-state.service.ts:395-399`.
- PATCH `/:bookingId` moves the dates and leaves `totalPrice`: with an exempt role
  `PriceMatchesDates` is violated by it, without one it never gets that far. It answers
  from `UserBookings:<id>`, a key nobody writes: it stores under `UserBooking:<id>`.
- A rolled-back refund transaction leaves a refund under way at the gateway that no later
  request sees, although `services/booking-state.service.ts:239` says one at a time.
- A refund still PENDING after 7 days is skipped by every later reconciliation
  (`PendingIsSettled` names `stuck`), although the job's comment
  (`jobs/refund-reconciliation.job.ts:27-34`) promises that no row stays PENDING forever for
  want of a webhook.
- An event whose handling fails after its dedupe key was set is dropped for good: a refund
  without a row stays without one (`services/webhook.service.ts:269-270` says otherwise),
  and so does a captured order (`CaptureIsRecorded` excepts `torn`).

Payments:
- The booking of a verification is the client's word. A verification that names another
  booking than the order's records its row with that booking; `order.paid` of the order
  keeps the row's booking and credits the receipt's. So one capture may credit two
  bookings, or a PAID row stand with a booking that is PENDING: `PaymentReachesBooking`
  promises one of the bookings the row is for, `KeepsPaymentAccount` counts what came in
  with a right signature for the booking it named.
- `README.md` says that the order reference is stored on the payment record when an order
  is created; nothing is stored before the payment.
- Two admins who mark a booking as paid at once create two PAID rows; the booking is
  credited once (`KeepsPaymentAccount`). A late `payment.failed` may take a PAID row back
  to FAILED, not the booking.
- A guest's cancellation that read PENDING cancels a booking paid in cash in between.

Messaging:
- The README promises a retry for both queues. A failed invoice message goes to
  `tribel.invoice.dlq` at once; `tribel.invoice.retry` is fed by nobody and returns to a
  routing key nothing is bound to, so the branch for three retries is never taken.
- A process whose connection closed never opens another (`MessagesSettle` excepts
  `deaf`). A dead-letter message whose acknowledgement is lost is published twice.
- A worker that fails after the upsert leaves `Booking.invoiceId` empty for good, since
  the repeated message finds the invoice and returns (`InvoiceIsLinked` excepts `torn`).

Caches:
- Eight handlers forget a key (`forgets`): six change bookings and leave the occupancy
  windows to their 300 seconds, `createBooking` deletes `user:<id>` instead of
  `user:<sub>`, and `loginUser` writes the e-mail and leaves `session:<sub>` with the old
  one, even when nothing else happens. TLC finds `NoForgottenInvalidation` violated when
  any one of them is taken off that list.
- A read that overlaps with a write, and two writers that store in the other order, leave
  an old copy for its time to live (`late`); it takes two requests (`FreshAtRest`).
  `AdminBookings:<id>` is written and deleted, and never read. `getTenantDetail` throws for a cached user who has no tenant.

Back office:
- An onboarding that breaks off leaves an admin without a tenant (`AdminHasTenant` names
  it), whom `createTenant` refuses once the session says Admin. The middleware may also
  store an older role over the one `createTenant` stored: an admin with a tenant whose
  session says Guest for an hour, and whose next request for a tenant is refused only
  after its role was written again.
- A refused deletion of a room template has deleted the caller's own bookings of the
  property (`OthersBookingsStay`).
- A request that sends the key of the picture it replaces, a retry for one, deletes the
  picture it shows (`PictureIsStored` excepts keys sent twice).

## 6. Not modelled

- The batch of 50 of the reconciliation: it is filled with the oldest rows, stuck ones
  included, so that 50 stuck rows keep every younger row out, which needs more rows than
  TLC can enumerate. `PendingIsSettled` is about fewer.
- Prorated settlements and the refund summary of a booking: sums without a protocol, with
  unit tests of their own.
- The rate limit: one atomic script on one sorted set per key, with which nothing
  interleaves. `lib/redis/redis-lock.ts` is imported by nobody.
- RLS policies but that of `Booking` and the effect of a secured client on transactions;
  Auth0 login, cookies and redirects; request validation, which appears as the sets the
  constants range over; reads and signed URLs of invoices; e-mail and invoice layout;
  logging and telemetry.
- `Payments` and `RefundLedger` share only rows that are PAID, and are not composed: a
  refund starts from a captured payment, and nothing in `Payments` reads a refund.
