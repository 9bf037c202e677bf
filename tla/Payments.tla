------------------------------ MODULE Payments ------------------------------
(***************************************************************************)
(* Payments of bookings: orders and their verification by the client        *)
(* (controller/razorpay.controller.ts), the events order.paid and           *)
(* payment.failed (services/webhook.service.ts), payments in cash           *)
(* (markAdminPaymentPaid) and the guest's cancellation, which depends on    *)
(* them (controller/booking.controller.ts).                                 *)
(*                                                                         *)
(* A secured client runs every statement in a transaction of its own, so    *)
(* that the row of a payment and the status of its booking are written one   *)
(* after the other.  The table of payments is a function of order ids,      *)
(* which are unique in it, and of the ids of rows for cash.                 *)
(***************************************************************************)
EXTENDS Naturals, FiniteSets

CONSTANTS
  Bookings,     \* bookings, as createBooking left them
  Orders,       \* order ids the gateway may come to issue
  CashRows,     \* rows payments in cash may come to take
  Exempt,       \* whether the database role is exempt from row-level security
  GuestRequests, \* requests of guests in flight at once
  AdminRequests, \* requests of admins in flight at once
  MaxFailures,  \* bound: failed attempts to pay an order
  None          \* null

Rows == Orders \cup CashRows

Requests == GuestRequests \cup AdminRequests

ASSUME PaymentAssumption ==
  /\ Orders \cap CashRows = {}
  /\ MaxFailures \in Nat
  /\ Exempt \in BOOLEAN
  /\ None \notin Bookings \cup Rows

VARIABLES
  gateway,   \* the gateway's own record of every order
  payment,   \* the Payment table
  booking,   \* of each Booking row, what payments read and write
  seen,      \* events whose Redis key webhook:event:<id> is set
  req,       \* what every request in flight is doing
  delivery,  \* how far the handler of every event has come
  funded,    \* history: bookings money came in for
  torn       \* history: rows one of whose handlers died half-way

vars == <<gateway, payment, booking, seen, req, delivery, funded, torn>>

-----------------------------------------------------------------------------
(* The tables. *)

NoOrder == [booking |-> None, captured |-> FALSE, failures |-> 0]

OrderRow == [booking : Bookings \cup {None}, captured : BOOLEAN,
             failures : 0 .. MaxFailures]

NoPayment == [st |-> "NONE", booking |-> None]

PaymentRow == [st : {"NONE", "PAID", "FAILED"}, booking : Bookings \cup {None}]

\* Statuses a booking is in before its stay: it waits for approval, or has been
\* cancelled.
BookingRow == [mode : {"ONLINE", "OFFLINE"}, pay : {"PENDING", "PAID", "FAILED"},
               status : {"PENDING", "CANCELLED"}]

Record(row, b, st) == payment' = [payment EXCEPT ![row] = [st |-> st, booking |-> b]]

\* The upserts of the webhook: a row that exists keeps its booking.
Upsert(o, st) ==
  Record(o, IF payment[o].st = "NONE" THEN gateway[o].booking ELSE payment[o].booking, st)

paidRows(b) == {row \in Rows : payment[row].booking = b /\ payment[row].st = "PAID"}

-----------------------------------------------------------------------------
(* Requests. *)

Idle == [stage |-> "idle", booking |-> None, row |-> None, saw |-> "PENDING"]

RequestSlot ==
  [stage : {"idle", "payments", "order", "record", "credit", "reject", "fail",
            "cash", "creditCash", "recordCash", "cancel"},
   booking : Bookings \cup {None}, row : Rows \cup {None},
   saw : {"PENDING", "PAID", "FAILED"}]     \* paymentStatus, as cancelBooking read it

Begin(r, stage, b, row) ==
  /\ req[r].stage = "idle"
  /\ req' = [req EXCEPT ![r] = [stage |-> stage, booking |-> b, row |-> row,
                                saw |-> IF stage = "cancel" THEN booking[b].pay
                                        ELSE "PENDING"]]

Goto(r, stage) == req' = [req EXCEPT ![r].stage = stage]

Respond(r) == req' = [req EXCEPT ![r] = Idle]

\* createRazorpayOrder: reads the booking, then its payments, then calls the
\* gateway.  Nothing is stored.
CreateOrderRead(r, b) ==
  /\ booking[b].pay # "PAID"
  /\ Begin(r, "payments", b, None)
  /\ UNCHANGED <<gateway, payment, booking, seen, delivery, funded, torn>>

CreateOrderPayments(r) ==
  /\ req[r].stage = "payments"
  /\ IF paidRows(req[r].booking) = {} THEN Goto(r, "order") ELSE Respond(r)
  /\ UNCHANGED <<gateway, payment, booking, seen, delivery, funded, torn>>

CreateOrder(r, o) ==
  /\ req[r].stage = "order"
  /\ gateway[o] = NoOrder
  /\ gateway' = [gateway EXCEPT ![o].booking = req[r].booking]
  /\ Respond(r)
  /\ UNCHANGED <<payment, booking, seen, delivery, funded, torn>>

\* verifyRazorpayPayment.  The order and the booking come from the client, and one is
\* not compared with the other.  The signature is right only if the gateway took the
\* money; it may be wrong in any case.
VerifyRead(r, o, b, genuine) ==
  /\ gateway[o].booking # None
  /\ payment[o].st = "NONE"          \* else answered from the row
  /\ genuine => gateway[o].captured
  /\ Begin(r, IF genuine THEN "record" ELSE "reject", b, o)
  /\ funded' = IF genuine THEN funded \cup {b} ELSE funded
  /\ UNCHANGED <<gateway, payment, booking, seen, delivery, torn>>

\* Two inserts of one order id: the second one throws.
VerifyRecord(r) ==
  LET o == req[r].row
  IN /\ req[r].stage = "record"
     /\ IF payment[o].st = "NONE"
        THEN Record(o, req[r].booking, "PAID") /\ Goto(r, "credit")
        ELSE UNCHANGED payment /\ Respond(r)
     /\ UNCHANGED <<gateway, booking, seen, delivery, funded, torn>>

VerifyCredit(r) ==
  /\ req[r].stage = "credit"
  /\ booking' = [booking EXCEPT ![req[r].booking].pay = "PAID",
                                ![req[r].booking].mode = "ONLINE"]
  /\ Respond(r)
  /\ UNCHANGED <<gateway, payment, seen, delivery, funded, torn>>

\* A wrong signature cancels the booking, then records a failed payment.
VerifyReject(r) ==
  /\ req[r].stage = "reject"
  /\ booking' = [booking EXCEPT ![req[r].booking].status = "CANCELLED"]
  /\ Goto(r, "fail")
  /\ UNCHANGED <<gateway, payment, seen, delivery, funded, torn>>

VerifyFail(r) ==
  /\ req[r].stage = "fail"
  /\ IF payment[req[r].row].st = "NONE"
     THEN Record(req[r].row, req[r].booking, "FAILED")
     ELSE UNCHANGED payment
  /\ Respond(r)
  /\ UNCHANGED <<gateway, booking, seen, delivery, funded, torn>>

assertMarkPaidAllowed(b) == booking[b].mode = "OFFLINE" /\ booking[b].pay = "PENDING"

\* markAdminPaymentPaid: the admin says that the money came in.
MarkPaidRead(r, b) ==
  /\ assertMarkPaidAllowed(b)
  /\ Begin(r, "cash", b, None)
  /\ funded' = funded \cup {b}
  /\ UNCHANGED <<gateway, payment, booking, seen, delivery, torn>>

\* The two statements are sent at once, each in a transaction of its own, and end in
\* either order.  A new row each time: no column of it is unique.
MarkPaidRecord(r, row) ==
  /\ req[r].stage \in {"cash", "recordCash"}
  /\ payment[row] = NoPayment
  /\ Record(row, req[r].booking, "PAID")
  /\ IF req[r].stage = "cash"
     THEN req' = [req EXCEPT ![r].stage = "creditCash", ![r].row = row]
     ELSE Respond(r)
  /\ UNCHANGED <<gateway, booking, seen, delivery, funded, torn>>

\* A mutant for the checks: the payment waits for an approval nobody gives.
MarkPaidCreditLater(r) ==
  /\ req[r].stage = "creditCash"
  /\ booking' = [booking EXCEPT ![req[r].booking].pay = "PENDING_APPROVAL"]
  /\ Respond(r)
  /\ UNCHANGED <<gateway, payment, seen, delivery, funded, torn>>

MarkPaidCredit(r) ==
  /\ req[r].stage \in {"cash", "creditCash"}
  /\ booking' = [booking EXCEPT ![req[r].booking].pay = "PAID"]
  /\ IF req[r].stage = "cash" THEN Goto(r, "recordCash") ELSE Respond(r)
  /\ UNCHANGED <<gateway, payment, seen, delivery, funded, torn>>

\* A mutant for the checks: the rule about paid offline bookings is missing.
assertPending(b) == booking[b].status = "PENDING"

\* Before the stay, which is all this module knows of.
assertGuestCancellable(b) ==
  /\ booking[b].status = "PENDING"
  /\ ~(booking[b].mode = "OFFLINE" /\ booking[b].pay = "PAID")

\* cancelBooking
CancelRead(r, b) ==
  /\ assertGuestCancellable(b)
  /\ Begin(r, "cancel", b, None)
  /\ UNCHANGED <<gateway, payment, booking, seen, delivery, funded, torn>>

\* The update runs without the guest's identity: row-level security hides the row
\* from it, and it throws.
CancelWrite(r) ==
  /\ Exempt
  /\ req[r].stage = "cancel"
  /\ booking' = [booking EXCEPT ![req[r].booking].status = "CANCELLED"]
  /\ Respond(r)
  /\ UNCHANGED <<gateway, payment, seen, delivery, funded, torn>>

\* A statement throws or the process dies; the client gets no answer.
RequestDies(r) ==
  /\ req[r].stage # "idle"
  /\ torn' = IF req[r].stage \in {"credit", "creditCash"}
             THEN torn \cup {req[r].row} ELSE torn
  /\ Respond(r)
  /\ UNCHANGED <<gateway, payment, booking, seen, delivery, funded>>

-----------------------------------------------------------------------------
(* The gateway, and the events it delivers until they are answered, or never. *)

\* A guest may try several times to pay one order; it is captured once.
GatewayFails(o) ==
  /\ gateway[o].booking # None /\ ~gateway[o].captured
  /\ gateway[o].failures < MaxFailures
  /\ gateway' = [gateway EXCEPT ![o].failures = @ + 1]
  /\ UNCHANGED <<payment, booking, seen, req, delivery, funded, torn>>

GatewayCaptures(o) ==
  /\ gateway[o].booking # None /\ ~gateway[o].captured
  /\ gateway' = [gateway EXCEPT ![o].captured = TRUE]
  /\ funded' = funded \cup {gateway[o].booking}
  /\ UNCHANGED <<payment, booking, seen, req, delivery, torn>>

\* <<o, 0>> is order.paid of order o, <<o, n>> payment.failed of its n-th failed
\* attempt.
Events == Orders \X (0 .. MaxFailures)

emitted(e) == IF e[2] = 0 THEN gateway[e[1]].captured
              ELSE e[2] <= gateway[e[1]].failures

DeliveryStage == {"idle", "paid", "capture", "credit", "failed", "fail", "mark"}

Continue(e, stage) == delivery' = [delivery EXCEPT ![e] = stage]

\* processWebhookEvent marks the event as seen, then handles it.  Later deliveries of
\* it are duplicates, so that no event is handled twice.
WebhookReceive(e) ==
  /\ emitted(e) /\ e \notin seen
  /\ seen' = seen \cup {e}
  /\ Continue(e, IF e[2] = 0 THEN "paid" ELSE "failed")
  /\ UNCHANGED <<gateway, payment, booking, req, funded, torn>>

\* A mutant for the checks: an order that has a row is taken for handled.
OrderPaidFindAny(e) ==
  /\ delivery[e] = "paid"
  /\ Continue(e, IF payment[e[1]].st # "NONE" THEN "idle" ELSE "capture")
  /\ UNCHANGED <<gateway, payment, booking, seen, req, funded, torn>>

\* handleOrderPaid: find the row, upsert it, credit the booking.
OrderPaidFind(e) ==
  /\ delivery[e] = "paid"
  /\ Continue(e, IF payment[e[1]].st = "PAID" THEN "idle" ELSE "capture")
  /\ UNCHANGED <<gateway, payment, booking, seen, req, funded, torn>>

OrderPaidRecord(e) ==
  /\ delivery[e] = "capture"
  /\ Upsert(e[1], "PAID")
  /\ Continue(e, "credit")
  /\ UNCHANGED <<gateway, booking, seen, req, funded, torn>>

\* A mutant for the checks: only bookings to be paid online are credited.
OrderPaidCreditOnline(e) ==
  LET b == gateway[e[1]].booking
  IN /\ delivery[e] = "credit"
     /\ booking' = IF booking[b].pay = "PENDING" /\ booking[b].mode = "ONLINE"
                   THEN [booking EXCEPT ![b].pay = "PAID"] ELSE booking
     /\ Continue(e, "idle")
     /\ UNCHANGED <<gateway, payment, seen, req, funded, torn>>

\* Updates the booking of the receipt if it is PENDING; otherwise update throws, no row
\* being found, and the row of the payment stays as it is.
OrderPaidCredit(e) ==
  LET b == gateway[e[1]].booking
  IN /\ delivery[e] = "credit"
     /\ booking' = IF booking[b].pay = "PENDING"
                   THEN [booking EXCEPT ![b].pay = "PAID", ![b].mode = "ONLINE"]
                   ELSE booking
     /\ Continue(e, "idle")
     /\ UNCHANGED <<gateway, payment, seen, req, funded, torn>>

\* handlePaymentFailed: find the row, upsert it, mark the booking.
PaymentFailedFind(e) ==
  /\ delivery[e] = "failed"
  /\ Continue(e, IF payment[e[1]].st = "PAID" THEN "idle" ELSE "fail")
  /\ UNCHANGED <<gateway, payment, booking, seen, req, funded, torn>>

\* The upsert also takes a row that has become PAID since it was read.
PaymentFailedRecord(e) ==
  /\ delivery[e] = "fail"
  /\ Upsert(e[1], "FAILED")
  /\ Continue(e, "mark")
  /\ UNCHANGED <<gateway, booking, seen, req, funded, torn>>

\* A mutant for the checks: the booking is marked whatever its status is.
PaymentFailedMarkAny(e) ==
  /\ delivery[e] = "mark"
  /\ booking' = [booking EXCEPT ![gateway[e[1]].booking].pay = "FAILED"]
  /\ Continue(e, "idle")
  /\ UNCHANGED <<gateway, payment, seen, req, funded, torn>>

PaymentFailedMark(e) ==
  LET b == gateway[e[1]].booking
  IN /\ delivery[e] = "mark"
     /\ booking' = IF booking[b].pay = "PENDING"
                   THEN [booking EXCEPT ![b].pay = "FAILED"] ELSE booking
     /\ Continue(e, "idle")
     /\ UNCHANGED <<gateway, payment, seen, req, funded, torn>>

\* A statement throws or the process dies.
DeliveryDies(e) ==
  /\ delivery[e] # "idle"
  /\ torn' = torn \cup {e[1]}
  /\ Continue(e, "idle")
  /\ UNCHANGED <<gateway, payment, booking, seen, req, funded>>

-----------------------------------------------------------------------------

Init ==
  /\ gateway = [o \in Orders |-> NoOrder]
  /\ payment = [row \in Rows |-> NoPayment]
  /\ \E mode \in [Bookings -> {"ONLINE", "OFFLINE"}] :
       booking = [b \in Bookings |->
                    [mode |-> mode[b], pay |-> "PENDING", status |-> "PENDING"]]
  /\ seen = {}
  /\ req = [r \in Requests |-> Idle]
  /\ delivery = [e \in Events |-> "idle"]
  /\ funded = {} /\ torn = {}

createRazorpayOrder(r) ==
  \/ \E b \in Bookings : CreateOrderRead(r, b)
  \/ CreateOrderPayments(r)
  \/ \E o \in Orders : CreateOrder(r, o)

verifyRazorpayPayment(r) ==
  \/ \E o \in Orders, b \in Bookings, genuine \in BOOLEAN : VerifyRead(r, o, b, genuine)
  \/ VerifyRecord(r) \/ VerifyCredit(r)
  \/ VerifyReject(r) \/ VerifyFail(r)

markAdminPaymentPaid(r) ==
  \/ \E b \in Bookings : MarkPaidRead(r, b)
  \/ \E row \in CashRows : MarkPaidRecord(r, row)
  \/ MarkPaidCredit(r)

cancelBooking(r) == (\E b \in Bookings : CancelRead(r, b)) \/ CancelWrite(r)

handleOrderPaid(e) == OrderPaidFind(e) \/ OrderPaidRecord(e) \/ OrderPaidCredit(e)

handlePaymentFailed(e) ==
  PaymentFailedFind(e) \/ PaymentFailedRecord(e) \/ PaymentFailedMark(e)

Request(r) ==
  \/ /\ r \in GuestRequests
     /\ createRazorpayOrder(r) \/ verifyRazorpayPayment(r) \/ cancelBooking(r)
  \/ r \in AdminRequests /\ markAdminPaymentPaid(r)
  \/ RequestDies(r)

Webhook(e) ==
  \/ WebhookReceive(e)
  \/ handleOrderPaid(e) \/ handlePaymentFailed(e)
  \/ DeliveryDies(e)

Next ==
  \/ \E r \in Requests : Request(r)
  \/ \E e \in Events : Webhook(e)
  \/ \E o \in Orders : GatewayFails(o) \/ GatewayCaptures(o)

Spec == Init /\ [][Next]_vars

\* The gateway delivers order.paid at least once, and its handler goes on until it
\* answers or dies.  Nothing is assumed of payment.failed, of guests and of admins.
WebhookFairness ==
  \A o \in Orders : /\ WF_vars(WebhookReceive(<<o, 0>>))
                    /\ WF_vars(handleOrderPaid(<<o, 0>>))

FairSpec == Spec /\ WebhookFairness

-----------------------------------------------------------------------------
(* What must hold. *)

TypeOK ==
  /\ gateway \in [Orders -> OrderRow]
  /\ payment \in [Rows -> PaymentRow]
  /\ booking \in [Bookings -> BookingRow]
  /\ seen \in SUBSET Events
  /\ req \in [Requests -> RequestSlot]
  /\ delivery \in [Events -> DeliveryStage]
  /\ funded \in SUBSET Bookings
  /\ torn \in SUBSET Rows

crediting(row) ==
  \/ \E r \in Requests : req[r].row = row /\ req[r].stage \in {"credit", "creditCash"}
  \/ \E e \in Events : e[1] = row /\ delivery[e] = "credit"

\* The bookings a payment is for: the one of its row and, if the client named another
\* one, the one its order was made for.
paysFor(row) ==
  {b \in Bookings : \/ payment[row].booking = b
                    \/ row \in Orders /\ gateway[row].booking = b}

\* A recorded payment reaches a booking it is for: verification and order.paid may
\* come in either order or at once, one of them may find the row of the other, or the
\* row of another booking, and yet no paid row leaves all its bookings waiting for a
\* payment, unless a handler died between its two statements (verifyRazorpayPayment,
\* handleOrderPaid, markAdminPaymentPaid).
PaymentReachesBooking ==
  \A row \in Rows :
    payment[row].st = "PAID" /\ ~crediting(row) /\ row \notin torn
      => \E b \in paysFor(row) : booking[b].pay # "PENDING"

Account == INSTANCE PaymentAccount
             WITH credited <- {b \in Bookings : booking[b].pay = "PAID"}

\* A booking becomes paid only after money came in for it (an order of it was
\* captured, a right signature came with it, or an admin took cash), and no failed
\* attempt, late event or second handler takes that back.
KeepsPaymentAccount == Account!Spec

\* A booking that is paid in cash is cancelled only by a guest's request that had
\* read it before it was paid, or by a wrong signature (assertGuestCancellable;
\* the admin's cancellation is part of Reservation).
PaidCashCancelledOnlyByStaleGuest ==
  [][\A b \in Bookings :
       /\ booking[b].mode = "OFFLINE" /\ booking[b].pay = "PAID"
       /\ booking'[b].status # booking[b].status
       => \E r \in Requests :
            /\ req[r].booking = b
            /\ \/ req[r].stage = "cancel" /\ req[r].saw # "PAID"
               \/ req[r].stage = "reject"]_vars

\* When order.paid of a captured order has not been delivered yet, the order gets a
\* paid row in the end, after failed attempts or a failed verification of the same
\* order too, unless a handler of the order's events died (handleOrderPaid).
CaptureIsRecorded ==
  \A o \in Orders :
    gateway[o].captured /\ <<o, 0>> \notin seen
      ~> payment[o].st = "PAID" \/ o \in torn

-----------------------------------------------------------------------------
(* What a document says, and the code does not keep. *)

quiet == /\ \A r \in Requests : req[r].stage = "idle"
         /\ \A e \in Events : delivery[e] = "idle"

\* The payment status of a booking is an aggregate of its list of payments.
StatusAggregatesPayments ==
  quiet /\ torn = {}
    => \A b \in Bookings : paidRows(b) # {} => booking[b].pay = "PAID"
=============================================================================
