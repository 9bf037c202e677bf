--------------------------- MODULE PaymentsProofs ---------------------------
(***************************************************************************)
(* Theorems about Payments, for any number of bookings, orders, payments in  *)
(* cash, requests and failed attempts, and for either value of Exempt.      *)
(***************************************************************************)
EXTENDS Payments, TLAPS

-----------------------------------------------------------------------------
(* Types. *)

LEMMA ConstantRows ==
  NoOrder \in OrderRow /\ NoPayment \in PaymentRow /\ Idle \in RequestSlot
BY PaymentAssumption DEF NoOrder, OrderRow, NoPayment, PaymentRow, Idle, RequestSlot

\* The moves of a request keep its slot in shape.
LEMMA RequestMoves ==
  ASSUME TypeOK, NEW r \in Requests
  PROVE  /\ Respond(r) => req' \in [Requests -> RequestSlot]
         /\ \A stage \in {"order", "credit", "fail", "recordCash"} :
              Goto(r, stage) => req' \in [Requests -> RequestSlot]
         /\ \A b \in Bookings, row \in Rows \cup {None},
               stage \in {"payments", "record", "reject", "cash", "cancel"} :
              Begin(r, stage, b, row) => req' \in [Requests -> RequestSlot]
<1> USE DEF TypeOK
<1>1. ASSUME Respond(r) PROVE req' \in [Requests -> RequestSlot]
  BY <1>1, ConstantRows DEF Respond
<1>2. ASSUME NEW stage \in {"order", "credit", "fail", "recordCash"}, Goto(r, stage)
      PROVE  req' \in [Requests -> RequestSlot]
  <2>1. [req[r] EXCEPT !.stage = stage] \in RequestSlot
    BY DEF RequestSlot
  <2> QED
    BY <1>2, <2>1 DEF Goto
<1>3. ASSUME NEW b \in Bookings, NEW row \in Rows \cup {None},
             NEW stage \in {"payments", "record", "reject", "cash", "cancel"},
             Begin(r, stage, b, row)
      PROVE  req' \in [Requests -> RequestSlot]
  <2> DEFINE saw == IF stage = "cancel" THEN booking[b].pay ELSE "PENDING"
  <2>1. saw \in {"PENDING", "PAID", "FAILED"}
    BY DEF BookingRow
  <2>2. [stage |-> stage, booking |-> b, row |-> row, saw |-> saw] \in RequestSlot
    BY <2>1 DEF RequestSlot
  <2> QED
    BY <1>3, <2>2 DEF Begin
<1> QED
  BY <1>1, <1>2, <1>3

LEMMA DeliveryMoves ==
  ASSUME TypeOK, NEW e \in Events, NEW stage \in DeliveryStage, Continue(e, stage)
  PROVE  delivery' \in [Events -> DeliveryStage]
BY DEF TypeOK, Continue

LEMMA RecordType ==
  ASSUME TypeOK, NEW row \in Rows, NEW b \in Bookings \cup {None},
         NEW st \in {"PAID", "FAILED"}, Record(row, b, st)
  PROVE  payment' \in [Rows -> PaymentRow]
<1>1. [st |-> st, booking |-> b] \in PaymentRow
  BY DEF PaymentRow
<1> QED
  BY <1>1 DEF TypeOK, Record

\* What the statements on a Booking row write.
LEMMA BookingType ==
  ASSUME TypeOK, NEW b \in Bookings
  PROVE  /\ [booking EXCEPT ![b].pay = "PAID", ![b].mode = "ONLINE"] \in [Bookings -> BookingRow]
         /\ [booking EXCEPT ![b].pay = "PAID"] \in [Bookings -> BookingRow]
         /\ [booking EXCEPT ![b].pay = "FAILED"] \in [Bookings -> BookingRow]
         /\ [booking EXCEPT ![b].status = "CANCELLED"] \in [Bookings -> BookingRow]
<1>1. booking \in [Bookings -> BookingRow] /\ booking[b] \in BookingRow
  BY DEF TypeOK
<1>2. [booking EXCEPT ![b].pay = "PAID", ![b].mode = "ONLINE"] \in [Bookings -> BookingRow]
  BY <1>1 DEF BookingRow
<1>3. [booking EXCEPT ![b].pay = "PAID"] \in [Bookings -> BookingRow]
  BY <1>1 DEF BookingRow
<1>4. [booking EXCEPT ![b].pay = "FAILED"] \in [Bookings -> BookingRow]
  BY <1>1 DEF BookingRow
<1>5. [booking EXCEPT ![b].status = "CANCELLED"] \in [Bookings -> BookingRow]
  BY <1>1 DEF BookingRow
<1> QED
  BY <1>2, <1>3, <1>4, <1>5

-----------------------------------------------------------------------------
(* What the slots of requests and the stages of events say of the tables.      *)
(* These facts make the type invariant inductive: a handler writes the booking  *)
(* and the row it read.                                                        *)

GatewayInv ==
  \A o \in Orders : /\ gateway[o].booking = None => gateway[o] = NoOrder
                    /\ gateway[o].captured => gateway[o].booking \in funded

eventTrue(e) ==
  delivery[e] # "idle"
      => /\ e \in seen /\ gateway[e[1]].booking \in Bookings
         /\ delivery[e] \in {"paid", "capture", "credit"} => gateway[e[1]].captured

DeliveryInv == \A e \in Events : eventTrue(e)

slotTrue(r) ==
  req[r].stage # "idle"
      => /\ req[r].booking \in Bookings
         /\ req[r].stage \in {"record", "credit", "reject", "fail"}
              => req[r].row \in Orders
         /\ req[r].stage \in {"record", "credit", "cash", "creditCash", "recordCash"}
              => req[r].booking \in funded
         /\ req[r].stage \in {"credit", "creditCash"}
              => /\ req[r].row \in Rows /\ payment[req[r].row].st # "NONE"
                 /\ payment[req[r].row].booking = req[r].booking
         /\ req[r].stage = "recordCash" => booking[req[r].booking].pay # "PENDING"

RequestInv == \A r \in Requests : slotTrue(r)

SlotInv == TypeOK /\ GatewayInv /\ DeliveryInv /\ RequestInv

LEMMA RequestType ==
  ASSUME SlotInv, NEW r \in Requests, Request(r)
  PROVE  TypeOK'
<1>1. TypeOK /\ RequestInv
  BY DEF SlotInv
<1> USE DEF TypeOK
<1>2. ASSUME NEW b \in Bookings, CreateOrderRead(r, b) PROVE TypeOK'
  BY <1>1, <1>2, RequestMoves DEF CreateOrderRead
<1>3. CASE CreateOrderPayments(r)
  BY <1>1, <1>3, RequestMoves DEF CreateOrderPayments
<1>4. ASSUME NEW o \in Orders, CreateOrder(r, o) PROVE TypeOK'
  <2>1. [gateway[o] EXCEPT !.booking = req[r].booking] \in OrderRow
    BY <1>1 DEF OrderRow, RequestSlot
  <2>2. gateway' \in [Orders -> OrderRow]
    BY <1>1, <1>4, <2>1 DEF CreateOrder
  <2> QED
    BY <1>1, <1>4, <2>2, RequestMoves DEF CreateOrder
<1>5. ASSUME NEW o \in Orders, NEW b \in Bookings, NEW genuine \in BOOLEAN,
             VerifyRead(r, o, b, genuine)
      PROVE  TypeOK'
  <2>1. o \in Rows \cup {None}
    BY DEF Rows
  <2>2. req' \in [Requests -> RequestSlot]
    BY <1>1, <1>5, <2>1, RequestMoves DEF VerifyRead
  <2>3. funded' \in SUBSET Bookings
    BY <1>1, <1>5 DEF VerifyRead
  <2> QED
    BY <1>1, <1>5, <2>2, <2>3 DEF VerifyRead
<1>6. CASE VerifyRecord(r)
  <2>1. req[r].row \in Rows /\ req[r].booking \in Bookings
    BY <1>1, <1>6 DEF VerifyRecord, RequestInv, slotTrue, Rows
  <2>2. payment' \in [Rows -> PaymentRow]
    BY <1>1, <1>6, <2>1, RecordType DEF VerifyRecord
  <2> QED
    BY <1>1, <1>6, <2>2, RequestMoves DEF VerifyRecord
<1>7. CASE VerifyCredit(r)
  <2>1. req[r].booking \in Bookings
    BY <1>1, <1>7 DEF VerifyCredit, RequestInv, slotTrue
  <2> QED
    BY <1>1, <1>7, <2>1, RequestMoves, BookingType DEF VerifyCredit
<1>8. CASE VerifyReject(r)
  <2>1. req[r].booking \in Bookings
    BY <1>1, <1>8 DEF VerifyReject, RequestInv, slotTrue
  <2> QED
    BY <1>1, <1>8, <2>1, RequestMoves, BookingType DEF VerifyReject
<1>9. CASE VerifyFail(r)
  <2>1. req[r].row \in Rows /\ req[r].booking \in Bookings
    BY <1>1, <1>9 DEF VerifyFail, RequestInv, slotTrue, Rows
  <2>2. payment' \in [Rows -> PaymentRow]
    BY <1>1, <1>9, <2>1, RecordType DEF VerifyFail
  <2> QED
    BY <1>1, <1>9, <2>2, RequestMoves DEF VerifyFail
<1>10. ASSUME NEW b \in Bookings, MarkPaidRead(r, b) PROVE TypeOK'
  BY <1>1, <1>10, RequestMoves DEF MarkPaidRead
<1>11. ASSUME NEW row \in CashRows, MarkPaidRecord(r, row) PROVE TypeOK'
  <2>1. row \in Rows /\ req[r].booking \in Bookings
    BY <1>1, <1>11 DEF MarkPaidRecord, RequestInv, slotTrue, Rows
  <2>2. payment' \in [Rows -> PaymentRow]
    BY <1>1, <1>11, <2>1, RecordType DEF MarkPaidRecord
  <2>3. [req[r] EXCEPT !.stage = "creditCash", !.row = row] \in RequestSlot
    BY <1>1, <2>1 DEF RequestSlot
  <2>4. req' \in [Requests -> RequestSlot]
    BY <1>1, <1>11, <2>3, RequestMoves DEF MarkPaidRecord
  <2> QED
    BY <1>1, <1>11, <2>2, <2>4 DEF MarkPaidRecord
<1>12. CASE MarkPaidCredit(r)
  <2>1. req[r].booking \in Bookings
    BY <1>1, <1>12 DEF MarkPaidCredit, RequestInv, slotTrue
  <2> QED
    BY <1>1, <1>12, <2>1, RequestMoves, BookingType DEF MarkPaidCredit
<1>13. ASSUME NEW b \in Bookings, CancelRead(r, b) PROVE TypeOK'
  BY <1>1, <1>13, RequestMoves DEF CancelRead
<1>14. CASE CancelWrite(r)
  <2>1. req[r].booking \in Bookings
    BY <1>1, <1>14 DEF CancelWrite, RequestInv, slotTrue
  <2> QED
    BY <1>1, <1>14, <2>1, RequestMoves, BookingType DEF CancelWrite
<1>15. CASE RequestDies(r)
  <2>1. torn' \in SUBSET Rows
    BY <1>1, <1>15 DEF RequestDies, RequestInv, slotTrue
  <2> QED
    BY <1>1, <1>15, <2>1, RequestMoves DEF RequestDies
<1> QED
  BY <1>2, <1>3, <1>4, <1>5, <1>6, <1>7, <1>8, <1>9, <1>10, <1>11, <1>12, <1>13, <1>14, <1>15
  DEF Request, createRazorpayOrder, verifyRazorpayPayment, markAdminPaymentPaid, cancelBooking

\* An event is about an order.
LEMMA EventOrder ==
  ASSUME NEW e \in Events
  PROVE  e[1] \in Orders /\ e[1] \in Rows /\ e[2] \in 0 .. MaxFailures
BY DEF Events, Rows

\* The booking an upsert leaves in the row.
LEMMA UpsertType ==
  ASSUME TypeOK, NEW o \in Orders, NEW st \in {"PAID", "FAILED"}, Upsert(o, st)
  PROVE  payment' \in [Rows -> PaymentRow]
<1> DEFINE b == IF payment[o].st = "NONE" THEN gateway[o].booking ELSE payment[o].booking
<1>1. o \in Rows
  BY DEF Rows
<1>2. b \in Bookings \cup {None}
  BY <1>1 DEF TypeOK, OrderRow, PaymentRow
<1>3. Record(o, b, st)
  BY DEF Upsert
<1> HIDE DEF b
<1> QED
  BY <1>1, <1>2, <1>3, RecordType

LEMMA DeliveryType ==
  ASSUME SlotInv, NEW e \in Events, Webhook(e)
  PROVE  TypeOK'
<1>1. TypeOK /\ DeliveryInv
  BY DEF SlotInv
<1> USE DEF TypeOK
<1>2. CASE WebhookReceive(e)
  BY <1>1, <1>2, DeliveryMoves DEF WebhookReceive, DeliveryStage
<1>3. CASE OrderPaidFind(e) \/ PaymentFailedFind(e)
  BY <1>1, <1>3, DeliveryMoves DEF OrderPaidFind, PaymentFailedFind, DeliveryStage
<1>4. CASE OrderPaidRecord(e) \/ PaymentFailedRecord(e)
  <2>1. payment' \in [Rows -> PaymentRow]
    BY <1>1, <1>4, EventOrder, UpsertType DEF OrderPaidRecord, PaymentFailedRecord
  <2> QED
    BY <1>1, <1>4, <2>1, DeliveryMoves DEF OrderPaidRecord, PaymentFailedRecord, DeliveryStage
<1>5. CASE OrderPaidCredit(e) \/ PaymentFailedMark(e)
  <2>1. PICK b \in Bookings : b = gateway[e[1]].booking
    BY <1>1, <1>5 DEF OrderPaidCredit, PaymentFailedMark, DeliveryInv, eventTrue
  <2>2. \/ booking' = booking
        \/ booking' = [booking EXCEPT ![b].pay = "PAID", ![b].mode = "ONLINE"]
        \/ booking' = [booking EXCEPT ![b].pay = "FAILED"]
    BY <1>5, <2>1 DEF OrderPaidCredit, PaymentFailedMark
  <2>3. booking' \in [Bookings -> BookingRow]
    BY <1>1, <2>2 DEF BookingRow
  <2> QED
    BY <1>1, <1>5, <2>3, DeliveryMoves DEF OrderPaidCredit, PaymentFailedMark, DeliveryStage
<1>6. CASE DeliveryDies(e)
  <2>1. torn' \in SUBSET Rows
    BY <1>1, <1>6, EventOrder DEF DeliveryDies
  <2> QED
    BY <1>1, <1>6, <2>1, DeliveryMoves DEF DeliveryDies, DeliveryStage
<1> QED
  BY <1>2, <1>3, <1>4, <1>5, <1>6 DEF Webhook, handleOrderPaid, handlePaymentFailed

LEMMA GatewayType ==
  ASSUME TypeOK, NEW o \in Orders, GatewayFails(o) \/ GatewayCaptures(o)
  PROVE  TypeOK'
<1> USE DEF TypeOK
<1>1. CASE GatewayFails(o)
  <2>1. gateway[o].failures + 1 \in 0 .. MaxFailures
    BY <1>1, PaymentAssumption DEF GatewayFails, OrderRow
  <2>2. [gateway[o] EXCEPT !.failures = gateway[o].failures + 1] \in OrderRow
    BY <2>1 DEF OrderRow
  <2>3. gateway' = [gateway EXCEPT ![o] = [gateway[o] EXCEPT !.failures = gateway[o].failures + 1]]
    BY <1>1 DEF GatewayFails
  <2> QED
    BY <1>1, <2>2, <2>3 DEF GatewayFails
<1>2. CASE GatewayCaptures(o)
  <2>1. [gateway[o] EXCEPT !.captured = TRUE] \in OrderRow /\ gateway[o].booking \in Bookings
    BY <1>2 DEF GatewayCaptures, OrderRow
  <2> QED
    BY <1>2, <2>1 DEF GatewayCaptures
<1> QED
  BY <1>1, <1>2

-----------------------------------------------------------------------------
(* The slots stay true to the tables.                                        *)

\* What every step leaves of the tables: an order keeps its booking and, once
\* captured, stays captured; a row keeps its booking; a booking that is no longer
\* PENDING stays so.
TablesStay ==
  /\ \A o \in Orders :
       /\ gateway[o].booking # None => gateway'[o].booking = gateway[o].booking
       /\ gateway[o].captured => gateway'[o].captured
  /\ \A row \in Rows :
       payment[row].st # "NONE"
         => payment'[row].st # "NONE" /\ payment'[row].booking = payment[row].booking
  /\ \A b \in Bookings : booking[b].pay # "PENDING" => booking'[b].pay # "PENDING"
  /\ funded \subseteq funded' /\ seen \subseteq seen'

LEMMA SlotStays ==
  ASSUME SlotInv, TablesStay, NEW r \in Requests, req'[r] = req[r]
  PROVE  slotTrue(r)'
<1>1. slotTrue(r)
  BY DEF SlotInv, RequestInv
<1> QED
  BY <1>1 DEF slotTrue, TablesStay

LEMMA EventStays ==
  ASSUME SlotInv, TablesStay, NEW e \in Events, delivery'[e] = delivery[e]
  PROVE  eventTrue(e)'
<1>1. eventTrue(e) /\ e[1] \in Orders
  BY EventOrder DEF SlotInv, DeliveryInv
<1> QED
  BY <1>1, PaymentAssumption DEF eventTrue, TablesStay

\* A request moves its own slot only.
LEMMA OneSlotMoves ==
  ASSUME TypeOK, NEW r \in Requests
  PROVE  /\ Respond(r) => /\ req'[r].stage = "idle"
                          /\ \A q \in Requests \ {r} : req'[q] = req[q]
         /\ \A stage : Goto(r, stage)
              => /\ req'[r].stage = stage
                 /\ req'[r].booking = req[r].booking /\ req'[r].row = req[r].row
                 /\ req'[r].saw = req[r].saw
                 /\ \A q \in Requests \ {r} : req'[q] = req[q]
         /\ \A stage, b, row : Begin(r, stage, b, row)
              => /\ req'[r].stage = stage /\ req[r].stage = "idle"
                 /\ req'[r].booking = b /\ req'[r].row = row
                 /\ stage = "cancel" => req'[r].saw = booking[b].pay
                 /\ \A q \in Requests \ {r} : req'[q] = req[q]
BY DEF TypeOK, Respond, Goto, Begin, RequestSlot, Idle

LEMMA RecordCashMoves ==
  ASSUME TypeOK, NEW r \in Requests, NEW row \in CashRows, MarkPaidRecord(r, row)
  PROVE  /\ \A q \in Requests \ {r} : req'[q] = req[q]
         /\ \/ req'[r].stage = "idle"
            \/ /\ req[r].stage = "cash" /\ req'[r].stage = "creditCash"
               /\ req'[r].row = row /\ req'[r].booking = req[r].booking
BY OneSlotMoves DEF TypeOK, RequestSlot, MarkPaidRecord

LEMMA OneDeliveryMoves ==
  ASSUME TypeOK, NEW e \in Events, NEW stage, Continue(e, stage)
  PROVE  delivery'[e] = stage /\ \A c \in Events \ {e} : delivery'[c] = delivery[c]
BY DEF TypeOK, Continue

\* What a record leaves of the table of payments.
LEMMA RecordedRow ==
  ASSUME TypeOK, NEW row \in Rows, NEW b, NEW st, Record(row, b, st)
  PROVE  /\ payment'[row].st = st /\ payment'[row].booking = b
         /\ \A other \in Rows \ {row} : payment'[other] = payment[other]
BY DEF TypeOK, Record

LEMMA UpsertedRow ==
  ASSUME TypeOK, NEW o \in Orders, NEW st, Upsert(o, st)
  PROVE  /\ payment'[o].st = st
         /\ payment[o].st = "NONE" => payment'[o].booking = gateway[o].booking
         /\ payment[o].st # "NONE" => payment'[o].booking = payment[o].booking
         /\ \A other \in Rows \ {o} : payment'[other] = payment[other]
BY DEF TypeOK, Upsert, Record, Rows

\* What the statements on a Booking row leave of it.
LEMMA BookingSteps ==
  ASSUME TypeOK, NEW r \in Requests,
         req[r].stage # "idle" => req[r].booking \in Bookings
  PROVE  /\ VerifyCredit(r) \/ MarkPaidCredit(r)
              => /\ booking'[req[r].booking].pay = "PAID"
                 /\ \A b \in Bookings \ {req[r].booking} : booking'[b] = booking[b]
         /\ VerifyReject(r) \/ CancelWrite(r)
              => /\ \A b \in Bookings : booking'[b].pay = booking[b].pay
                 /\ \A b \in Bookings \ {req[r].booking} : booking'[b] = booking[b]
<1>1. booking \in [Bookings -> BookingRow]
  BY DEF TypeOK
<1>2. CASE VerifyCredit(r)
  BY <1>1, <1>2 DEF VerifyCredit, MarkPaidCredit, VerifyReject, CancelWrite, BookingRow
<1>3. CASE MarkPaidCredit(r)
  BY <1>1, <1>3 DEF VerifyCredit, MarkPaidCredit, VerifyReject, CancelWrite, BookingRow
<1>4. CASE VerifyReject(r)
  BY <1>1, <1>4 DEF VerifyCredit, MarkPaidCredit, VerifyReject, CancelWrite, BookingRow
<1>5. CASE CancelWrite(r)
  BY <1>1, <1>5 DEF VerifyCredit, MarkPaidCredit, VerifyReject, CancelWrite, BookingRow
<1> QED
  BY <1>2, <1>3, <1>4, <1>5

LEMMA RequestTables ==
  ASSUME SlotInv, NEW r \in Requests, Request(r)
  PROVE  TablesStay /\ GatewayInv' /\ UNCHANGED delivery
<1>1. TypeOK /\ GatewayInv /\ RequestInv
  BY DEF SlotInv
<1>2. ASSUME UNCHANGED <<gateway, payment, booking, seen, delivery>>, funded \subseteq funded'
      PROVE  TablesStay /\ GatewayInv' /\ UNCHANGED delivery
  BY <1>1, <1>2 DEF TablesStay, GatewayInv
<1>3. ASSUME NEW b \in Bookings,
             \/ CreateOrderRead(r, b) \/ MarkPaidRead(r, b) \/ CancelRead(r, b)
             \/ \E o \in Orders, genuine \in BOOLEAN : VerifyRead(r, o, b, genuine)
      PROVE  TablesStay /\ GatewayInv' /\ UNCHANGED delivery
  BY <1>2, <1>3 DEF CreateOrderRead, MarkPaidRead, CancelRead, VerifyRead
<1>4. CASE CreateOrderPayments(r) \/ RequestDies(r)
  BY <1>2, <1>4 DEF CreateOrderPayments, RequestDies
<1>5. ASSUME NEW o \in Orders, CreateOrder(r, o)
      PROVE  TablesStay /\ GatewayInv' /\ UNCHANGED delivery
  <2>1. req[r].booking \in Bookings
    BY <1>1, <1>5 DEF CreateOrder, RequestInv, slotTrue
  <2>2. /\ gateway[o].booking = None /\ ~gateway[o].captured
        /\ gateway'[o].booking = req[r].booking /\ ~gateway'[o].captured
        /\ \A other \in Orders \ {o} : gateway'[other] = gateway[other]
        /\ UNCHANGED <<payment, booking, seen, delivery, funded>>
    BY <1>1, <1>5 DEF CreateOrder, NoOrder, TypeOK, OrderRow
  <2>3. TablesStay
    BY <2>2 DEF TablesStay
  <2>4. GatewayInv'
    BY <1>1, <2>1, <2>2, PaymentAssumption DEF GatewayInv
  <2> QED
    BY <2>2, <2>3, <2>4
<1>6. ASSUME UNCHANGED <<gateway, booking, seen, delivery, funded>>, NEW row \in Rows,
             payment[row].st = "NONE",
             \A other \in Rows \ {row} : payment'[other] = payment[other]
      PROVE  TablesStay /\ GatewayInv' /\ UNCHANGED delivery
  BY <1>1, <1>6 DEF TablesStay, GatewayInv
<1>7. CASE VerifyRecord(r) \/ VerifyFail(r)
  <2>1. req[r].row \in Rows
    BY <1>1, <1>7 DEF VerifyRecord, VerifyFail, RequestInv, slotTrue, Rows
  <2>2. CASE payment[req[r].row].st = "NONE"
    BY <1>1, <1>6, <1>7, <2>1, <2>2, RecordedRow DEF VerifyRecord, VerifyFail
  <2>3. CASE payment[req[r].row].st # "NONE"
    BY <1>2, <1>7, <2>3 DEF VerifyRecord, VerifyFail
  <2> QED
    BY <2>2, <2>3
<1>8. ASSUME NEW row \in CashRows, MarkPaidRecord(r, row)
      PROVE  TablesStay /\ GatewayInv' /\ UNCHANGED delivery
  <2>1. row \in Rows /\ payment[row].st = "NONE"
    BY <1>8 DEF MarkPaidRecord, NoPayment, Rows
  <2> QED
    BY <1>1, <1>6, <1>8, <2>1, RecordedRow DEF MarkPaidRecord
<1>9. CASE VerifyCredit(r) \/ MarkPaidCredit(r) \/ VerifyReject(r) \/ CancelWrite(r)
  <2>1. UNCHANGED <<gateway, payment, seen, delivery, funded>>
    BY <1>9 DEF VerifyCredit, MarkPaidCredit, VerifyReject, CancelWrite
  <2>2. req[r].stage # "idle" => req[r].booking \in Bookings
    BY <1>1 DEF RequestInv, slotTrue
  <2>3. \A b \in Bookings : booking[b].pay # "PENDING" => booking'[b].pay # "PENDING"
    BY <1>1, <1>9, <2>2, BookingSteps
  <2> QED
    BY <1>1, <2>1, <2>3 DEF TablesStay, GatewayInv
<1> QED
  BY <1>3, <1>4, <1>5, <1>7, <1>8, <1>9
  DEF Request, createRazorpayOrder, verifyRazorpayPayment, markAdminPaymentPaid, cancelBooking

LEMMA RequestSlots ==
  ASSUME SlotInv, NEW r \in Requests, Request(r)
  PROVE  /\ GatewayInv' /\ DeliveryInv' /\ RequestInv'
         /\ \A q \in Requests \ {r} : req'[q] = req[q]
<1>1. TypeOK /\ RequestInv /\ TablesStay /\ GatewayInv' /\ UNCHANGED delivery
  BY RequestTables DEF SlotInv
<1>2. DeliveryInv'
  BY <1>1, EventStays DEF DeliveryInv
<1> DEFINE Others == \A q \in Requests \ {r} : req'[q] = req[q]
<1>3. slotTrue(r)' /\ Others
  <2>1. slotTrue(r)
    BY <1>1 DEF RequestInv
  <2>2. ASSUME NEW b \in Bookings, CreateOrderRead(r, b) \/ CancelRead(r, b)
        PROVE  slotTrue(r)' /\ Others
    BY <1>1, <2>2, OneSlotMoves DEF CreateOrderRead, CancelRead, slotTrue
  <2>3. ASSUME NEW b \in Bookings, MarkPaidRead(r, b)
        PROVE  slotTrue(r)' /\ Others
    BY <1>1, <2>3, OneSlotMoves DEF MarkPaidRead, slotTrue
  <2>4. ASSUME NEW o \in Orders, NEW b \in Bookings, NEW genuine \in BOOLEAN,
               VerifyRead(r, o, b, genuine)
        PROVE  slotTrue(r)' /\ Others
    <3>1. /\ (req'[r].stage = "record" /\ genuine) \/ req'[r].stage = "reject"
          /\ req'[r].booking = b /\ req'[r].row = o /\ Others
      BY <1>1, <2>4, OneSlotMoves DEF VerifyRead
    <3>2. genuine => b \in funded'
      BY <2>4 DEF VerifyRead
    <3> QED
      BY <3>1, <3>2 DEF slotTrue
  <2>5. CASE CreateOrderPayments(r) \/ VerifyReject(r)
    <3>1. /\ \/ req'[r].stage \in {"idle", "order"}
             \/ /\ req'[r].stage = "fail" /\ req[r].stage = "reject"
                /\ req'[r].row = req[r].row
          /\ req[r].stage # "idle" /\ Others
          /\ req'[r].stage # "idle" => req'[r].booking = req[r].booking
      BY <1>1, <2>5, OneSlotMoves DEF CreateOrderPayments, VerifyReject
    <3> QED
      BY <2>1, <3>1 DEF slotTrue
  <2>6. CASE VerifyRecord(r)
    <3>1. req[r].stage = "record" /\ req[r].row \in Rows
      BY <2>1, <2>6 DEF VerifyRecord, slotTrue, Rows
    <3>2. CASE payment[req[r].row].st = "NONE"
      <4>1. /\ payment'[req[r].row].st = "PAID"
            /\ payment'[req[r].row].booking = req[r].booking
        BY <1>1, <2>6, <3>1, <3>2, RecordedRow DEF VerifyRecord
      <4>2. /\ req'[r].stage = "credit" /\ req'[r].row = req[r].row
            /\ req'[r].booking = req[r].booking /\ Others
        BY <1>1, <2>6, <3>2, OneSlotMoves DEF VerifyRecord
      <4> QED
        BY <1>1, <2>1, <3>1, <4>1, <4>2 DEF slotTrue, TablesStay
    <3>3. CASE payment[req[r].row].st # "NONE"
      BY <1>1, <2>6, <3>3, OneSlotMoves DEF VerifyRecord, slotTrue
    <3> QED
      BY <3>2, <3>3
  <2>7. ASSUME NEW row \in CashRows, MarkPaidRecord(r, row)
        PROVE  slotTrue(r)' /\ Others
    <3>1. row \in Rows /\ Record(row, req[r].booking, "PAID")
      BY <2>7 DEF MarkPaidRecord, Rows
    <3>2. payment'[row].st = "PAID" /\ payment'[row].booking = req[r].booking
      BY <1>1, <3>1, RecordedRow
    <3>3. /\ Others
          /\ \/ req'[r].stage = "idle"
             \/ /\ req[r].stage = "cash" /\ req'[r].stage = "creditCash"
                /\ req'[r].row = row /\ req'[r].booking = req[r].booking
      BY <1>1, <2>7, RecordCashMoves
    <3> QED
      BY <1>1, <2>1, <3>1, <3>2, <3>3 DEF slotTrue, TablesStay
  <2>8. CASE MarkPaidCredit(r)
    <3>1. /\ req[r].stage \in {"cash", "creditCash"}
          /\ req'[r].stage = "idle" \/ (req'[r].stage = "recordCash" /\ req[r].stage = "cash"
                                         /\ req'[r].booking = req[r].booking)
          /\ Others
      BY <1>1, <2>8, OneSlotMoves DEF MarkPaidCredit
    <3>2. req[r].booking \in Bookings
      BY <2>1, <3>1 DEF slotTrue
    <3>3. booking'[req[r].booking].pay = "PAID"
      BY <1>1, <2>8, <3>2, BookingSteps
    <3> QED
      BY <1>1, <2>1, <3>1, <3>2, <3>3 DEF slotTrue, TablesStay
  <2>9. ASSUME Respond(r) PROVE slotTrue(r)' /\ Others
    BY <1>1, <2>9, OneSlotMoves DEF slotTrue
  <2> QED
    BY <2>2, <2>3, <2>4, <2>5, <2>6, <2>7, <2>8, <2>9
    DEF Request, createRazorpayOrder, verifyRazorpayPayment, markAdminPaymentPaid,
        cancelBooking, CreateOrder, VerifyCredit, VerifyFail, CancelWrite, RequestDies
<1>4. RequestInv'
  BY <1>1, <1>3, SlotStays DEF RequestInv
<1> QED
  BY <1>1, <1>2, <1>3, <1>4

LEMMA DeliverySlots ==
  ASSUME SlotInv, NEW e \in Events, Webhook(e)
  PROVE  /\ GatewayInv' /\ DeliveryInv' /\ RequestInv' /\ TablesStay
         /\ UNCHANGED req /\ \A c \in Events \ {e} : delivery'[c] = delivery[c]
<1>1. TypeOK /\ GatewayInv /\ DeliveryInv /\ e[1] \in Orders /\ e[1] \in Rows
  BY EventOrder DEF SlotInv
<1>2. UNCHANGED <<gateway, req, funded>> /\ seen \subseteq seen'
  BY DEF Webhook, handleOrderPaid, handlePaymentFailed, WebhookReceive, OrderPaidFind,
     OrderPaidRecord, OrderPaidCredit, PaymentFailedFind, PaymentFailedRecord,
     PaymentFailedMark, DeliveryDies
<1>3. GatewayInv'
  BY <1>1, <1>2 DEF GatewayInv
<1>4. TablesStay
  <2>1. CASE OrderPaidRecord(e) \/ PaymentFailedRecord(e)
    <3>1. PICK st \in {"PAID", "FAILED"} : Upsert(e[1], st) /\ UNCHANGED booking
      BY <2>1 DEF OrderPaidRecord, PaymentFailedRecord
    <3>2. \A row \in Rows : payment[row].st # "NONE"
            => payment'[row].st # "NONE" /\ payment'[row].booking = payment[row].booking
      BY <1>1, <3>1, UpsertedRow
    <3> QED
      BY <1>2, <3>1, <3>2 DEF TablesStay
  <2>2. CASE OrderPaidCredit(e) \/ PaymentFailedMark(e)
    <3>1. UNCHANGED payment /\ booking \in [Bookings -> BookingRow]
      BY <1>1, <2>2 DEF OrderPaidCredit, PaymentFailedMark, TypeOK
    <3>2. CASE OrderPaidCredit(e)
      BY <1>2, <3>1, <3>2 DEF OrderPaidCredit, TablesStay, BookingRow
    <3>3. CASE PaymentFailedMark(e)
      BY <1>2, <3>1, <3>3 DEF PaymentFailedMark, TablesStay, BookingRow
    <3> QED
      BY <2>2, <3>2, <3>3
  <2>3. ASSUME UNCHANGED <<payment, booking>> PROVE TablesStay
    BY <1>2, <2>3 DEF TablesStay
  <2> QED
    BY <2>1, <2>2, <2>3 DEF Webhook, handleOrderPaid, handlePaymentFailed, WebhookReceive,
       OrderPaidFind, PaymentFailedFind, DeliveryDies
<1>5. /\ eventTrue(e)' /\ \A c \in Events \ {e} : delivery'[c] = delivery[c]
  <2>1. eventTrue(e)
    BY <1>1 DEF DeliveryInv
  <2>2. CASE WebhookReceive(e)
    <3>1. gateway[e[1]] # NoOrder /\ (e[2] = 0 => gateway[e[1]].captured)
      BY <1>1, <2>2, EventOrder, PaymentAssumption DEF WebhookReceive, emitted, NoOrder
    <3>2. gateway[e[1]].booking \in Bookings
      BY <1>1, <3>1 DEF GatewayInv, TypeOK, OrderRow
    <3> QED
      BY <1>1, <1>2, <2>2, <3>1, <3>2, OneDeliveryMoves DEF WebhookReceive, eventTrue
  <2>3. ASSUME NEW stage, Continue(e, stage), delivery[e] # "idle",
               stage \in {"paid", "capture", "credit"}
                 => delivery[e] \in {"paid", "capture", "credit"}
        PROVE  eventTrue(e)' /\ \A c \in Events \ {e} : delivery'[c] = delivery[c]
    BY <1>1, <1>2, <2>1, <2>3, OneDeliveryMoves DEF eventTrue
  <2>4. CASE OrderPaidFind(e) \/ OrderPaidRecord(e)
    BY <2>3, <2>4 DEF OrderPaidFind, OrderPaidRecord
  <2>5. CASE PaymentFailedFind(e) \/ PaymentFailedRecord(e)
    BY <2>3, <2>5 DEF PaymentFailedFind, PaymentFailedRecord
  <2>6. CASE OrderPaidCredit(e) \/ PaymentFailedMark(e) \/ DeliveryDies(e)
    BY <2>3, <2>6 DEF OrderPaidCredit, PaymentFailedMark, DeliveryDies
  <2> QED
    BY <2>2, <2>4, <2>5, <2>6 DEF Webhook, handleOrderPaid, handlePaymentFailed
<1>6. DeliveryInv'
  BY <1>4, <1>5, EventStays DEF DeliveryInv
<1>7. RequestInv'
  BY <1>2, <1>4, SlotStays DEF RequestInv
<1> QED
  BY <1>2, <1>3, <1>4, <1>5, <1>6, <1>7

LEMMA GatewaySlots ==
  ASSUME SlotInv, NEW o \in Orders, GatewayFails(o) \/ GatewayCaptures(o)
  PROVE  /\ GatewayInv' /\ DeliveryInv' /\ RequestInv' /\ TablesStay
         /\ UNCHANGED <<payment, booking, req, delivery, torn>>
         /\ \A other \in Orders : gateway'[other].booking = gateway[other].booking
<1>1. TypeOK /\ GatewayInv
  BY DEF SlotInv
<1>2. /\ gateway[o].booking # None /\ gateway'[o].booking = gateway[o].booking
      /\ gateway[o].captured => gateway'[o].captured
      /\ gateway'[o].captured => gateway[o].booking \in funded' \/ gateway[o].captured
      /\ funded \subseteq funded' /\ UNCHANGED seen
      /\ \A other \in Orders \ {o} : gateway'[other] = gateway[other]
      /\ UNCHANGED <<payment, booking, req, delivery, torn>>
  BY <1>1 DEF GatewayFails, GatewayCaptures, TypeOK, OrderRow
<1>3. TablesStay
  BY <1>2 DEF TablesStay
<1>4. GatewayInv'
  BY <1>1, <1>2 DEF GatewayInv
<1>5. RequestInv' /\ DeliveryInv'
  BY <1>2, <1>3, SlotStays, EventStays DEF RequestInv, DeliveryInv
<1> QED
  BY <1>2, <1>3, <1>4, <1>5

LEMMA SlotStep == SlotInv /\ [Next]_vars => SlotInv'
<1> SUFFICES ASSUME SlotInv, [Next]_vars PROVE SlotInv'
  OBVIOUS
<1>1. ASSUME NEW r \in Requests, Request(r) PROVE SlotInv'
  <2>1. TypeOK'
    BY <1>1, RequestType
  <2> QED
    BY <1>1, <2>1, RequestSlots DEF SlotInv
<1>2. ASSUME NEW e \in Events, Webhook(e) PROVE SlotInv'
  <2>1. TypeOK'
    BY <1>2, DeliveryType
  <2> QED
    BY <1>2, <2>1, DeliverySlots DEF SlotInv
<1>3. ASSUME NEW o \in Orders, GatewayFails(o) \/ GatewayCaptures(o) PROVE SlotInv'
  <2>1. TypeOK'
    BY <1>3, GatewayType DEF SlotInv
  <2> QED
    BY <1>3, <2>1, GatewaySlots DEF SlotInv
<1>4. CASE UNCHANGED vars
  BY <1>4 DEF vars, SlotInv, TypeOK, GatewayInv, DeliveryInv, eventTrue, RequestInv, slotTrue
<1> QED
  BY <1>1, <1>2, <1>3, <1>4 DEF Next

LEMMA SlotInit == Init => SlotInv
<1> SUFFICES ASSUME Init PROVE SlotInv
  OBVIOUS
<1>1. PICK mode \in [Bookings -> {"ONLINE", "OFFLINE"}] :
        booking = [b \in Bookings |-> [mode |-> mode[b], pay |-> "PENDING", status |-> "PENDING"]]
  BY DEF Init
<1>2. booking \in [Bookings -> BookingRow]
  BY <1>1 DEF BookingRow
<1>3. TypeOK
  BY <1>2, ConstantRows DEF Init, TypeOK, DeliveryStage
<1>4. GatewayInv
  BY DEF Init, GatewayInv, NoOrder
<1> QED
  BY <1>3, <1>4 DEF Init, SlotInv, DeliveryInv, eventTrue, RequestInv, slotTrue, Idle

LEMMA SlotsHold == Spec => []SlotInv
BY SlotInit, SlotStep, PTL DEF Spec

\* The tables, the gateway's record and the slots of requests and events keep the
\* shape the code gives them (TypeOK).
THEOREM PaymentTypeCorrect == Spec => []TypeOK
<1>1. SlotInv => TypeOK
  BY DEF SlotInv
<1> QED
  BY <1>1, SlotsHold, PTL

-----------------------------------------------------------------------------
(* A recorded payment reaches a booking.  The argument follows one row: between *)
(* the row and the credit a slot or an event is on its way (crediting), the     *)
(* bookings a payment is for stay, and no step makes a booking PENDING again.   *)

\* What is enough for one row.
reached(row) ==
  payment[row].st = "PAID" /\ ~crediting(row) /\ row \notin torn
    => \E b \in paysFor(row) : booking[b].pay # "PENDING"

LEMMA PaysForStays ==
  ASSUME SlotInv, TablesStay, NEW row \in Rows, payment[row].st = "PAID"
  PROVE  paysFor(row) \subseteq paysFor(row)'
BY PaymentAssumption DEF TablesStay, paysFor

\* The row was paid already, and no credit on its way is given up.
LEMMA NothingNewPaid ==
  ASSUME SlotInv, TablesStay, NEW row \in Rows, reached(row), torn \subseteq torn',
         payment'[row].st = "PAID" => payment[row].st = "PAID",
         crediting(row) /\ payment[row].st = "PAID"
           => \/ crediting(row)' \/ row \in torn'
              \/ \E b \in paysFor(row) : booking'[b].pay # "PENDING"
  PROVE  reached(row)'
<1>1. paysFor(row) \subseteq Bookings
  BY DEF paysFor
<1> QED
  BY <1>1, PaysForStays DEF reached, TablesStay

LEMMA CreditingStays ==
  ASSUME NEW row \in Rows, crediting(row)
  PROVE  /\ \A r \in Requests :
              UNCHANGED delivery /\ (\A q \in Requests \ {r} : req'[q] = req[q])
                => \/ crediting(row)'
                   \/ req[r].row = row /\ req[r].stage \in {"credit", "creditCash"}
         /\ \A e \in Events :
              UNCHANGED req /\ (\A c \in Events \ {e} : delivery'[c] = delivery[c])
                => crediting(row)' \/ (e[1] = row /\ delivery[e] = "credit")
BY DEF crediting

LEMMA RequestReaches ==
  ASSUME SlotInv, PaymentReachesBooking, NEW r \in Requests, Request(r), NEW row \in Rows
  PROVE  reached(row)'
<1>1. /\ TypeOK /\ RequestInv /\ RequestInv' /\ TablesStay /\ reached(row)
      /\ UNCHANGED delivery /\ \A q \in Requests \ {r} : req'[q] = req[q]
  BY RequestTables, RequestSlots DEF SlotInv, PaymentReachesBooking, reached
<1>2. crediting(row)
        => crediting(row)' \/ (req[r].row = row /\ req[r].stage \in {"credit", "creditCash"})
  BY <1>1, CreditingStays
<1>3. ASSUME UNCHANGED payment, torn \subseteq torn',
             req[r].stage \notin {"credit", "creditCash"}
      PROVE  reached(row)'
  BY <1>1, <1>2, <1>3, NothingNewPaid
<1>4. ASSUME NEW b \in Bookings,
             \/ CreateOrderRead(r, b) \/ MarkPaidRead(r, b) \/ CancelRead(r, b)
             \/ \E o \in Orders, genuine \in BOOLEAN : VerifyRead(r, o, b, genuine)
      PROVE  reached(row)'
  BY <1>3, <1>4 DEF CreateOrderRead, MarkPaidRead, CancelRead, VerifyRead, Begin
<1>5. ASSUME NEW o \in Orders, CreateOrder(r, o) PROVE reached(row)'
  BY <1>3, <1>5 DEF CreateOrder
<1>6. CASE CreateOrderPayments(r) \/ VerifyReject(r) \/ CancelWrite(r)
  BY <1>3, <1>6 DEF CreateOrderPayments, VerifyReject, CancelWrite
<1>7. CASE VerifyRecord(r)
  <2>1. req[r].stage = "record" /\ req[r].row \in Rows /\ UNCHANGED torn
    BY <1>1, <1>7 DEF VerifyRecord, RequestInv, slotTrue, Rows
  <2>2. CASE payment[req[r].row].st # "NONE"
    BY <1>3, <1>7, <2>1, <2>2 DEF VerifyRecord
  <2>3. CASE payment[req[r].row].st = "NONE"
    <3>1. Record(req[r].row, req[r].booking, "PAID") /\ Goto(r, "credit")
      BY <1>7, <2>3 DEF VerifyRecord
    <3>2. CASE row = req[r].row
      <4>1. req'[r].row = row /\ req'[r].stage = "credit"
        BY <1>1, <3>1, <3>2, OneSlotMoves
      <4> QED
        BY <4>1 DEF reached, crediting
    <3>3. CASE row # req[r].row
      BY <1>1, <1>2, <2>1, <3>1, <3>3, RecordedRow, NothingNewPaid
    <3> QED
      BY <3>2, <3>3
  <2> QED
    BY <2>2, <2>3
<1>8. CASE VerifyFail(r)
  <2>1. req[r].stage = "fail" /\ req[r].row \in Rows /\ UNCHANGED torn
    BY <1>1, <1>8 DEF VerifyFail, RequestInv, slotTrue, Rows
  <2>2. payment'[row].st = "PAID" => payment[row].st = "PAID"
    BY <1>1, <1>8, <2>1, RecordedRow DEF VerifyFail
  <2> QED
    BY <1>1, <1>2, <2>1, <2>2, NothingNewPaid
<1>9. ASSUME NEW new \in CashRows, MarkPaidRecord(r, new) PROVE reached(row)'
  <2>1. new \in Rows /\ Record(new, req[r].booking, "PAID") /\ UNCHANGED torn
    BY <1>9 DEF MarkPaidRecord, Rows
  <2>2. CASE row # new
    BY <1>1, <1>2, <1>9, <2>1, <2>2, RecordedRow, NothingNewPaid DEF MarkPaidRecord
  <2>3. CASE row = new /\ req[r].stage = "cash"
    <3>1. req'[r].row = row /\ req'[r].stage = "creditCash"
      BY <1>1, <1>9, <2>3 DEF MarkPaidRecord, TypeOK, RequestSlot
    <3> QED
      BY <3>1 DEF reached, crediting
  <2>4. CASE row = new /\ req[r].stage = "recordCash"
    <3>1. req[r].booking \in Bookings /\ booking[req[r].booking].pay # "PENDING"
      BY <1>1, <2>4 DEF RequestInv, slotTrue
    <3>2. req[r].booking \in paysFor(row)'
      BY <1>1, <2>1, <2>4, <3>1, RecordedRow DEF paysFor
    <3> QED
      BY <1>1, <3>1, <3>2 DEF reached, TablesStay
  <2> QED
    BY <1>9, <2>2, <2>3, <2>4 DEF MarkPaidRecord
<1>10. CASE VerifyCredit(r) \/ MarkPaidCredit(r)
  <2>1. req[r].booking \in Bookings /\ UNCHANGED <<payment, torn>>
    BY <1>1, <1>10 DEF VerifyCredit, MarkPaidCredit, RequestInv, slotTrue
  <2>2. booking'[req[r].booking].pay = "PAID"
    BY <1>1, <1>10, <2>1, BookingSteps
  <2>3. req[r].row = row /\ req[r].stage \in {"credit", "creditCash"}
          => req[r].booking \in paysFor(row)
    BY <1>1, <2>1 DEF RequestInv, slotTrue, paysFor
  <2> QED
    BY <1>1, <1>2, <2>1, <2>2, <2>3, NothingNewPaid
<1>11. CASE RequestDies(r)
  <2>1. crediting(row) => crediting(row)' \/ row \in torn'
    BY <1>2, <1>11 DEF RequestDies
  <2> QED
    BY <1>1, <1>11, <2>1, NothingNewPaid DEF RequestDies
<1> QED
  BY <1>4, <1>5, <1>6, <1>7, <1>8, <1>9, <1>10, <1>11
  DEF Request, createRazorpayOrder, verifyRazorpayPayment, markAdminPaymentPaid, cancelBooking

LEMMA DeliveryReaches ==
  ASSUME SlotInv, PaymentReachesBooking, NEW e \in Events, Webhook(e), NEW row \in Rows
  PROVE  reached(row)'
<1>1. /\ TypeOK /\ DeliveryInv /\ TablesStay /\ reached(row) /\ e[1] \in Orders
      /\ UNCHANGED req /\ \A c \in Events \ {e} : delivery'[c] = delivery[c]
  BY DeliverySlots, EventOrder DEF SlotInv, PaymentReachesBooking, reached
<1>2. crediting(row) => crediting(row)' \/ (e[1] = row /\ delivery[e] = "credit")
  BY <1>1, CreditingStays
<1>3. CASE WebhookReceive(e) \/ OrderPaidFind(e) \/ PaymentFailedFind(e)
  <2>1. UNCHANGED <<payment, torn>>
    BY <1>3 DEF WebhookReceive, OrderPaidFind, PaymentFailedFind
  <2>2. delivery[e] # "credit"
    BY <1>1, <1>3 DEF WebhookReceive, OrderPaidFind, PaymentFailedFind, DeliveryInv, eventTrue
  <2> QED
    BY <1>1, <1>2, <2>1, <2>2, NothingNewPaid
<1>4. CASE OrderPaidRecord(e)
  <2>1. Upsert(e[1], "PAID") /\ delivery[e] = "capture" /\ UNCHANGED torn
    BY <1>4 DEF OrderPaidRecord
  <2>2. CASE row = e[1]
    <3>1. delivery'[e] = "credit"
      BY <1>1, <1>4 DEF OrderPaidRecord, Continue, TypeOK
    <3> QED
      BY <2>2, <3>1 DEF reached, crediting
  <2>3. CASE row # e[1]
    BY <1>1, <1>2, <2>1, <2>3, UpsertedRow, NothingNewPaid
  <2> QED
    BY <2>2, <2>3
<1>5. CASE PaymentFailedRecord(e)
  <2>1. Upsert(e[1], "FAILED") /\ delivery[e] = "fail" /\ UNCHANGED torn
    BY <1>5 DEF PaymentFailedRecord
  <2>2. payment'[row].st = "PAID" => payment[row].st = "PAID"
    BY <1>1, <2>1, UpsertedRow
  <2> QED
    BY <1>1, <1>2, <2>1, <2>2, NothingNewPaid
<1>6. CASE OrderPaidCredit(e)
  <2>1. /\ gateway[e[1]].booking \in Bookings /\ booking \in [Bookings -> BookingRow]
        /\ UNCHANGED <<payment, torn>>
    BY <1>1, <1>6 DEF OrderPaidCredit, DeliveryInv, eventTrue, TypeOK
  <2>2. booking'[gateway[e[1]].booking].pay # "PENDING"
    BY <1>6, <2>1 DEF OrderPaidCredit, BookingRow
  <2>3. e[1] = row => gateway[e[1]].booking \in paysFor(row)
    BY <1>1, <2>1 DEF paysFor
  <2> QED
    BY <1>1, <1>2, <2>1, <2>2, <2>3, NothingNewPaid
<1>7. CASE PaymentFailedMark(e)
  BY <1>1, <1>2, <1>7, NothingNewPaid DEF PaymentFailedMark
<1>8. CASE DeliveryDies(e)
  <2>1. crediting(row) => crediting(row)' \/ row \in torn'
    BY <1>2, <1>8 DEF DeliveryDies
  <2> QED
    BY <1>1, <1>8, <2>1, NothingNewPaid DEF DeliveryDies
<1> QED
  BY <1>3, <1>4, <1>5, <1>6, <1>7, <1>8 DEF Webhook, handleOrderPaid, handlePaymentFailed

LEMMA GatewayReaches ==
  ASSUME SlotInv, PaymentReachesBooking, NEW o \in Orders,
         GatewayFails(o) \/ GatewayCaptures(o), NEW row \in Rows
  PROVE  reached(row)'
<1>1. /\ TablesStay /\ reached(row)
      /\ UNCHANGED <<payment, booking, req, delivery, torn>>
  BY GatewaySlots DEF PaymentReachesBooking, reached
<1>2. crediting(row) => crediting(row)'
  BY <1>1 DEF crediting
<1> QED
  BY <1>1, <1>2, NothingNewPaid

\* No paid row leaves all the bookings it is for waiting for a payment, in whatever
\* order verifyRazorpayPayment, handleOrderPaid and markAdminPaymentPaid come and
\* whichever booking the client names, unless one of them died between its two
\* statements.
THEOREM PaymentReaches == Spec => []PaymentReachesBooking
<1>1. SlotInv /\ Init => PaymentReachesBooking
  BY DEF Init, PaymentReachesBooking, NoPayment
<1>2. PaymentReachesBooking /\ SlotInv /\ [Next]_vars => PaymentReachesBooking'
  <2> SUFFICES ASSUME PaymentReachesBooking, SlotInv, [Next]_vars
               PROVE  PaymentReachesBooking'
    OBVIOUS
  <2>1. CASE Next
    <3>1. \A row \in Rows : reached(row)'
      BY <2>1, RequestReaches, DeliveryReaches, GatewayReaches DEF Next
    <3> QED
      BY <3>1 DEF reached, PaymentReachesBooking
  <2>2. CASE UNCHANGED vars
    BY <2>2 DEF vars, PaymentReachesBooking, paysFor, crediting
  <2> QED
    BY <2>1, <2>2
<1> QED
  BY <1>1, <1>2, SlotInit, SlotsHold, PTL DEF Spec

-----------------------------------------------------------------------------
(* The payment account.  Every step funds a booking, credits a funded one, or   *)
(* leaves both sides; a booking that is paid stays so.                          *)

Credited == {b \in Bookings : booking[b].pay = "PAID"}

AccountStep ==
  \/ UNCHANGED <<funded, Credited>>
  \/ \E b \in Bookings : funded' = funded \cup {b} /\ UNCHANGED Credited
  \/ \E b \in Bookings : b \in funded /\ Credited' = Credited \cup {b} /\ UNCHANGED funded

LEMMA SameCredited ==
  ASSUME \A b \in Bookings : booking[b].pay = "PAID" <=> booking'[b].pay = "PAID"
  PROVE  Credited' = Credited
BY DEF Credited

LEMMA OneCredited ==
  ASSUME NEW b \in Bookings, booking'[b].pay = "PAID",
         \A c \in Bookings \ {b} : booking'[c] = booking[c]
  PROVE  Credited' = Credited \cup {b}
BY DEF Credited

LEMMA RequestAccount ==
  ASSUME SlotInv, NEW r \in Requests, Request(r)
  PROVE  AccountStep
<1>1. TypeOK /\ RequestInv
  BY DEF SlotInv
<1>2. ASSUME UNCHANGED booking, \/ UNCHANGED funded
                                \/ \E b \in Bookings : funded' = funded \cup {b}
      PROVE  AccountStep
  BY <1>2, SameCredited DEF AccountStep
<1>3. ASSUME NEW b \in Bookings, CreateOrderRead(r, b) \/ MarkPaidRead(r, b) \/ CancelRead(r, b)
      PROVE  AccountStep
  BY <1>2, <1>3 DEF CreateOrderRead, MarkPaidRead, CancelRead
<1>4. ASSUME NEW o \in Orders, NEW b \in Bookings, NEW genuine \in BOOLEAN,
             VerifyRead(r, o, b, genuine)
      PROVE  AccountStep
  BY <1>2, <1>4 DEF VerifyRead
<1>5. CASE CreateOrderPayments(r) \/ VerifyRecord(r) \/ VerifyFail(r) \/ RequestDies(r)
  BY <1>2, <1>5 DEF CreateOrderPayments, VerifyRecord, VerifyFail, RequestDies
<1>6. ASSUME NEW o \in Orders, CreateOrder(r, o) PROVE AccountStep
  BY <1>2, <1>6 DEF CreateOrder
<1>7. ASSUME NEW row \in CashRows, MarkPaidRecord(r, row) PROVE AccountStep
  BY <1>2, <1>7 DEF MarkPaidRecord
<1>8. CASE VerifyCredit(r) \/ MarkPaidCredit(r)
  <2>1. req[r].booking \in Bookings /\ req[r].booking \in funded /\ UNCHANGED funded
    BY <1>1, <1>8 DEF VerifyCredit, MarkPaidCredit, RequestInv, slotTrue
  <2>2. Credited' = Credited \cup {req[r].booking}
    BY <1>1, <1>8, <2>1, BookingSteps, OneCredited
  <2> QED
    BY <2>1, <2>2 DEF AccountStep
<1>9. CASE VerifyReject(r) \/ CancelWrite(r)
  <2>1. UNCHANGED funded /\ req[r].booking \in Bookings
    BY <1>1, <1>9 DEF VerifyReject, CancelWrite, RequestInv, slotTrue
  <2>2. \A b \in Bookings : booking'[b].pay = booking[b].pay
    BY <1>1, <1>9, <2>1, BookingSteps
  <2> QED
    BY <2>1, <2>2, SameCredited DEF AccountStep
<1> QED
  BY <1>3, <1>4, <1>5, <1>6, <1>7, <1>8, <1>9
  DEF Request, createRazorpayOrder, verifyRazorpayPayment, markAdminPaymentPaid, cancelBooking

LEMMA DeliveryAccount ==
  ASSUME SlotInv, NEW e \in Events, Webhook(e)
  PROVE  AccountStep
<1>1. TypeOK /\ DeliveryInv /\ GatewayInv /\ e[1] \in Orders
  BY EventOrder DEF SlotInv
<1>2. ASSUME UNCHANGED <<booking, funded>> PROVE AccountStep
  BY <1>2, SameCredited DEF AccountStep
<1>3. CASE WebhookReceive(e) \/ OrderPaidFind(e) \/ OrderPaidRecord(e) \/ PaymentFailedFind(e)
           \/ PaymentFailedRecord(e) \/ DeliveryDies(e)
  BY <1>2, <1>3 DEF WebhookReceive, OrderPaidFind, OrderPaidRecord, PaymentFailedFind,
     PaymentFailedRecord, DeliveryDies
<1>4. CASE OrderPaidCredit(e)
  <2>1. PICK c \in Bookings : c = gateway[e[1]].booking /\ c \in funded
    BY <1>1, <1>4 DEF OrderPaidCredit, DeliveryInv, eventTrue, GatewayInv
  <2>2. CASE booking[c].pay = "PENDING"
    <3>1. booking'[c].pay = "PAID" /\ \A b \in Bookings \ {c} : booking'[b] = booking[b]
      BY <1>1, <1>4, <2>1, <2>2 DEF OrderPaidCredit, TypeOK, BookingRow
    <3> QED
      BY <1>4, <2>1, <3>1, OneCredited DEF OrderPaidCredit, AccountStep
  <2>3. CASE booking[c].pay # "PENDING"
    BY <1>2, <1>4, <2>1, <2>3 DEF OrderPaidCredit
  <2> QED
    BY <2>2, <2>3
<1>5. CASE PaymentFailedMark(e)
  <2>1. PICK c \in Bookings : c = gateway[e[1]].booking
    BY <1>1, <1>5 DEF PaymentFailedMark, DeliveryInv, eventTrue
  <2>2. \A b \in Bookings : booking[b].pay = "PAID" <=> booking'[b].pay = "PAID"
    BY <1>1, <1>5, <2>1 DEF PaymentFailedMark, TypeOK, BookingRow
  <2> QED
    BY <1>5, <2>2, SameCredited DEF PaymentFailedMark, AccountStep
<1> QED
  BY <1>3, <1>4, <1>5 DEF Webhook, handleOrderPaid, handlePaymentFailed

LEMMA GatewayAccount ==
  ASSUME SlotInv, NEW o \in Orders, GatewayFails(o) \/ GatewayCaptures(o)
  PROVE  AccountStep
<1>1. UNCHANGED booking
  BY DEF GatewayFails, GatewayCaptures
<1>2. \/ UNCHANGED funded
      \/ \E b \in Bookings : funded' = funded \cup {b}
  BY DEF GatewayFails, GatewayCaptures, SlotInv, TypeOK, OrderRow
<1> QED
  BY <1>1, <1>2, SameCredited DEF AccountStep

\* A booking becomes paid only after money came in for it, and stays paid: Payments
\* implements PaymentAccount.
THEOREM PaymentAccountKept == Spec => KeepsPaymentAccount
<1>1. Init => Account!Init
  BY DEF Init, Account!Init
<1>2. SlotInv /\ [Next]_vars => [Account!Next]_(Account!vars)
  <2> SUFFICES ASSUME SlotInv, [Next]_vars PROVE [Account!Next]_(Account!vars)
    OBVIOUS
  <2>1. CASE Next
    <3>1. AccountStep
      BY <2>1, RequestAccount, DeliveryAccount, GatewayAccount DEF Next
    <3> QED
      BY <3>1 DEF AccountStep, Credited, Account!Next, Account!Fund, Account!Credit,
         Account!vars
  <2>2. CASE UNCHANGED vars
    BY <2>2 DEF vars, Account!vars
  <2> QED
    BY <2>1, <2>2
<1> QED
  BY <1>1, <1>2, SlotsHold, PTL DEF Spec, KeepsPaymentAccount, Account!Spec

-----------------------------------------------------------------------------
(* The guest's cancellation. *)

\* A cancellation under way that saw the booking paid saw it paid online, which it
\* stays.
SawOnline ==
  \A r \in Requests :
    req[r].stage = "cancel" /\ req[r].saw = "PAID"
      => booking[req[r].booking].mode = "ONLINE"

OnlineStays ==
  \A b \in Bookings : booking[b].mode = "ONLINE" => booking'[b].mode = "ONLINE"

LEMMA RequestCancels ==
  ASSUME SlotInv, SawOnline, NEW r \in Requests, Request(r)
  PROVE  /\ SawOnline'
         /\ \A b \in Bookings :
              booking'[b].status # booking[b].status
                => /\ req[r].booking = b
                   /\ req[r].stage = "cancel" \/ req[r].stage = "reject"
<1>1. TypeOK /\ RequestInv /\ \A q \in Requests \ {r} : req'[q] = req[q]
  BY RequestSlots DEF SlotInv
<1>2. ASSUME OnlineStays, req'[r].stage # "cancel" PROVE SawOnline'
  BY <1>1, <1>2 DEF SawOnline, OnlineStays, RequestInv, slotTrue
<1>3. UNCHANGED booking => OnlineStays
  BY DEF OnlineStays
<1>4. ASSUME NEW b \in Bookings, CancelRead(r, b)
      PROVE  SawOnline' /\ UNCHANGED booking
  <2>1. /\ req'[r].booking = b /\ req'[r].saw = booking[b].pay
        /\ UNCHANGED booking
    BY <1>1, <1>4, OneSlotMoves DEF CancelRead
  <2>2. booking[b].pay = "PAID" => booking[b].mode = "ONLINE"
    BY <1>1, <1>4 DEF CancelRead, assertGuestCancellable, TypeOK, BookingRow
  <2> QED
    BY <1>1, <2>1, <2>2 DEF SawOnline
<1>5. ASSUME NEW b \in Bookings,
             \/ CreateOrderRead(r, b) \/ MarkPaidRead(r, b)
             \/ \E o \in Orders, genuine \in BOOLEAN : VerifyRead(r, o, b, genuine)
      PROVE  SawOnline' /\ UNCHANGED booking
  BY <1>1, <1>2, <1>3, <1>5, OneSlotMoves DEF CreateOrderRead, MarkPaidRead, VerifyRead
<1>6. ASSUME NEW row \in CashRows, MarkPaidRecord(r, row) PROVE SawOnline' /\ UNCHANGED booking
  BY <1>1, <1>2, <1>3, <1>6, RecordCashMoves DEF MarkPaidRecord
<1>7. ASSUME NEW o \in Orders, CreateOrder(r, o) PROVE SawOnline' /\ UNCHANGED booking
  BY <1>1, <1>2, <1>3, <1>7, OneSlotMoves DEF CreateOrder
<1>8. CASE CreateOrderPayments(r) \/ VerifyRecord(r) \/ VerifyFail(r) \/ RequestDies(r)
  <2>1. UNCHANGED booking
    BY <1>8 DEF CreateOrderPayments, VerifyRecord, VerifyFail, RequestDies
  <2>2. req'[r].stage # "cancel"
    BY <1>1, <1>8, OneSlotMoves DEF CreateOrderPayments, VerifyRecord, VerifyFail, RequestDies
  <2> QED
    BY <1>2, <1>3, <2>1, <2>2
<1>9. CASE VerifyCredit(r) \/ MarkPaidCredit(r)
  <2>1. /\ OnlineStays
        /\ \A b \in Bookings : booking'[b].status = booking[b].status
    BY <1>1, <1>9 DEF VerifyCredit, MarkPaidCredit, OnlineStays, TypeOK, BookingRow
  <2>2. req'[r].stage # "cancel"
    BY <1>1, <1>9, OneSlotMoves DEF VerifyCredit, MarkPaidCredit
  <2> QED
    BY <1>2, <2>1, <2>2
<1>10. CASE VerifyReject(r) \/ CancelWrite(r)
  <2>1. /\ req[r].stage = "cancel" \/ req[r].stage = "reject"
        /\ req[r].booking \in Bookings
    BY <1>1, <1>10 DEF VerifyReject, CancelWrite, RequestInv, slotTrue
  <2>2. /\ OnlineStays
        /\ \A b \in Bookings : b # req[r].booking => booking'[b].status = booking[b].status
    BY <1>1, <1>10, <2>1, BookingSteps
    DEF VerifyReject, CancelWrite, OnlineStays, TypeOK, BookingRow
  <2>3. req'[r].stage # "cancel"
    BY <1>1, <1>10, OneSlotMoves DEF VerifyReject, CancelWrite
  <2> QED
    BY <1>2, <2>1, <2>2, <2>3
<1> QED
  BY <1>4, <1>5, <1>6, <1>7, <1>8, <1>9, <1>10
  DEF Request, createRazorpayOrder, verifyRazorpayPayment, markAdminPaymentPaid, cancelBooking

LEMMA DeliveryCancelsNothing ==
  ASSUME SlotInv, SawOnline, NEW e \in Events, Webhook(e)
  PROVE  /\ SawOnline'
         /\ \A b \in Bookings : booking'[b].status = booking[b].status
<1>1. TypeOK /\ RequestInv /\ UNCHANGED req
  BY DeliverySlots DEF SlotInv
<1>2. OnlineStays /\ \A b \in Bookings : booking'[b].status = booking[b].status
  <2>1. booking \in [Bookings -> BookingRow]
    BY <1>1 DEF TypeOK
  <2>2. CASE OrderPaidCredit(e)
    BY <2>1, <2>2 DEF OrderPaidCredit, OnlineStays, BookingRow
  <2>3. CASE PaymentFailedMark(e)
    BY <2>1, <2>3 DEF PaymentFailedMark, OnlineStays, BookingRow
  <2>4. CASE UNCHANGED booking
    BY <2>4 DEF OnlineStays
  <2> QED
    BY <2>2, <2>3, <2>4 DEF Webhook, WebhookReceive, handleOrderPaid, handlePaymentFailed,
       OrderPaidFind, OrderPaidRecord, PaymentFailedFind, PaymentFailedRecord, DeliveryDies
<1> QED
  BY <1>1, <1>2 DEF SawOnline, OnlineStays, RequestInv, slotTrue

LEMMA CancelStep ==
  SlotInv /\ SawOnline /\ [Next]_vars
    => SawOnline' /\ [\A b \in Bookings :
                        /\ booking[b].mode = "OFFLINE" /\ booking[b].pay = "PAID"
                        /\ booking'[b].status # booking[b].status
                        => \E r \in Requests :
                             /\ req[r].booking = b
                             /\ \/ req[r].stage = "cancel" /\ req[r].saw # "PAID"
                                \/ req[r].stage = "reject"]_vars
<1> SUFFICES ASSUME SlotInv, SawOnline, [Next]_vars
             PROVE  /\ SawOnline'
                    /\ \A b \in Bookings :
                         /\ booking[b].mode = "OFFLINE"
                         /\ booking'[b].status # booking[b].status
                         => \E r \in Requests :
                              /\ req[r].booking = b
                              /\ \/ req[r].stage = "cancel" /\ req[r].saw # "PAID"
                                 \/ req[r].stage = "reject"
  OBVIOUS
<1>1. ASSUME NEW o \in Orders, GatewayFails(o) \/ GatewayCaptures(o)
      PROVE  UNCHANGED <<booking, req>>
  BY <1>1 DEF GatewayFails, GatewayCaptures
<1>2. CASE UNCHANGED <<booking, req>>
  BY <1>2 DEF SawOnline
<1>3. ASSUME NEW r \in Requests, Request(r)
      PROVE  /\ SawOnline'
             /\ \A b \in Bookings :
                  /\ booking[b].mode = "OFFLINE"
                  /\ booking'[b].status # booking[b].status
                  => /\ req[r].booking = b
                     /\ \/ req[r].stage = "cancel" /\ req[r].saw # "PAID"
                        \/ req[r].stage = "reject"
  BY <1>3, RequestCancels DEF SawOnline
<1>4. ASSUME NEW e \in Events, Webhook(e)
      PROVE  SawOnline' /\ \A b \in Bookings : booking'[b].status = booking[b].status
  BY <1>4, DeliveryCancelsNothing
<1> QED
  BY <1>1, <1>2, <1>3, <1>4 DEF Next, vars

\* A booking that is paid in cash is cancelled only by a guest's request that had
\* read it before it was paid, or by a wrong signature (assertGuestCancellable).
THEOREM PaidCashCancelled == Spec => PaidCashCancelledOnlyByStaleGuest
<1>1. Init => SawOnline
  BY DEF Init, SawOnline, Idle
<1> QED
  BY <1>1, CancelStep, SlotsHold, PTL DEF Spec, PaidCashCancelledOnlyByStaleGuest

=============================================================================
