------------------------- MODULE ReservationProofs -------------------------
(***************************************************************************)
(* Theorems about Reservation, for every set of bookings, beds, templates,  *)
(* request slots and sweepers and for every calendar.                       *)
(*                                                                         *)
(* The argument common to all of them is IInv: the types, and what a request *)
(* slot may rely on between its statements.                                 *)
(***************************************************************************)
EXTENDS Reservation, TLAPS, FiniteSetTheorems

-----------------------------------------------------------------------------
(* Writing one row, opening, advancing and closing a slot keep the types. *)

LEMMA StoreType ==
  ASSUME booking \in [Bookings -> BookingRow],
         NEW b, NEW row,
         (b \in Bookings) => (row \in BookingRow),
         Store(b, row)
  PROVE  booking' \in [Bookings -> BookingRow]
BY DEF Store

LEMMA IdleType == Idle \in RequestSlot
BY ReservationAssumption DEF Idle, RequestSlot, Stages, Days, PaymentMode

LEMMA BeginType ==
  ASSUME req \in [Requests -> RequestSlot],
         NEW r \in Requests, NEW slot \in RequestSlot, Begin(r, slot)
  PROVE  req' \in [Requests -> RequestSlot]
BY DEF Begin

LEMMA GotoType ==
  ASSUME req \in [Requests -> RequestSlot],
         NEW r \in Requests, NEW stage \in Stages, Goto(r, stage)
  PROVE  req' \in [Requests -> RequestSlot]
BY DEF Goto, RequestSlot

LEMMA RespondType ==
  ASSUME req \in [Requests -> RequestSlot], NEW r \in Requests, Respond(r)
  PROVE  req' \in [Requests -> RequestSlot]
BY IdleType DEF Respond

-----------------------------------------------------------------------------
(* The invariant all others stand on. *)

IInv == TypeOK /\ SlotsRemember

LEMMA InitIInv == Init => IInv
<1> SUFFICES ASSUME Init PROVE IInv
  OBVIOUS
<1>1. NoRow \in BookingRow
  BY ReservationAssumption DEF NoRow, BookingRow, Days, PaymentMode
<1>2. Asleep \in SweepSlot
  BY ReservationAssumption DEF Asleep, SweepSlot, Days
<1>3. TypeOK
  <2>1. today \in Days
    BY ReservationAssumption DEF Init, Days
  <2>2. /\ booking \in [Bookings -> BookingRow]
        /\ req \in [Requests -> RequestSlot]
        /\ sweep \in [Sweepers -> SweepSlot]
    BY <1>1, <1>2, IdleType DEF Init
  <2>3. lock \in BOOLEAN
    BY DEF Init
  <2> QED
    BY <2>1, <2>2, <2>3 DEF TypeOK
<1>4. SlotsRemember
  BY DEF Init, SlotsRemember, Idle
<1> QED
  BY <1>3, <1>4 DEF IInv

\* A handler that opens its slot on an existing booking.
LEMMA BeginKeeps ==
  ASSUME IInv, NEW r \in Requests, NEW slot \in RequestSlot, Begin(r, slot),
         UNCHANGED <<today, booking, sweep, lock>>,
         (slot.b # None) => exists(slot.b),
         (slot.op = "create") => (slot.tpl \in Templates),
         (slot.op = "assign") => (slot.bed \in Beds),
         (slot.op = "patch") => Exempt,
         (slot.op \in {"cancelGuest", "cancelAdmin", "approve", "reject"})
           => (slot.seen \in ACTIVE_BOOKING_STATUSES)
  PROVE  IInv'
<1>1. TypeOK'
  BY BeginType DEF IInv, TypeOK
<1>2. SlotsRemember'
  BY DEF IInv, TypeOK, SlotsRemember, Begin, exists, RequestSlot
<1> QED
  BY <1>1, <1>2 DEF IInv

LEMMA GotoKeeps ==
  ASSUME IInv, NEW r \in Requests, NEW stage \in Stages, Goto(r, stage),
         UNCHANGED <<today, booking, sweep, lock>>
  PROVE  IInv'
<1>1. TypeOK'
  BY GotoType DEF IInv, TypeOK
<1>2. SlotsRemember'
  BY DEF IInv, TypeOK, SlotsRemember, Goto, exists, RequestSlot
<1> QED
  BY <1>1, <1>2 DEF IInv

\* A handler that writes a row that still exists afterwards, and responds.
LEMMA StoreKeeps ==
  ASSUME IInv, NEW r \in Requests, Respond(r), UNCHANGED <<today, sweep, lock>>,
         NEW b, NEW row, Store(b, row),
         (b \in Bookings) => (row \in BookingRow /\ row.st # "NONE")
  PROVE  IInv'
<1>1. TypeOK'
  BY StoreType, RespondType DEF IInv, TypeOK
<1>2. ASSUME NEW c \in Bookings, exists(c) PROVE exists(c)'
  BY <1>2 DEF Store, exists, IInv, TypeOK
<1>3. SlotsRemember'
  BY <1>2 DEF IInv, TypeOK, SlotsRemember, Respond, Idle, RequestSlot
<1> QED
  BY <1>1, <1>3 DEF IInv

LEMMA RespondKeeps ==
  ASSUME IInv, NEW r \in Requests, Respond(r), UNCHANGED <<today, booking, sweep, lock>>
  PROVE  IInv'
<1>1. TypeOK'
  BY RespondType DEF IInv, TypeOK
<1>2. SlotsRemember'
  BY DEF IInv, TypeOK, SlotsRemember, Respond, Idle, exists, RequestSlot
<1> QED
  BY <1>1, <1>2 DEF IInv

-----------------------------------------------------------------------------
(* Handlers that decide on a status. *)

LEMMA DecideKeeps ==
  ASSUME IInv, NEW r \in Requests, NEW b \in Bookings, NEW op \in Operations,
         Decide(r, op, b), op \notin {"create", "assign", "patch"},
         (op \in {"cancelGuest", "cancelAdmin", "approve", "reject"})
           => isActive(booking[b])
  PROVE  IInv'
<1> DEFINE slot == [Idle EXCEPT !.op = op, !.stage = "write", !.b = b,
                                !.seen = booking[b].st]
<1>1. slot \in RequestSlot
  BY IdleType DEF RequestSlot, Stages, Idle, IInv, TypeOK, BookingRow
<1>2. slot.op = op /\ slot.b = b /\ slot.seen = booking[b].st
  BY DEF Idle
<1>3. Begin(r, slot) /\ exists(b) /\ UNCHANGED <<today, booking, sweep, lock>>
  BY DEF Decide
<1> QED
  BY <1>1, <1>2, <1>3, BeginKeeps DEF isActive

LEMMA WriteStatusKeeps ==
  ASSUME IInv, NEW r \in Requests, NEW op, NEW status \in BookingStatus,
         WriteStatus(r, op, status)
  PROVE  IInv'
<1> DEFINE row == [booking[req[r].b] EXCEPT !.st = status]
<1>1. (req[r].b \in Bookings) => (row \in BookingRow /\ row.st # "NONE")
  BY DEF IInv, TypeOK, BookingRow, BookingStatus, ACTIVE_BOOKING_STATUSES,
         TERMINAL_BOOKING_STATUSES
<1>2. /\ Respond(r) /\ Store(req[r].b, row)
      /\ UNCHANGED <<today, sweep, lock>>
  BY DEF WriteStatus
<1> QED
  BY <1>1, <1>2, StoreKeeps

LEMMA ChangeStatusKeeps ==
  ASSUME IInv, NEW r \in Requests, ChangeStatus(r)
  PROVE  IInv'
<1> USE DEF Operations
<1>1. ASSUME NEW b \in Bookings, CancelBookingRead(r, b) PROVE IInv'
  BY <1>1, DecideKeeps DEF CancelBookingRead, assertGuestCancellable, isActive,
     GUEST_CANCELLABLE_STATUSES, ACTIVE_BOOKING_STATUSES
<1>2. ASSUME NEW b \in Bookings, CancelAdminBookingRead(r, b) PROVE IInv'
  BY <1>2, DecideKeeps DEF CancelAdminBookingRead, assertAdminCancellable, isActive,
     ADMIN_CANCELLABLE_STATUSES, ACTIVE_BOOKING_STATUSES
<1>3. ASSUME NEW b \in Bookings, UpdateBookingStatusRead(r, b) PROVE IInv'
  BY <1>3, DecideKeeps DEF UpdateBookingStatusRead, assertRejectable, isActive,
     ACTIVE_BOOKING_STATUSES
<1>4. ASSUME NEW b \in Bookings, VerifyFailedRead(r, b) PROVE IInv'
  BY <1>4, DecideKeeps DEF VerifyFailedRead
<1>5. CASE \/ CancelBookingWrite(r) \/ CancelAdminBookingWrite(r)
           \/ UpdateBookingStatusWrite(r) \/ VerifyFailedWrite(r)
  BY <1>5, WriteStatusKeeps
  DEF CancelBookingWrite, CancelAdminBookingWrite, UpdateBookingStatusWrite,
      VerifyFailedWrite, BookingStatus, ACTIVE_BOOKING_STATUSES,
      TERMINAL_BOOKING_STATUSES
<1> QED
  BY <1>1, <1>2, <1>3, <1>4, <1>5 DEF ChangeStatus

-----------------------------------------------------------------------------
(* The other handlers. *)

LEMMA CreateBookingKeeps ==
  ASSUME IInv, NEW r \in Requests, CreateBooking(r)
  PROVE  IInv'
<1>1. ASSUME NEW g \in Guests, NEW k \in Keys, NEW t \in Templates,
             NEW stay \in Stays, NEW mode \in Modes,
             CreateBookingReceive(r, g, k, t, stay, mode)
      PROVE  IInv'
  <2> DEFINE slot == [Idle EXCEPT !.op = "create", !.stage = "lock", !.guest = g,
                                  !.key = k, !.tpl = t, !.from = stay[1], !.to = stay[2],
                                  !.mode = mode]
  <2>1. stay \in Days \X Days /\ mode \in PaymentMode
    BY ReservationAssumption
  <2>2. slot \in RequestSlot
    BY <2>1, IdleType DEF RequestSlot, Stages, Idle, Operations
  <2>3. slot.op = "create" /\ slot.b = None /\ slot.tpl = t
    BY DEF Idle
  <2>4. Begin(r, slot) /\ UNCHANGED <<today, booking, sweep, lock>>
    BY <1>1 DEF CreateBookingReceive
  <2> QED
    BY <2>2, <2>3, <2>4, BeginKeeps
<1>2. CASE CreateBookingCount(r)
  BY <1>2, GotoKeeps DEF CreateBookingCount, Stages
<1>3. ASSUME NEW b \in Bookings, CreateBookingCommit(r, b) PROVE IInv'
  <2> DEFINE row == [NoRow EXCEPT !.st = "PENDING", !.guest = req[r].guest,
                            !.tpl = req[r].tpl,
                            !.from = req[r].from, !.to = req[r].to,
                            !.nights = billedNights(req[r].from, req[r].to),
                            !.mode = req[r].mode, !.key = req[r].key]
  <2>1. req[r] \in RequestSlot
    BY DEF IInv, TypeOK
  <2>2. billedNights(req[r].from, req[r].to) \in Int
    BY <2>1, ReservationAssumption DEF RequestSlot, Days, billedNights
  <2>3. row \in BookingRow /\ row.st # "NONE"
    BY <2>1, <2>2 DEF RequestSlot, NoRow, BookingRow, BookingStatus,
       ACTIVE_BOOKING_STATUSES
  <2>4. Store(b, row) /\ Respond(r) /\ UNCHANGED <<today, sweep, lock>>
    BY <1>3 DEF CreateBookingCommit
  <2> QED
    BY <2>3, <2>4, StoreKeeps
<1> QED
  BY <1>1, <1>2, <1>3 DEF CreateBooking

LEMMA AssignBedKeeps ==
  ASSUME IInv, NEW r \in Requests, AssignBed(r)
  PROVE  IInv'
<1>1. ASSUME NEW b \in Bookings, NEW bed \in Beds, AssignBedRead(r, b, bed)
      PROVE  IInv'
  <2> DEFINE slot == [Idle EXCEPT !.op = "assign", !.stage = "count", !.b = b,
                           !.bed = bed, !.from = booking[b].from,
                           !.to = booking[b].to, !.tpl = booking[b].tpl,
                           !.seen = booking[b].st]
  <2>1. slot \in RequestSlot
    BY IdleType DEF RequestSlot, Stages, Idle, Operations, IInv, TypeOK, BookingRow
  <2>2. slot.op = "assign" /\ slot.b = b /\ slot.bed = bed
    BY DEF Idle
  <2>3. Begin(r, slot) /\ exists(b) /\ UNCHANGED <<today, booking, sweep, lock>>
    BY <1>1 DEF AssignBedRead
  <2> QED
    BY <2>1, <2>2, <2>3, BeginKeeps
<1>2. CASE AssignBedCount(r)
  BY <1>2, GotoKeeps DEF AssignBedCount, Stages
<1>3. CASE AssignBedWrite(r)
  <2> DEFINE row == [booking[req[r].b] EXCEPT !.bed = req[r].bed]
  <2>1. ASSUME req[r].b \in Bookings PROVE row \in BookingRow /\ row.st # "NONE"
    <3>1. booking[req[r].b] \in BookingRow /\ req[r].bed \in Beds \cup {None}
      BY <2>1 DEF IInv, TypeOK, RequestSlot
    <3>2. booking[req[r].b].st # "NONE"
      BY <2>1, ReservationAssumption DEF IInv, SlotsRemember, exists
    <3> QED
      BY <3>1, <3>2 DEF BookingRow
  <2>2. Store(req[r].b, row) /\ Respond(r) /\ UNCHANGED <<today, sweep, lock>>
    BY <1>3 DEF AssignBedWrite
  <2> QED
    BY <2>1, <2>2, StoreKeeps
<1> QED
  BY <1>1, <1>2, <1>3 DEF AssignBed

\* A row with other dates, with and without a new price.
LEMMA MovedRowType ==
  ASSUME IInv, NEW r \in Requests, req[r].b \in Bookings
  PROVE  LET row == [booking[req[r].b] EXCEPT !.from = req[r].from, !.to = req[r].to]
             priced == [booking[req[r].b] EXCEPT
                          !.from = req[r].from, !.to = req[r].to,
                          !.nights = billedNights(req[r].from, req[r].to)]
         IN /\ row \in BookingRow /\ row.st # "NONE"
            /\ priced \in BookingRow /\ priced.st # "NONE"
<1>1. req[r] \in RequestSlot /\ booking[req[r].b] \in BookingRow
  BY DEF IInv, TypeOK
<1>2. booking[req[r].b].st # "NONE"
  BY ReservationAssumption DEF IInv, SlotsRemember, exists
<1>3. billedNights(req[r].from, req[r].to) \in Int
  BY <1>1, ReservationAssumption DEF RequestSlot, Days, billedNights
<1> DEFINE row == [booking[req[r].b] EXCEPT !.from = req[r].from, !.to = req[r].to]
           priced == [row EXCEPT !.nights = billedNights(req[r].from, req[r].to)]
<1>4. req[r].from \in Days /\ req[r].to \in Days
  BY <1>1 DEF RequestSlot
<1>5. row \in BookingRow /\ row.st = booking[req[r].b].st
  BY <1>1, <1>4 DEF BookingRow
<1>6. priced \in BookingRow /\ priced.st = row.st
  <2> HIDE DEF row
  <2> QED
    BY <1>3, <1>5 DEF BookingRow
<1> QED
  BY <1>1, <1>2, <1>5, <1>6 DEF BookingRow

LEMMA ChangeDatesKeeps ==
  ASSUME IInv, NEW r \in Requests, ChangeDates(r)
  PROVE  IInv'
<1>1. ASSUME NEW b \in Bookings, NEW stay \in Stays, DateChangeRead(r, b, stay)
      PROVE  IInv'
  <2>1. PICK op \in {"moveGuest", "moveAdmin"} :
          /\ exists(b) /\ UNCHANGED <<today, booking, sweep, lock>>
          /\ Begin(r, [Idle EXCEPT !.op = op, !.stage = "count", !.b = b,
                             !.bed = booking[b].bed, !.tpl = booking[b].tpl,
                             !.from = stay[1], !.to = stay[2]])
    BY <1>1 DEF DateChangeRead
  <2> DEFINE slot == [Idle EXCEPT !.op = op, !.stage = "count", !.b = b,
                             !.bed = booking[b].bed, !.tpl = booking[b].tpl,
                             !.from = stay[1], !.to = stay[2]]
  <2>2. stay \in Days \X Days /\ booking[b] \in BookingRow
    BY ReservationAssumption DEF IInv, TypeOK
  <2>3. slot \in RequestSlot
    <3>1. /\ stay[1] \in Days /\ stay[2] \in Days
          /\ booking[b].bed \in Beds \cup {None} /\ booking[b].tpl \in Templates \cup {None}
      BY <2>2 DEF BookingRow
    <3>2. op \in Operations /\ "count" \in Stages
      BY DEF Operations, Stages
    <3> QED
      BY <3>1, <3>2, IdleType DEF RequestSlot
  <2>4. slot.op = op /\ slot.b = b
    BY DEF Idle
  <2> QED
    BY <2>1, <2>3, <2>4, BeginKeeps
<1>2. ASSUME NEW b \in Bookings, NEW stay \in Stays, PatchRead(r, b, stay)
      PROVE  IInv'
  <2> DEFINE slot == [Idle EXCEPT !.op = "patch", !.stage = "count", !.b = b,
                           !.bed = booking[b].bed,
                           !.from = stay[1], !.to = stay[2]]
  <2>1. stay \in Days \X Days /\ booking[b] \in BookingRow
    BY ReservationAssumption DEF IInv, TypeOK
  <2>2. slot \in RequestSlot
    BY <2>1, IdleType DEF RequestSlot, Stages, Idle, Operations, BookingRow
  <2>3. slot.op = "patch" /\ slot.b = b
    BY DEF Idle
  <2>4. /\ Begin(r, slot) /\ exists(b) /\ UNCHANGED <<today, booking, sweep, lock>>
        /\ Exempt
    BY <1>2 DEF PatchRead, visibleToPlain
  <2> QED
    BY <2>2, <2>3, <2>4, BeginKeeps
<1>3. CASE DateChangeCount(r) \/ PatchCount(r)
  BY <1>3, GotoKeeps DEF DateChangeCount, PatchCount, Stages
<1>4. CASE DateChangeWrite(r)
  <2> DEFINE row == [booking[req[r].b] EXCEPT !.from = req[r].from, !.to = req[r].to,
                        !.nights = billedNights(req[r].from, req[r].to)]
  <2>1. ASSUME req[r].b \in Bookings PROVE row \in BookingRow /\ row.st # "NONE"
    BY <2>1, MovedRowType
  <2>2. Store(req[r].b, row) /\ Respond(r) /\ UNCHANGED <<today, sweep, lock>>
    BY <1>4 DEF DateChangeWrite
  <2> QED
    BY <2>1, <2>2, StoreKeeps
<1>5. CASE PatchWrite(r)
  <2> DEFINE row == [booking[req[r].b] EXCEPT !.from = req[r].from, !.to = req[r].to]
  <2>1. ASSUME req[r].b \in Bookings PROVE row \in BookingRow /\ row.st # "NONE"
    BY <2>1, MovedRowType
  <2>2. Store(req[r].b, row) /\ Respond(r) /\ UNCHANGED <<today, sweep, lock>>
    BY <1>5 DEF PatchWrite
  <2> QED
    BY <2>1, <2>2, StoreKeeps
<1> QED
  BY <1>1, <1>2, <1>3, <1>4, <1>5 DEF ChangeDates

LEMMA MarkPaidKeeps ==
  ASSUME IInv, NEW r \in Requests, MarkPaid(r)
  PROVE  IInv'
<1>1. ASSUME NEW b \in Bookings, MarkPaidRead(r, b) PROVE IInv'
  BY <1>1, DecideKeeps DEF MarkPaidRead, Operations
<1>2. CASE MarkPaidWrite(r)
  <2> DEFINE row == [booking[req[r].b] EXCEPT !.payment = "PAID"]
  <2>1. ASSUME req[r].b \in Bookings PROVE row \in BookingRow /\ row.st # "NONE"
    <3>1. booking[req[r].b] \in BookingRow
      BY <2>1 DEF IInv, TypeOK
    <3>2. booking[req[r].b].st # "NONE"
      BY <2>1, ReservationAssumption DEF IInv, SlotsRemember, exists
    <3> QED
      BY <3>1, <3>2 DEF BookingRow
  <2>2. Store(req[r].b, row) /\ Respond(r) /\ UNCHANGED <<today, sweep, lock>>
    BY <1>2 DEF MarkPaidWrite
  <2> QED
    BY <2>1, <2>2, StoreKeeps
<1> QED
  BY <1>1, <1>2 DEF MarkPaid

-----------------------------------------------------------------------------
(* The sweep. *)

LEMMA AdvanceType ==
  ASSUME IInv, NEW listed, NEW old, NEW new \in BookingStatus, Advance(listed, old, new)
  PROVE  /\ booking' \in [Bookings -> BookingRow]
         /\ \A b \in Bookings : exists(b) => exists(b)'
<1>1. booking \in [Bookings -> BookingRow]
  BY DEF IInv, TypeOK
<1>2. ASSUME NEW b \in Bookings
      PROVE  /\ [booking[b] EXCEPT !.st = new] \in BookingRow
             /\ [booking[b] EXCEPT !.st = new].st # "NONE"
  BY <1>1 DEF BookingRow, BookingStatus, ACTIVE_BOOKING_STATUSES, TERMINAL_BOOKING_STATUSES
<1> QED
  BY <1>1, <1>2 DEF Advance, exists

\* A step that opens no slot and removes no row.
LEMMA SlotsKept ==
  ASSUME SlotsRemember, TypeOK, UNCHANGED req, \A b \in Bookings : exists(b) => exists(b)'
  PROVE  SlotsRemember'
BY DEF SlotsRemember, TypeOK, RequestSlot

LEMMA SweepKeeps ==
  ASSUME IInv, NEW s \in Sweepers, Sweep(s)
  PROVE  IInv'
<1>1. req' = req /\ today' = today
  BY DEF Sweep, SweepStart, SweepListEnded, SweepWriteStarted, SweepWriteEnded,
     SweepRelease, SweepCrash
<1>2. lock' \in BOOLEAN
  <2>1. lock' = lock \/ lock' = TRUE \/ lock' = FALSE
    BY DEF Sweep, SweepStart, SweepListEnded, SweepWriteStarted, SweepWriteEnded,
       SweepRelease, SweepCrash
  <2>2. lock \in BOOLEAN
    BY DEF IInv, TypeOK
  <2> QED
    BY <2>1, <2>2
<1>3. /\ booking' \in [Bookings -> BookingRow]
      /\ \A b \in Bookings : exists(b) => exists(b)'
  <2>1. CASE SweepWriteStarted(s)
    BY <2>1, AdvanceType DEF SweepWriteStarted, BookingStatus, ACTIVE_BOOKING_STATUSES
  <2>2. CASE SweepWriteEnded(s)
    BY <2>2, AdvanceType DEF SweepWriteEnded, BookingStatus, TERMINAL_BOOKING_STATUSES
  <2>3. CASE UNCHANGED booking
    BY <2>3 DEF IInv, TypeOK, exists
  <2> QED
    BY <2>1, <2>2, <2>3
    DEF Sweep, SweepStart, SweepListEnded, SweepRelease, SweepCrash
<1>4. sweep' \in [Sweepers -> SweepSlot]
  <2>0. sweep \in [Sweepers -> SweepSlot] /\ today \in Days
    BY DEF IInv, TypeOK
  <2>1. CASE SweepStart(s)
    BY <2>0, <2>1 DEF SweepStart, SweepSlot, visibleToPlain
  <2>2. CASE SweepListEnded(s)
    <3> DEFINE listed == {b \in visibleToPlain : /\ booking[b].st = "ONGOING"
                                                 /\ hasEnded(booking[b].to, sweep[s].day)}
    <3>1. listed \in SUBSET Bookings
      BY DEF visibleToPlain
    <3>2. 0 \in Days
      BY ReservationAssumption DEF Days
    <3>3. sweep' = [sweep EXCEPT ![s].stage = "writeStarted", ![s].day = 0,
                                 ![s].ended = listed]
      BY <2>2 DEF SweepListEnded
    <3> HIDE DEF listed
    <3> QED
      BY <2>0, <3>1, <3>2, <3>3 DEF SweepSlot
  <2>3. CASE SweepWriteStarted(s) \/ SweepWriteEnded(s)
    BY <2>0, <2>3 DEF SweepWriteStarted, SweepWriteEnded, SweepSlot
  <2>4. CASE SweepRelease(s) \/ SweepCrash(s)
    <3>1. Asleep \in SweepSlot
      BY ReservationAssumption DEF Asleep, SweepSlot, Days
    <3> QED
      BY <2>0, <2>4, <3>1 DEF SweepRelease, SweepCrash
  <2> QED
    BY <2>1, <2>2, <2>3, <2>4 DEF Sweep
<1>5. TypeOK'
  BY <1>1, <1>2, <1>3, <1>4 DEF IInv, TypeOK
<1>6. SlotsRemember'
  BY <1>1, <1>3, SlotsKept DEF IInv
<1> QED
  BY <1>5, <1>6 DEF IInv

-----------------------------------------------------------------------------
(* Every step keeps the invariant. *)

LEMMA HandlerKeeps ==
  ASSUME IInv, NEW r \in Requests, Handler(r)
  PROVE  IInv'
<1>1. CASE Abandon(r)
  BY <1>1, RespondKeeps DEF Abandon
<1> QED
  BY <1>1, CreateBookingKeeps, ChangeStatusKeeps, AssignBedKeeps, ChangeDatesKeeps,
     MarkPaidKeeps DEF Handler

LEMMA NextKeeps ==
  ASSUME IInv, [Next]_vars
  PROVE  IInv'
<1>1. CASE \E r \in Requests : Handler(r)
  BY <1>1, HandlerKeeps
<1>2. CASE \E s \in Sweepers : Sweep(s)
  BY <1>2, SweepKeeps
<1>3. CASE LockExpires \/ Midnight
  <2>1. today' \in Days
    BY <1>3, ReservationAssumption DEF LockExpires, Midnight, Days, IInv, TypeOK
  <2>2. lock' \in BOOLEAN
    <3>1. lock' = lock \/ lock' = FALSE
      BY <1>3 DEF LockExpires, Midnight
    <3>2. lock \in BOOLEAN
      BY DEF IInv, TypeOK
    <3> QED
      BY <3>1, <3>2
  <2>3. UNCHANGED <<booking, req, sweep>>
    BY <1>3 DEF LockExpires, Midnight
  <2>4. TypeOK'
    BY <2>1, <2>2, <2>3 DEF IInv, TypeOK
  <2>5. SlotsRemember'
    BY <2>3, SlotsKept DEF IInv, exists
  <2> QED
    BY <2>4, <2>5 DEF IInv
<1>4. CASE UNCHANGED vars
  BY <1>4 DEF vars, IInv, TypeOK, SlotsRemember, exists
<1> QED
  BY <1>1, <1>2, <1>3, <1>4 DEF Next

\* The strengthening the theorems below start from.
LEMMA IInvHolds == Spec => []IInv
<1>1. IInv /\ [Next]_vars => IInv'
  BY NextKeeps
<1> QED
  BY InitIInv, <1>1, PTL DEF Spec

\* No interleaving of handlers, sweeps and midnights puts anything into the
\* booking table, a request slot or a sweeper that does not belong there: the
\* code reads a null for a bed, a status or a date nowhere it does not expect one.
THEOREM TypeCorrect == Spec => []TypeOK
<1>1. IInv => TypeOK
  BY DEF IInv
<1> QED
  BY IInvHolds, <1>1, PTL
=============================================================================
