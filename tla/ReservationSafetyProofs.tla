----------------------- MODULE ReservationSafetyProofs -----------------------
(***************************************************************************)
(* What every reachable booking table satisfies, and what no step does to    *)
(* it, for every value of the constants.  IInv of ReservationProofs carries  *)
(* the types; StepShape says what a step may do to the table, and each       *)
(* theorem is an argument about the few shapes a step can have.              *)
(***************************************************************************)
EXTENDS ReservationProofs

-----------------------------------------------------------------------------
(* The shapes of a step. *)

\* The rows handlers store: a new booking, or one aspect of an existing one.
Created(b, row) ==
  /\ ~exists(b)
  /\ row.st = "PENDING"
  /\ row.bed = None
  /\ row.nights = billedNights(row.from, row.to)
  /\ ~keyUsed(row.key)

Restated(b, row) ==
  /\ exists(b)
  /\ \/ row = [booking[b] EXCEPT !.st = "CANCELLED"]
     \/ row = [booking[b] EXCEPT !.st = "REJECTED"]
     \/ "approve" \in Traffic /\ row = [booking[b] EXCEPT !.st = "CONFIRMED"]

Moved(b, row) ==
  /\ exists(b)
  /\ \E from, to \in Days :
       \/ /\ Traffic \cap {"moveGuest", "moveAdmin"} # {}
          /\ row = [booking[b] EXCEPT !.from = from, !.to = to,
                                      !.nights = billedNights(from, to)]
       \/ /\ "patch" \in Traffic /\ Exempt
          /\ row = [booking[b] EXCEPT !.from = from, !.to = to]

Equipped(b, row) ==
  /\ exists(b)
  /\ \/ \E bed \in Beds : row = [booking[b] EXCEPT !.bed = bed]
     \/ row = [booking[b] EXCEPT !.payment = "PAID"]

Altered(b, row) == Restated(b, row) \/ Moved(b, row) \/ Equipped(b, row)

Stored(b, row) == Created(b, row) \/ Altered(b, row)

RowAltered ==
  \E b \in Bookings, row \in BookingRow : Altered(b, row) /\ Store(b, row)

RowStored ==
  \E b \in Bookings, row \in BookingRow : Stored(b, row) /\ Store(b, row)

CheckedIn == \E s \in Sweepers : SweepWriteStarted(s)

CheckedOut == \E s \in Sweepers : SweepWriteEnded(s)

\* A handler that writes a booking read earlier, and what its slot guarantees.
LEMMA WriterSlot ==
  ASSUME IInv, NEW r \in Requests, req[r].b \in Bookings
  PROVE  /\ exists(req[r].b)
         /\ booking[req[r].b] \in BookingRow
         /\ req[r] \in RequestSlot
         /\ req[r].op # "none" => req[r].op \in Traffic
         /\ req[r].op = "patch" => Exempt
BY ReservationAssumption DEF IInv, TypeOK, SlotsRemember

\* An UPDATE by an id that is not there changes no row.
LEMMA StoreNowhere ==
  ASSUME IInv, NEW b, b \notin Bookings, NEW row, Store(b, row)
  PROVE  booking' = booking
BY DEF Store, IInv, TypeOK

LEMMA StatusShape ==
  ASSUME IInv, NEW r \in Requests, NEW op, NEW status, WriteStatus(r, op, status),
         status \in {"CANCELLED", "REJECTED"} \/ (op = "approve" /\ status = "CONFIRMED")
  PROVE  RowAltered \/ UNCHANGED booking
<1> DEFINE row == [booking[req[r].b] EXCEPT !.st = status]
<1>1. Store(req[r].b, row) /\ At(r, op, "write")
  BY DEF WriteStatus
<1>2. CASE req[r].b \in Bookings
  <2>1. exists(req[r].b) /\ booking[req[r].b] \in BookingRow
    BY <1>2, WriterSlot
  <2>2. row \in BookingRow
    BY <2>1 DEF BookingRow, BookingStatus, ACTIVE_BOOKING_STATUSES, TERMINAL_BOOKING_STATUSES
  <2>3. ASSUME op = "approve" PROVE "approve" \in Traffic
    BY <1>1, <1>2, <2>3, WriterSlot DEF At
  <2>4. Restated(req[r].b, row)
    BY <2>1, <2>3 DEF Restated
  <2> QED
    BY <1>1, <1>2, <2>2, <2>4 DEF RowAltered, Altered
<1> QED
  BY <1>1, <1>2, StoreNowhere

LEMMA CreateShape ==
  ASSUME IInv, NEW r \in Requests, NEW b \in Bookings, CreateBookingCommit(r, b)
  PROVE  RowStored
<1> DEFINE row == [NoRow EXCEPT !.st = "PENDING", !.guest = req[r].guest,
                            !.tpl = req[r].tpl,
                            !.from = req[r].from, !.to = req[r].to,
                            !.nights = billedNights(req[r].from, req[r].to),
                            !.mode = req[r].mode, !.key = req[r].key]
<1>1. req[r] \in RequestSlot
  BY DEF IInv, TypeOK
<1>2. billedNights(req[r].from, req[r].to) \in Int
  BY <1>1, ReservationAssumption DEF RequestSlot, Days, billedNights
<1>3. row \in BookingRow
  BY <1>1, <1>2 DEF RequestSlot, NoRow, BookingRow, BookingStatus, ACTIVE_BOOKING_STATUSES
<1>4. /\ row.st = "PENDING" /\ row.bed = None /\ row.key = req[r].key
      /\ row.nights = billedNights(row.from, row.to)
  BY DEF NoRow
<1>5. Created(b, row) /\ Store(b, row)
  BY <1>4 DEF Created, CreateBookingCommit
<1> QED
  BY <1>3, <1>5 DEF RowStored, Stored

LEMMA AssignShape ==
  ASSUME IInv, NEW r \in Requests, AssignBedWrite(r)
  PROVE  RowAltered \/ UNCHANGED booking
<1> DEFINE row == [booking[req[r].b] EXCEPT !.bed = req[r].bed]
<1>1. Store(req[r].b, row) /\ At(r, "assign", "write")
  BY DEF AssignBedWrite
<1>2. CASE req[r].b \in Bookings
  <2>1. exists(req[r].b) /\ booking[req[r].b] \in BookingRow
    BY <1>2, WriterSlot
  <2>2. req[r].bed \in Beds
    BY <1>1 DEF IInv, SlotsRemember, At
  <2>3. row \in BookingRow
    BY <2>1, <2>2 DEF BookingRow
  <2>4. Equipped(req[r].b, row)
    BY <2>1, <2>2 DEF Equipped
  <2> QED
    BY <1>1, <1>2, <2>3, <2>4 DEF RowAltered, Altered
<1> QED
  BY <1>1, <1>2, StoreNowhere

LEMMA DateChangeShape ==
  ASSUME IInv, NEW r \in Requests, DateChangeWrite(r)
  PROVE  RowAltered \/ UNCHANGED booking
<1> DEFINE row == [booking[req[r].b] EXCEPT !.from = req[r].from, !.to = req[r].to,
                        !.nights = billedNights(req[r].from, req[r].to)]
<1>1. Store(req[r].b, row) /\ AtMove(r, "write")
  BY DEF DateChangeWrite
<1>2. CASE req[r].b \in Bookings
  <2>1. exists(req[r].b) /\ req[r] \in RequestSlot
    BY <1>2, WriterSlot
  <2>2. row \in BookingRow
    BY <1>2, MovedRowType
  <2>3. Traffic \cap {"moveGuest", "moveAdmin"} # {}
    BY <1>1, <1>2, WriterSlot DEF AtMove, At
  <2>4. req[r].from \in Days /\ req[r].to \in Days
    BY <2>1 DEF RequestSlot
  <2>5. Moved(req[r].b, row)
    BY <2>1, <2>3, <2>4 DEF Moved
  <2> QED
    BY <1>1, <1>2, <2>2, <2>5 DEF RowAltered, Altered
<1> QED
  BY <1>1, <1>2, StoreNowhere

LEMMA PatchShape ==
  ASSUME IInv, NEW r \in Requests, PatchWrite(r)
  PROVE  RowAltered \/ UNCHANGED booking
<1> DEFINE row == [booking[req[r].b] EXCEPT !.from = req[r].from, !.to = req[r].to]
<1>1. Store(req[r].b, row) /\ At(r, "patch", "write")
  BY DEF PatchWrite
<1>2. CASE req[r].b \in Bookings
  <2>1. exists(req[r].b) /\ req[r] \in RequestSlot
    BY <1>2, WriterSlot
  <2>2. row \in BookingRow
    BY <1>2, MovedRowType
  <2>3. "patch" \in Traffic /\ Exempt
    BY <1>1, <1>2, WriterSlot DEF At
  <2>4. req[r].from \in Days /\ req[r].to \in Days
    BY <2>1 DEF RequestSlot
  <2>5. Moved(req[r].b, row)
    BY <2>1, <2>3, <2>4 DEF Moved
  <2> QED
    BY <1>1, <1>2, <2>2, <2>5 DEF RowAltered, Altered
<1> QED
  BY <1>1, <1>2, StoreNowhere

LEMMA MarkPaidShape ==
  ASSUME IInv, NEW r \in Requests, MarkPaidWrite(r)
  PROVE  RowAltered \/ UNCHANGED booking
<1> DEFINE row == [booking[req[r].b] EXCEPT !.payment = "PAID"]
<1>1. Store(req[r].b, row)
  BY DEF MarkPaidWrite
<1>2. CASE req[r].b \in Bookings
  <2>1. exists(req[r].b) /\ booking[req[r].b] \in BookingRow
    BY <1>2, WriterSlot
  <2>2. row \in BookingRow
    BY <2>1 DEF BookingRow
  <2>3. Equipped(req[r].b, row)
    BY <2>1 DEF Equipped
  <2> QED
    BY <1>1, <1>2, <2>2, <2>3 DEF RowAltered, Altered
<1> QED
  BY <1>1, <1>2, StoreNowhere

LEMMA StepShape ==
  ASSUME IInv, [Next]_vars
  PROVE  \/ UNCHANGED booking
         \/ \E r \in Requests, b \in Bookings : CreateBookingCommit(r, b)
         \/ RowAltered \/ CheckedIn \/ CheckedOut
<1>1. ASSUME NEW r \in Requests, Handler(r)
      PROVE  UNCHANGED booking \/ RowAltered \/ \E b \in Bookings : CreateBookingCommit(r, b)
  <2>1. CASE CreateBooking(r)
    BY <2>1 DEF CreateBooking, CreateBookingReceive, CreateBookingCount
  <2>2. CASE ChangeStatus(r)
    BY <2>2, StatusShape
    DEF ChangeStatus, CancelBookingRead, CancelAdminBookingRead, UpdateBookingStatusRead,
        VerifyFailedRead, Decide, CancelBookingWrite, CancelAdminBookingWrite,
        UpdateBookingStatusWrite, VerifyFailedWrite
  <2>3. CASE AssignBed(r)
    BY <2>3, AssignShape DEF AssignBed, AssignBedRead, AssignBedCount
  <2>4. CASE ChangeDates(r)
    BY <2>4, DateChangeShape, PatchShape
    DEF ChangeDates, DateChangeRead, PatchRead, DateChangeCount, PatchCount
  <2>5. CASE MarkPaid(r)
    BY <2>5, MarkPaidShape DEF MarkPaid, MarkPaidRead, Decide
  <2>6. CASE Abandon(r)
    BY <2>6 DEF Abandon
  <2> QED
    BY <1>1, <2>1, <2>2, <2>3, <2>4, <2>5, <2>6 DEF Handler
<1>2. ASSUME NEW s \in Sweepers, Sweep(s) PROVE UNCHANGED booking \/ CheckedIn \/ CheckedOut
  BY <1>2 DEF Sweep, SweepStart, SweepListEnded, SweepRelease, SweepCrash,
     CheckedIn, CheckedOut
<1>3. CASE LockExpires \/ Midnight \/ UNCHANGED vars
  BY <1>3 DEF LockExpires, Midnight, vars
<1> QED
  BY <1>1, <1>2, <1>3 DEF Next

\* The same, for arguments to which a new row is a row like others.
LEMMA TableStep ==
  ASSUME IInv, [Next]_vars
  PROVE  UNCHANGED booking \/ RowStored \/ CheckedIn \/ CheckedOut
BY StepShape, CreateShape DEF RowAltered, RowStored, Stored

\* A write the database accepts changes the one row it names.
LEMMA RowWritten ==
  ASSUME IInv, NEW b \in Bookings, NEW row \in BookingRow, Store(b, row), booking' # booking
  PROVE  /\ admissible(b, row)
         /\ booking'[b] = row
         /\ \A c \in Bookings \ {b} : booking'[c] = booking[c]
BY DEF Store, IInv, TypeOK

LEMMA CheckedInRow ==
  ASSUME CheckedIn, NEW b \in Bookings
  PROVE  \/ booking'[b] = booking[b]
         \/ /\ booking[b].st = "CONFIRMED"
            /\ booking'[b] = [booking[b] EXCEPT !.st = "ONGOING"]
            /\ \E s \in Sweepers : b \in sweep[s].started
BY DEF CheckedIn, SweepWriteStarted, Advance

LEMMA CheckedOutRow ==
  ASSUME CheckedOut, NEW b \in Bookings
  PROVE  \/ booking'[b] = booking[b]
         \/ /\ booking[b].st = "ONGOING"
            /\ booking'[b] = [booking[b] EXCEPT !.st = "COMPLETED"]
BY DEF CheckedOut, SweepWriteEnded, Advance

-----------------------------------------------------------------------------
(* One booking per idempotency key. *)

LEMMA KeyStep ==
  ASSUME IInv, OneBookingPerKey, [Next]_vars
  PROVE  OneBookingPerKey'
<1>1. CASE UNCHANGED booking
  BY <1>1 DEF OneBookingPerKey, exists
<1>2. CASE RowStored /\ booking' # booking
  <2>1. PICK b \in Bookings, row \in BookingRow : Stored(b, row) /\ Store(b, row)
    BY <1>2 DEF RowStored
  <2>2. /\ booking'[b] = row
        /\ \A c \in Bookings \ {b} : booking'[c] = booking[c]
    BY <1>2, <2>1, RowWritten
  <2>3. CASE Created(b, row)
    BY <2>2, <2>3 DEF OneBookingPerKey, Created, keyUsed, exists
  <2>4. CASE Restated(b, row) \/ Moved(b, row) \/ Equipped(b, row)
    <3>1. row.key = booking[b].key /\ exists(b)
      BY <2>4 DEF Restated, Moved, Equipped, IInv, TypeOK, BookingRow
    <3> QED
      BY <2>2, <3>1 DEF OneBookingPerKey, exists
  <2> QED
    BY <2>1, <2>3, <2>4 DEF Stored, Altered
<1>3. CASE CheckedIn \/ CheckedOut
  <2> SUFFICES ASSUME NEW b \in Bookings
               PROVE  booking'[b].key = booking[b].key /\ (exists(b)' => exists(b))
    BY DEF OneBookingPerKey
  <2>1. booking[b] \in BookingRow
    BY DEF IInv, TypeOK
  <2>2. CASE booking'[b] = booking[b]
    BY <2>2 DEF exists
  <2>3. CASE \E st : booking'[b] = [booking[b] EXCEPT !.st = st] /\ booking[b].st # "NONE"
    BY <2>1, <2>3 DEF exists, BookingRow
  <2> QED
    BY <1>3, <2>2, <2>3, CheckedInRow, CheckedOutRow
<1> QED
  BY <1>1, <1>2, <1>3, TableStep

\* However many retries of one idempotency key are in flight together, and
\* whatever else happens to the booking in between, createBooking inserts one
\* booking for it.
THEOREM RetriesCreateOneBooking == Spec => []OneBookingPerKey
<1>1. Init => OneBookingPerKey
  BY DEF Init, NoRow, OneBookingPerKey, exists
<1>2. IInv /\ OneBookingPerKey /\ [Next]_vars => OneBookingPerKey'
  BY KeyStep
<1> QED
  BY IInvHolds, <1>1, <1>2, PTL DEF Spec

-----------------------------------------------------------------------------
(* Nobody is checked in without a bed. *)

\* StayHasBed is not inductive: the sweep checks a list in that it made earlier.
StayInv ==
  /\ StayHasBed
  /\ \A s \in Sweepers : \A b \in sweep[s].started : exists(b) /\ booking[b].bed # None

\* A bed, once assigned, is exchanged and never taken away.
LEMMA BedsStay ==
  ASSUME IInv, [Next]_vars, NEW b \in Bookings, exists(b), booking[b].bed # None
  PROVE  exists(b)' /\ booking'[b].bed # None
<1>0. booking[b] \in BookingRow
  BY DEF IInv, TypeOK
<1>1. CASE RowStored /\ booking' # booking
  <2>1. PICK c \in Bookings, row \in BookingRow : Stored(c, row) /\ Store(c, row)
    BY <1>1 DEF RowStored
  <2>2. /\ booking'[c] = row
        /\ \A d \in Bookings \ {c} : booking'[d] = booking[d]
    BY <1>1, <2>1, RowWritten
  <2>3. CASE c # b
    BY <2>2, <2>3 DEF exists
  <2>4. CASE c = b
    <3>1. CASE Restated(b, row)
      BY <1>0, <3>1, <2>2, <2>4 DEF Restated, BookingRow, exists
    <3>2. CASE Moved(b, row)
      BY <1>0, <3>2, <2>2, <2>4 DEF Moved, BookingRow, exists
    <3>3. CASE Equipped(b, row)
      BY <1>0, <3>3, <2>2, <2>4, ReservationAssumption DEF Equipped, BookingRow, exists
    <3>4. ~Created(b, row)
      BY DEF Created
    <3> QED
      BY <2>1, <2>4, <3>1, <3>2, <3>3, <3>4 DEF Stored, Altered
  <2> QED
    BY <2>3, <2>4
<1>2. CASE CheckedIn \/ CheckedOut
  BY <1>0, <1>2, CheckedInRow, CheckedOutRow DEF BookingRow, exists
<1>3. CASE UNCHANGED booking
  BY <1>3 DEF exists
<1> QED
  BY <1>1, <1>2, <1>3, TableStep

\* The sweep lists bookings that have a bed.
LEMMA ListedHaveBeds ==
  ASSUME IInv, StayInv, [Next]_vars, NEW s \in Sweepers, NEW b \in sweep'[s].started
  PROVE  exists(b)' /\ booking'[b].bed # None
<1>1. CASE b \in sweep[s].started
  <2>1. b \in Bookings
    BY <1>1 DEF IInv, TypeOK, SweepSlot
  <2> QED
    BY <1>1, <2>1, BedsStay DEF StayInv
<1>2. CASE b \notin sweep[s].started
  <2>1. sweep \in [Sweepers -> SweepSlot]
    BY DEF IInv, TypeOK
  <2>2. ASSUME NEW z \in Sweepers, Sweep(z), ~SweepStart(z) PROVE FALSE
    BY <1>2, <2>1, <2>2
    DEF Sweep, SweepListEnded, SweepWriteStarted, SweepWriteEnded, SweepRelease,
        SweepCrash, SweepSlot, Asleep
  <2>3. ASSUME NEW r \in Requests, Handler(r) PROVE UNCHANGED sweep
    BY <2>3 DEF Handler, CreateBooking, CreateBookingReceive, CreateBookingCount,
       CreateBookingCommit, ChangeStatus, CancelBookingRead, CancelAdminBookingRead,
       UpdateBookingStatusRead, VerifyFailedRead, Decide, CancelBookingWrite,
       CancelAdminBookingWrite, UpdateBookingStatusWrite, VerifyFailedWrite, WriteStatus,
       AssignBed, AssignBedRead, AssignBedCount, AssignBedWrite, ChangeDates,
       DateChangeRead, PatchRead, DateChangeCount, DateChangeWrite, PatchCount,
       PatchWrite, MarkPaid, MarkPaidRead, MarkPaidWrite, Abandon
  <2>4. PICK z \in Sweepers : SweepStart(z)
    BY <1>2, <2>2, <2>3 DEF Next, LockExpires, Midnight, vars
  <2>5. b \in Bookings /\ booking[b].st = "CONFIRMED" /\ booking[b].bed # None
    BY <1>2, <2>1, <2>4 DEF SweepStart, SweepSlot, visibleToPlain
  <2>6. UNCHANGED booking
    BY <2>4 DEF SweepStart
  <2> QED
    BY <2>5, <2>6 DEF exists
<1> QED
  BY <1>1, <1>2

LEMMA StayStep ==
  ASSUME IInv, StayInv, [Next]_vars
  PROVE  StayInv'
<1>1. StayHasBed'
  <2> SUFFICES ASSUME NEW b \in Bookings, booking'[b].st \in {"ONGOING", "COMPLETED"}
               PROVE  booking'[b].bed # None
    BY DEF StayHasBed
  <2>1. CASE exists(b) /\ booking[b].bed # None
    BY <2>1, BedsStay
  <2>2. CASE ~(exists(b) /\ booking[b].bed # None)
    <3>0. booking[b] \in BookingRow
      BY DEF IInv, TypeOK
    <3>1. booking[b].st \notin {"ONGOING", "COMPLETED"}
      BY <2>2 DEF StayInv, StayHasBed, exists
    <3>2. CASE UNCHANGED booking
      BY <3>1, <3>2
    <3>3. CASE RowStored /\ booking' # booking
      <4>1. PICK c \in Bookings, row \in BookingRow : Stored(c, row) /\ Store(c, row)
        BY <3>3 DEF RowStored
      <4>2. /\ booking'[c] = row
            /\ \A d \in Bookings \ {c} : booking'[d] = booking[d]
        BY <3>3, <4>1, RowWritten
      <4>3. c = b /\ row.st \in {"ONGOING", "COMPLETED"}
        BY <3>1, <4>2
      <4> QED
        BY <3>0, <3>1, <4>1, <4>3
        DEF Stored, Altered, Created, Restated, Moved, Equipped, BookingRow
    <3>4. CASE CheckedIn \/ CheckedOut
      BY <2>2, <3>0, <3>1, <3>4, CheckedInRow, CheckedOutRow DEF StayInv, BookingRow
    <3> QED
      BY <3>2, <3>3, <3>4, TableStep
  <2> QED
    BY <2>1, <2>2
<1> QED
  BY <1>1, ListedHaveBeds DEF StayInv

\* The sweep writes ONGOING over a list of rows it read earlier, by id and status
\* alone, and still nobody is checked in without a bed.
THEOREM StaysHaveBeds == Spec => []StayHasBed
<1>1. Init => StayInv
  <2> SUFFICES ASSUME Init PROVE StayInv
    OBVIOUS
  <2>1. StayHasBed
    BY DEF Init, NoRow, StayHasBed
  <2>2. \A s \in Sweepers : sweep[s].started = {}
    BY DEF Init, Asleep
  <2> QED
    BY <2>1, <2>2 DEF StayInv
<1>2. IInv /\ StayInv /\ [Next]_vars => StayInv'
  BY StayStep
<1>3. StayInv => StayHasBed
  BY DEF StayInv
<1> QED
  BY IInvHolds, <1>1, <1>2, <1>3, PTL DEF Spec

-----------------------------------------------------------------------------
(* The price stored with a booking. *)

LEMMA PriceStep ==
  ASSUME IInv, "patch" \notin Traffic \/ ~Exempt, PriceMatchesDates, [Next]_vars
  PROVE  PriceMatchesDates'
<1>1. CASE UNCHANGED booking
  BY <1>1 DEF PriceMatchesDates, exists
<1>2. CASE RowStored /\ booking' # booking
  <2>1. PICK b \in Bookings, row \in BookingRow : Stored(b, row) /\ Store(b, row)
    BY <1>2 DEF RowStored
  <2>2. /\ booking'[b] = row
        /\ \A c \in Bookings \ {b} : booking'[c] = booking[c]
    BY <1>2, <2>1, RowWritten
  <2>3. row.nights = billedNights(row.from, row.to)
    <3>0. booking[b] \in BookingRow
      BY DEF IInv, TypeOK
    <3>1. CASE Created(b, row)
      BY <3>1 DEF Created
    <3>2. CASE Restated(b, row)
      BY <3>0, <3>2 DEF Restated, PriceMatchesDates, BookingRow
    <3>3. CASE Moved(b, row)
      BY <3>0, <3>3 DEF Moved, BookingRow
    <3>4. CASE Equipped(b, row)
      BY <3>0, <3>4 DEF Equipped, PriceMatchesDates, BookingRow
    <3> QED
      BY <2>1, <3>1, <3>2, <3>3, <3>4 DEF Stored, Altered
  <2> QED
    BY <2>2, <2>3 DEF PriceMatchesDates, exists
<1>3. CASE CheckedIn \/ CheckedOut
  <2>1. ASSUME NEW b \in Bookings
        PROVE  /\ exists(b)' => exists(b)
               /\ booking'[b].nights = booking[b].nights
               /\ booking'[b].from = booking[b].from
               /\ booking'[b].to = booking[b].to
    <3>1. booking[b] \in BookingRow
      BY DEF IInv, TypeOK
    <3>2. \/ booking'[b] = booking[b]
          \/ \E st \in {"ONGOING", "COMPLETED"} :
               booking[b].st # "NONE" /\ booking'[b] = [booking[b] EXCEPT !.st = st]
      BY <1>3, CheckedInRow, CheckedOutRow
    <3> QED
      BY <3>1, <3>2 DEF exists, BookingRow
  <2> QED
    BY <2>1 DEF PriceMatchesDates
<1> QED
  BY <1>1, <1>2, <1>3, TableStep

\* Unless the old PATCH route, which moves a booking and leaves its price, is used
\* and row-level security does not keep it from its row, the stored price is the
\* price of the stored dates, whoever else moves the booking at the same time.
THEOREM PriceFollowsDates ==
  ASSUME "patch" \notin Traffic \/ ~Exempt
  PROVE  Spec => []PriceMatchesDates
<1>1. Init => PriceMatchesDates
  BY DEF Init, NoRow, PriceMatchesDates, exists
<1>2. IInv /\ PriceMatchesDates /\ [Next]_vars => PriceMatchesDates'
  BY PriceStep
<1> QED
  BY IInvHolds, <1>1, <1>2, PTL DEF Spec

-----------------------------------------------------------------------------
(* Beds: the table implements the abstract bed calendar. *)

\* Two rows that hold one bed and whose ranges do not meet share no night.
LEMMA ApartNights ==
  ASSUME NEW row1 \in BookingRow, NEW row2 \in BookingRow,
         row1.from <= row1.to, row2.from <= row2.to, ~rangesMeet(row1, row2)
  PROVE  Nights(row1) \cap Nights(row2) = {}
<1>1. /\ row1.from \in Int /\ row1.to \in Int
      /\ row2.from \in Int /\ row2.to \in Int
  BY ReservationAssumption DEF BookingRow, Days
<1> QED
  BY <1>1 DEF rangesMeet, Nights

\* What the exclusion constraint compares rows with: rows that have an order.
RangesOrdered ==
  \A b \in Bookings : holdsBed(booking[b]) => booking[b].from <= booking[b].to

LEMMA OrderedStep ==
  ASSUME IInv, RangesOrdered, [Next]_vars
  PROVE  RangesOrdered'
<1>1. CASE UNCHANGED booking
  BY <1>1 DEF RangesOrdered
<1>2. CASE RowStored /\ booking' # booking
  BY <1>2, RowWritten DEF RowStored, admissible, RangesOrdered
<1>3. CASE CheckedIn \/ CheckedOut
  <2> SUFFICES ASSUME NEW b \in Bookings, holdsBed(booking'[b])
               PROVE  booking'[b].from <= booking'[b].to
    BY DEF RangesOrdered
  <2>1. booking[b] \in BookingRow
    BY DEF IInv, TypeOK
  <2>2. \/ booking'[b] = booking[b]
        \/ /\ booking[b].st \in {"CONFIRMED", "ONGOING"}
           /\ \E st \in {"ONGOING", "COMPLETED"} :
                booking'[b] = [booking[b] EXCEPT !.st = st]
    BY <1>3, CheckedInRow, CheckedOutRow
  <2> QED
    BY <2>1, <2>2 DEF RangesOrdered, holdsBed, isActive, ACTIVE_BOOKING_STATUSES, BookingRow
<1> QED
  BY <1>1, <1>2, <1>3, TableStep

\* A write that booking_no_double_bed accepts takes free bed-nights only.
LEMMA WriteGrants ==
  ASSUME IInv, RangesOrdered, NEW b \in Bookings, NEW row \in BookingRow,
         Store(b, row), booking' # booking
  PROVE  Calendar!Grant(b, bedNights(row))
<1>1. /\ admissible(b, row)
      /\ booking'[b] = row
      /\ \A c \in Bookings \ {b} : booking'[c] = booking[c]
  BY RowWritten
<1>2. ASSUME NEW c \in Bookings \ {b}
      PROVE  bedNights(row) \cap bedNights(booking[c]) = {}
  <2>1. CASE ~(holdsBed(row) /\ holdsBed(booking[c]))
    BY <2>1 DEF bedNights
  <2>2. CASE holdsBed(row) /\ holdsBed(booking[c]) /\ row.bed # booking[c].bed
    BY <2>2 DEF bedNights
  <2>3. CASE holdsBed(row) /\ holdsBed(booking[c]) /\ row.bed = booking[c].bed
    <3>1. booking[c] \in BookingRow /\ booking[c].from <= booking[c].to
      BY <2>3 DEF IInv, TypeOK, RangesOrdered
    <3>2. row.from <= row.to /\ ~rangesMeet(row, booking[c])
      BY <1>1, <2>3 DEF admissible
    <3>3. Nights(row) \cap Nights(booking[c]) = {}
      BY <3>1, <3>2, ApartNights
    <3> QED
      BY <3>3 DEF bedNights
  <2> QED
    BY <2>1, <2>2, <2>3
<1>3. \A c \in Bookings \ {b} : bedNights(row) \cap bedNightsHeld[c] = {}
  BY <1>2 DEF bedNightsHeld
<1>4. bedNightsHeld' = [bedNightsHeld EXCEPT ![b] = bedNights(row)]
  BY <1>1 DEF bedNightsHeld
<1> QED
  BY <1>3, <1>4 DEF Calendar!Grant

LEMMA NightsInCalendar ==
  ASSUME NEW row \in BookingRow
  PROVE  bedNights(row) \in SUBSET (Beds \X Days)
<1>1. /\ row.from \in Days /\ row.to \in Days /\ row.bed \in Beds \cup {None}
  BY DEF BookingRow
<1>2. Nights(row) \subseteq Days
  BY <1>1, ReservationAssumption DEF Nights, Days
<1> QED
  BY <1>1, <1>2 DEF bedNights, holdsBed

LEMMA CalendarStep ==
  ASSUME IInv, RangesOrdered, [Next]_vars
  PROVE  [Calendar!Next]_bedNightsHeld
<1>1. CASE UNCHANGED booking
  BY <1>1 DEF bedNightsHeld
<1>2. CASE RowStored /\ booking' # booking
  <2>1. PICK b \in Bookings, row \in BookingRow : Store(b, row)
    BY <1>2 DEF RowStored
  <2>2. Calendar!Grant(b, bedNights(row)) /\ bedNights(row) \in SUBSET (Beds \X Days)
    BY <1>2, <2>1, WriteGrants, NightsInCalendar
  <2> QED
    BY <2>2 DEF Calendar!Next
<1>3. CASE CheckedIn
  <2>1. ASSUME NEW b \in Bookings PROVE bedNights(booking'[b]) = bedNights(booking[b])
    <3>1. booking[b] \in BookingRow
      BY DEF IInv, TypeOK
    <3>2. \/ booking'[b] = booking[b]
          \/ /\ booking[b].st = "CONFIRMED"
             /\ booking'[b] = [booking[b] EXCEPT !.st = "ONGOING"]
      BY <1>3, CheckedInRow
    <3> QED
      BY <3>1, <3>2
      DEF bedNights, holdsBed, isActive, ACTIVE_BOOKING_STATUSES, Nights, BookingRow
  <2> QED
    BY <2>1 DEF bedNightsHeld
<1>4. CASE CheckedOut
  <2> DEFINE ended == {b \in Bookings : booking'[b] # booking[b]}
  <2>1. ASSUME NEW b \in Bookings
        PROVE  bedNights(booking'[b])
                 = IF b \in ended THEN {} ELSE bedNights(booking[b])
    <3>1. booking[b] \in BookingRow
      BY DEF IInv, TypeOK
    <3>2. \/ booking'[b] = booking[b]
          \/ booking'[b] = [booking[b] EXCEPT !.st = "COMPLETED"]
      BY <1>4, CheckedOutRow
    <3> QED
      BY <3>1, <3>2
      DEF bedNights, holdsBed, isActive, ACTIVE_BOOKING_STATUSES, BookingRow
  <2>2. Calendar!Vacate(ended)
    BY <2>1 DEF Calendar!Vacate, bedNightsHeld
  <2> QED
    BY <2>2 DEF Calendar!Next
<1> QED
  BY <1>1, <1>2, <1>3, <1>4, TableStep

\* Every behaviour of the booking engine is a behaviour of the bed calendar:
\* handlers that act on rows they read earlier, PATCH without a guard and
\* cancelled bookings brought back included.
THEOREM ReservationKeepsBedCalendar == Spec => KeepsBedCalendar
<1>1. Init => Calendar!Init /\ RangesOrdered
  BY DEF Init, NoRow, Calendar!Init, RangesOrdered, bedNightsHeld, bedNights, holdsBed,
     isActive, ACTIVE_BOOKING_STATUSES
<1>2. IInv /\ RangesOrdered /\ [Next]_vars => RangesOrdered'
  BY OrderedStep
<1>3. IInv /\ RangesOrdered /\ [Next]_vars => [Calendar!Next]_bedNightsHeld
  BY CalendarStep
<1> QED
  BY IInvHolds, <1>1, <1>2, <1>3, PTL DEF Spec, KeepsBedCalendar, Calendar!Spec

\* The bed calendar never sells a bed-night twice, so the booking engine promises
\* no night of a bed to two active bookings, whatever its handlers believed when
\* they wrote.
THEOREM NoBedSoldTwice == Spec => []BedExclusive
<1>1. Calendar!Init => Calendar!NoNightTwice
  BY DEF Calendar!Init, Calendar!NoNightTwice
<1>2. Calendar!NoNightTwice /\ [Calendar!Next]_bedNightsHeld => Calendar!NoNightTwice'
  <2> SUFFICES ASSUME Calendar!NoNightTwice, [Calendar!Next]_bedNightsHeld,
                      NEW b \in Bookings, NEW c \in Bookings, b # c
               PROVE  bedNightsHeld'[b] \cap bedNightsHeld'[c] = {}
    BY DEF Calendar!NoNightTwice
  <2>1. bedNightsHeld[b] \cap bedNightsHeld[c] = {}
    BY DEF Calendar!NoNightTwice
  <2>2. ASSUME NEW d \in Bookings, NEW nights \in SUBSET (Beds \X Days),
               Calendar!Grant(d, nights)
        PROVE  bedNightsHeld'[b] \cap bedNightsHeld'[c] = {}
    <3>1. /\ bedNightsHeld'[d] = nights
          /\ \A e \in Bookings \ {d} : /\ bedNightsHeld'[e] = bedNightsHeld[e]
                                       /\ nights \cap bedNightsHeld[e] = {}
      BY <2>2 DEF Calendar!Grant, bedNightsHeld
    <3> QED
      BY <2>1, <3>1
  <2>3. ASSUME NEW ended \in SUBSET Bookings, Calendar!Vacate(ended)
        PROVE  bedNightsHeld'[b] \cap bedNightsHeld'[c] = {}
    <3>1. /\ bedNightsHeld'[b] \subseteq bedNightsHeld[b]
          /\ bedNightsHeld'[c] \subseteq bedNightsHeld[c]
      BY <2>3 DEF Calendar!Vacate
    <3> QED
      BY <2>1, <3>1
  <2>4. CASE UNCHANGED bedNightsHeld
    BY <2>1, <2>4
  <2> QED
    BY <2>2, <2>3, <2>4 DEF Calendar!Next
<1>3. Calendar!NoNightTwice => BedExclusive
  <2> SUFFICES ASSUME Calendar!NoNightTwice, NEW b \in Bookings, NEW c \in Bookings,
                      b # c, holdsBed(booking[b]), holdsBed(booking[c]),
                      booking[b].bed = booking[c].bed
               PROVE  Nights(booking[b]) \cap Nights(booking[c]) = {}
    BY DEF BedExclusive
  <2>1. bedNights(booking[b]) \cap bedNights(booking[c]) = {}
    BY DEF Calendar!NoNightTwice, bedNightsHeld
  <2>2. ASSUME NEW n, n \in Nights(booking[b]), n \in Nights(booking[c]) PROVE FALSE
    <3>1. /\ <<booking[b].bed, n>> \in bedNights(booking[b])
          /\ <<booking[b].bed, n>> \in bedNights(booking[c])
      BY <2>2 DEF bedNights
    <3> QED
      BY <2>1, <3>1
  <2> QED
    BY <2>2
<1> QED
  BY ReservationKeepsBedCalendar, <1>1, <1>2, <1>3, PTL DEF KeepsBedCalendar, Calendar!Spec

-----------------------------------------------------------------------------
(* Endings. *)

\* A write of one row that keeps its status changes no status.
LEMMA StatusKept ==
  ASSUME IInv, NEW b, NEW row, Store(b, row), (b \in Bookings) => (row.st = booking[b].st),
         NEW c \in Bookings
  PROVE  booking'[c].st = booking[c].st
BY DEF Store, IInv, TypeOK

\* A handler that ends a booking, or confirms it, acts on what it read.
LEMMA StatusWriter ==
  ASSUME IInv, NEW r \in Requests, NEW op, NEW status, WriteStatus(r, op, status),
         NEW b \in Bookings, booking'[b].st # booking[b].st
  PROVE  /\ req[r].op = op /\ req[r].stage = "write" /\ req[r].b = b
         /\ req'[r] = Idle
         /\ booking'[b].st = status
<1>1. req \in [Requests -> RequestSlot] /\ booking \in [Bookings -> BookingRow]
  BY DEF IInv, TypeOK
<1>2. /\ At(r, op, "write") /\ Respond(r)
      /\ Store(req[r].b, [booking[req[r].b] EXCEPT !.st = status])
  BY DEF WriteStatus
<1>3. req[r].b = b /\ booking'[b] = [booking[b] EXCEPT !.st = status]
  BY <1>1, <1>2 DEF Store
<1> QED
  BY <1>1, <1>2, <1>3 DEF At, Respond, BookingRow

LEMMA TerminalStep ==
  ASSUME IInv, [Next]_vars, NEW b \in Bookings,
         booking[b].st \in TERMINAL_BOOKING_STATUSES, booking'[b].st # booking[b].st
  PROVE  \E r \in Requests : /\ req[r].stage = "write" /\ req[r].b = b
                             /\ req'[r] = Idle
                             /\ \/ req[r].seen \in ACTIVE_BOOKING_STATUSES
                                \/ /\ req[r].op = "verifyFailed"
                                   /\ booking'[b].st = "CANCELLED"
<1>0. booking \in [Bookings -> BookingRow]
  BY DEF IInv, TypeOK
<1>1. ASSUME NEW r \in Requests, CreateBooking(r) PROVE FALSE
  BY <1>0, <1>1 DEF CreateBooking, CreateBookingReceive, CreateBookingCount,
     CreateBookingCommit, Store, exists, TERMINAL_BOOKING_STATUSES
<1>2. ASSUME NEW r \in Requests, AssignBed(r) PROVE FALSE
  <2>1. AssignBedWrite(r)
    BY <1>2 DEF AssignBed, AssignBedRead, AssignBedCount
  <2> DEFINE row == [booking[req[r].b] EXCEPT !.bed = req[r].bed]
  <2>2. Store(req[r].b, row)
    BY <2>1 DEF AssignBedWrite
  <2>3. (req[r].b \in Bookings) => (row.st = booking[req[r].b].st)
    BY <1>0 DEF BookingRow
  <2> QED
    BY <2>2, <2>3, StatusKept
<1>3. ASSUME NEW r \in Requests, ChangeDates(r) PROVE FALSE
  <2>1. DateChangeWrite(r) \/ PatchWrite(r)
    BY <1>3 DEF ChangeDates, DateChangeRead, PatchRead, DateChangeCount, PatchCount
  <2> DEFINE row == [booking[req[r].b] EXCEPT !.from = req[r].from, !.to = req[r].to]
             priced == [booking[req[r].b] EXCEPT !.from = req[r].from, !.to = req[r].to,
                           !.nights = billedNights(req[r].from, req[r].to)]
  <2>2. Store(req[r].b, row) \/ Store(req[r].b, priced)
    BY <2>1 DEF DateChangeWrite, PatchWrite
  <2>3. (req[r].b \in Bookings) => (/\ row.st = booking[req[r].b].st
                                    /\ priced.st = booking[req[r].b].st)
    BY <1>0 DEF BookingRow
  <2> QED
    BY <2>2, <2>3, StatusKept
<1>4. ASSUME NEW r \in Requests, MarkPaid(r) PROVE FALSE
  <2>1. MarkPaidWrite(r)
    BY <1>4 DEF MarkPaid, MarkPaidRead, Decide
  <2> DEFINE row == [booking[req[r].b] EXCEPT !.payment = "PAID"]
  <2>2. Store(req[r].b, row)
    BY <2>1 DEF MarkPaidWrite
  <2>3. (req[r].b \in Bookings) => (row.st = booking[req[r].b].st)
    BY <1>0 DEF BookingRow
  <2> QED
    BY <2>2, <2>3, StatusKept
<1>5. ASSUME CheckedIn \/ CheckedOut PROVE FALSE
  BY <1>5, CheckedInRow, CheckedOutRow DEF TERMINAL_BOOKING_STATUSES
<1>6. PICK r \in Requests : ChangeStatus(r)
  <2>1. CASE \E r \in Requests : Handler(r)
    BY <2>1, <1>1, <1>2, <1>3, <1>4 DEF Handler, Abandon
  <2>2. CASE ~(\E r \in Requests : Handler(r))
    BY <2>2, <1>5 DEF Next, Sweep, SweepStart, SweepListEnded, SweepRelease, SweepCrash,
       CheckedIn, CheckedOut, LockExpires, Midnight, vars
  <2> QED
    BY <2>1, <2>2
<1>7. ASSUME NEW op \in {"cancelGuest", "cancelAdmin", "approve", "reject"}, NEW status,
             WriteStatus(r, op, status)
      PROVE  /\ req[r].stage = "write" /\ req[r].b = b /\ req'[r] = Idle
             /\ req[r].seen \in ACTIVE_BOOKING_STATUSES
  <2>1. /\ req[r].stage = "write" /\ req[r].b = b /\ req'[r] = Idle
        /\ req[r].op = op
    BY <1>7, StatusWriter
  <2> QED
    BY <2>1 DEF IInv, SlotsRemember
<1>8. ASSUME WriteStatus(r, "verifyFailed", "CANCELLED")
      PROVE  /\ req[r].stage = "write" /\ req[r].b = b /\ req'[r] = Idle
             /\ req[r].op = "verifyFailed" /\ booking'[b].st = "CANCELLED"
  BY <1>8, StatusWriter
<1>9. \/ CancelBookingWrite(r) \/ CancelAdminBookingWrite(r)
      \/ UpdateBookingStatusWrite(r) \/ VerifyFailedWrite(r)
  BY <1>6 DEF ChangeStatus, CancelBookingRead, CancelAdminBookingRead,
     UpdateBookingStatusRead, VerifyFailedRead, Decide
<1> QED
  BY <1>7, <1>8, <1>9 DEF CancelBookingWrite, CancelAdminBookingWrite,
     UpdateBookingStatusWrite, VerifyFailedWrite

\* An ending is undone or rewritten by a lost update of a handler that saw the
\* booking alive, or by failed payment verification, and by nothing else: neither
\* the sweep nor a date change, an assignment or a payment does it.
THEOREM EndingsUndoneOnlyByStaleDecisions == Spec => TerminalUndoneOnlyByStaleDecision
<1>1. IInv /\ [Next]_vars
        => [\A b \in Bookings :
              /\ booking[b].st \in TERMINAL_BOOKING_STATUSES
              /\ booking'[b].st # booking[b].st
              => \E r \in Requests :
                   /\ req[r].stage = "write" /\ req[r].b = b
                   /\ req'[r] = Idle
                   /\ \/ req[r].seen \in ACTIVE_BOOKING_STATUSES
                      \/ /\ req[r].op = "verifyFailed"
                         /\ booking'[b].st = "CANCELLED"]_vars
  BY TerminalStep
<1> QED
  BY IInvHolds, <1>1, PTL DEF Spec, TerminalUndoneOnlyByStaleDecision

-----------------------------------------------------------------------------
(* Capacity. *)

\* No client brings a booking back or moves it.
NoReturns == Traffic \cap {"approve", "moveGuest", "moveAdmin", "patch"} = {}

Counted(r) == At(r, "create", "write")

\* What a guest's count returns, and what it is to bound.
overlapsSeen(g, t, from, to) == templateOverlaps(t, None, from, to) \cap visible(g)

occupantsSeen(g, t, d) == occupants(t, d) \cap visible(g)

\* NoOversellInView is not inductive: a creation inserts on the strength of a count
\* it made earlier.  The template lock keeps that count true until the insert.
CapacityInv ==
  /\ NoOversellInView
  /\ \A r1, r2 \in Requests :
       Counted(r1) /\ Counted(r2) /\ req[r1].tpl = req[r2].tpl => r1 = r2
  /\ \A r \in Requests :
       Counted(r) => Cardinality(overlapsSeen(req[r].guest, req[r].tpl, req[r].from, req[r].to))
                       < TotalBeds[req[r].tpl]

\* A creation that has counted either did so before this step or does so now.
LEMMA CountedBefore ==
  ASSUME IInv, [Next]_vars, NEW r \in Requests, Counted(r)'
  PROVE  (Counted(r) /\ req'[r] = req[r]) \/ CreateBookingCount(r)
<1>0. req \in [Requests -> RequestSlot]
  BY DEF IInv, TypeOK
<1>1. CASE req'[r] = req[r]
  BY <1>1 DEF Counted, At
<1>2. CASE req'[r] # req[r]
  <2>1. PICK q \in Requests : Handler(q)
    BY <1>2 DEF Next, Sweep, SweepStart, SweepListEnded, SweepWriteStarted,
       SweepWriteEnded, SweepRelease, SweepCrash, LockExpires, Midnight, vars
  <2>2. ASSUME NEW p \in Requests, NEW slot, Begin(p, slot),
               slot.op # "create" \/ slot.stage # "write"
        PROVE  FALSE
    BY <1>0, <1>2, <2>2 DEF Begin, Counted, At
  <2>3. ASSUME NEW p \in Requests, NEW op, NEW b, op # "create", Decide(p, op, b)
        PROVE  FALSE
    <3> DEFINE slot == [Idle EXCEPT !.op = op, !.stage = "write", !.b = b,
                                    !.seen = booking[b].st]
    <3>1. Begin(p, slot) /\ slot.op # "create"
      BY <2>3 DEF Decide, Idle
    <3> QED
      BY <3>1, <2>2
  <2>4. ASSUME NEW p \in Requests, Respond(p) PROVE FALSE
    BY <1>0, <1>2, <2>4 DEF Respond, Counted, At, Idle
  <2>5. ASSUME NEW p \in Requests, NEW stage, Goto(p, stage), req[p].op # "create"
        PROVE  FALSE
    BY <1>0, <1>2, <2>5 DEF Goto, Counted, At
  <2>6. CASE CreateBooking(q)
    <3>1. ASSUME NEW g \in Guests, NEW k \in Keys, NEW t \in Templates, NEW stay \in Stays,
                 NEW mode \in Modes, CreateBookingReceive(q, g, k, t, stay, mode)
          PROVE  FALSE
      <4> DEFINE slot == [Idle EXCEPT !.op = "create", !.stage = "lock", !.guest = g,
                                      !.key = k, !.tpl = t, !.from = stay[1], !.to = stay[2],
                                      !.mode = mode]
      <4>1. Begin(q, slot) /\ slot.stage # "write"
        BY <3>1 DEF CreateBookingReceive, Idle
      <4> QED
        BY <4>1, <2>2
    <3>2. ASSUME NEW b \in Bookings, CreateBookingCommit(q, b) PROVE FALSE
      BY <3>2, <2>4 DEF CreateBookingCommit
    <3>3. CreateBookingCount(q)
      BY <2>6, <3>1, <3>2 DEF CreateBooking
    <3>4. q = r
      BY <1>0, <1>2, <3>3 DEF CreateBookingCount, Goto
    <3> QED
      BY <3>3, <3>4
  <2>7. CASE ChangeStatus(q)
    BY <2>7, <2>3, <2>4 DEF ChangeStatus, CancelBookingRead, CancelAdminBookingRead,
       UpdateBookingStatusRead, VerifyFailedRead, CancelBookingWrite,
       CancelAdminBookingWrite, UpdateBookingStatusWrite, VerifyFailedWrite, WriteStatus
  <2>8. CASE AssignBed(q)
    <3>1. ASSUME NEW b \in Bookings, NEW bed \in Beds, AssignBedRead(q, b, bed) PROVE FALSE
      <4> DEFINE slot == [Idle EXCEPT !.op = "assign", !.stage = "count", !.b = b,
                           !.bed = bed, !.from = booking[b].from,
                           !.to = booking[b].to, !.tpl = booking[b].tpl,
                           !.seen = booking[b].st]
      <4>1. Begin(q, slot) /\ slot.op # "create"
        BY <3>1 DEF AssignBedRead, Idle
      <4> QED
        BY <4>1, <2>2
    <3> QED
      BY <2>8, <3>1, <2>4, <2>5 DEF AssignBed, AssignBedCount, AssignBedWrite, At
  <2>9. CASE ChangeDates(q)
    <3>1. ASSUME NEW b \in Bookings, NEW stay \in Stays, DateChangeRead(q, b, stay)
          PROVE  FALSE
      <4>1. PICK op \in {"moveGuest", "moveAdmin"} :
              Begin(q, [Idle EXCEPT !.op = op, !.stage = "count", !.b = b,
                             !.bed = booking[b].bed, !.tpl = booking[b].tpl,
                             !.from = stay[1], !.to = stay[2]])
        BY <3>1 DEF DateChangeRead
      <4> DEFINE slot == [Idle EXCEPT !.op = op, !.stage = "count", !.b = b,
                             !.bed = booking[b].bed, !.tpl = booking[b].tpl,
                             !.from = stay[1], !.to = stay[2]]
      <4>2. slot.op # "create"
        BY DEF Idle
      <4> QED
        BY <4>1, <4>2, <2>2
    <3>2. ASSUME NEW b \in Bookings, NEW stay \in Stays, PatchRead(q, b, stay) PROVE FALSE
      <4> DEFINE slot == [Idle EXCEPT !.op = "patch", !.stage = "count", !.b = b,
                           !.bed = booking[b].bed,
                           !.from = stay[1], !.to = stay[2]]
      <4>1. Begin(q, slot) /\ slot.op # "create"
        BY <3>2 DEF PatchRead, Idle
      <4> QED
        BY <4>1, <2>2
    <3> QED
      BY <2>9, <3>1, <3>2, <2>4, <2>5
      DEF ChangeDates, DateChangeCount, DateChangeWrite, PatchCount, PatchWrite, AtMove, At
  <2>10. CASE MarkPaid(q)
    BY <2>10, <2>3, <2>4 DEF MarkPaid, MarkPaidRead, MarkPaidWrite
  <2>11. CASE Abandon(q)
    BY <2>11, <2>4 DEF Abandon
  <2> QED
    BY <2>1, <2>6, <2>7, <2>8, <2>9, <2>10, <2>11 DEF Handler
<1> QED
  BY <1>1, <1>2

\* A booking asks of its template no more after a step than before.
NoMoreDemand ==
  \A b \in Bookings :
    isActive(booking'[b])
      => /\ isActive(booking[b])
         /\ booking'[b].guest = booking[b].guest
         /\ booking'[b].tpl = booking[b].tpl
         /\ booking'[b].from = booking[b].from
         /\ booking'[b].to = booking[b].to

LEMMA DemandStep ==
  ASSUME IInv, NoReturns, [Next]_vars
  PROVE  NoMoreDemand \/ \E r \in Requests, b \in Bookings : CreateBookingCommit(r, b)
<1>1. CASE UNCHANGED booking
  BY <1>1 DEF NoMoreDemand
<1>2. CASE RowAltered /\ booking' # booking
  <2>1. PICK b \in Bookings, row \in BookingRow : Altered(b, row) /\ Store(b, row)
    BY <1>2 DEF RowAltered
  <2>2. /\ booking'[b] = row
        /\ \A c \in Bookings \ {b} : booking'[c] = booking[c]
    BY <1>2, <2>1, RowWritten
  <2>3. booking[b] \in BookingRow
    BY DEF IInv, TypeOK
  <2>4. isActive(row) => /\ isActive(booking[b]) /\ row.guest = booking[b].guest
                         /\ row.tpl = booking[b].tpl
                         /\ row.from = booking[b].from /\ row.to = booking[b].to
    <3>1. CASE Restated(b, row)
      BY <2>3, <3>1 DEF Restated, NoReturns, isActive, ACTIVE_BOOKING_STATUSES, BookingRow
    <3>2. ~Moved(b, row)
      BY DEF Moved, NoReturns
    <3>3. CASE Equipped(b, row)
      BY <2>3, <3>3 DEF Equipped, isActive, BookingRow
    <3> QED
      BY <2>1, <3>1, <3>2, <3>3 DEF Altered
  <2> QED
    BY <2>2, <2>4 DEF NoMoreDemand
<1>3. CASE CheckedIn \/ CheckedOut
  <2> SUFFICES ASSUME NEW b \in Bookings, isActive(booking'[b])
               PROVE  /\ isActive(booking[b]) /\ booking'[b].guest = booking[b].guest
                      /\ booking'[b].tpl = booking[b].tpl
                      /\ booking'[b].from = booking[b].from
                      /\ booking'[b].to = booking[b].to
    BY DEF NoMoreDemand
  <2>1. booking[b] \in BookingRow
    BY DEF IInv, TypeOK
  <2>2. \/ booking'[b] = booking[b]
        \/ /\ booking[b].st \in ACTIVE_BOOKING_STATUSES
           /\ \E st : booking'[b] = [booking[b] EXCEPT !.st = st]
    BY <1>3, CheckedInRow, CheckedOutRow DEF ACTIVE_BOOKING_STATUSES
  <2> QED
    BY <2>1, <2>2 DEF isActive, BookingRow
<1> QED
  BY <1>1, <1>2, <1>3, StepShape

\* The sets a template's capacity is compared with are finite.
LEMMA DemandFinite ==
  ASSUME NEW g, NEW t, NEW from, NEW to, NEW d
  PROVE  /\ IsFiniteSet(overlapsSeen(g, t, from, to))
         /\ Cardinality(overlapsSeen(g, t, from, to)) \in Nat
         /\ IsFiniteSet(occupantsSeen(g, t, d)) /\ Cardinality(occupantsSeen(g, t, d)) \in Nat
<1>1. /\ overlapsSeen(g, t, from, to) \in SUBSET Bookings
      /\ occupantsSeen(g, t, d) \in SUBSET Bookings
  BY DEF overlapsSeen, occupantsSeen, visible
<1>2. IsFiniteSet(Bookings)
  BY ReservationAssumption
<1> QED
  BY <1>1, <1>2, FS_Subset, FS_CardinalityType

\* With no more demand than before, every set compared with capacity shrinks.
LEMMA DemandShrinks ==
  ASSUME NoMoreDemand, NEW g, NEW t, NEW from, NEW to, NEW d
  PROVE  /\ Cardinality(overlapsSeen(g, t, from, to)')
              <= Cardinality(overlapsSeen(g, t, from, to))
         /\ Cardinality(overlapsSeen(g, t, from, to)') \in Nat
         /\ Cardinality(occupantsSeen(g, t, d)') <= Cardinality(occupantsSeen(g, t, d))
         /\ Cardinality(occupantsSeen(g, t, d)') \in Nat
<1>1. overlapsSeen(g, t, from, to)' \in SUBSET overlapsSeen(g, t, from, to)
  BY DEF NoMoreDemand, overlapsSeen, templateOverlaps, visible, Overlaps
<1>2. occupantsSeen(g, t, d)' \in SUBSET occupantsSeen(g, t, d)
  BY DEF NoMoreDemand, occupantsSeen, occupants, visible, Nights
<1> QED
  BY <1>1, <1>2, DemandFinite, FS_Subset, FS_CardinalityType

\* A creation that has counted is about a template of the property.
LEMMA CountedTemplate ==
  ASSUME IInv, NEW r \in Requests, At(r, "create", "lock") \/ Counted(r)
  PROVE  req[r].tpl \in Templates /\ TotalBeds[req[r].tpl] \in Nat
BY ReservationAssumption DEF IInv, SlotsRemember, Counted, At

\* Every step but a creation's insert.
LEMMA CapacityKept ==
  ASSUME IInv, CapacityInv, NoMoreDemand, [Next]_vars
  PROVE  CapacityInv'
<1>1. NoOversellInView'
  <2> SUFFICES ASSUME NEW g \in Guests, NEW t \in Templates, NEW d \in Days
               PROVE  Cardinality(occupantsSeen(g, t, d)') <= TotalBeds[t]
    BY DEF NoOversellInView, occupantsSeen
  <2>1. Cardinality(occupantsSeen(g, t, d)) <= TotalBeds[t]
    BY DEF CapacityInv, NoOversellInView, occupantsSeen
  <2>2. TotalBeds[t] \in Nat
    BY ReservationAssumption
  <2> QED
    BY <2>1, <2>2, DemandShrinks, DemandFinite
<1>2. ASSUME NEW r1 \in Requests, NEW r2 \in Requests, Counted(r1)', Counted(r2)',
             req'[r1].tpl = req'[r2].tpl, r1 # r2
      PROVE  FALSE
  <2>0. req \in [Requests -> RequestSlot]
    BY DEF IInv, TypeOK
  <2>1. CASE Counted(r1) /\ Counted(r2) /\ req'[r1] = req[r1] /\ req'[r2] = req[r2]
    BY <1>2, <2>1 DEF CapacityInv
  <2>2. ASSUME NEW p \in Requests, NEW q \in Requests, CreateBookingCount(p),
               Counted(q)', req'[q].tpl = req'[p].tpl, p # q
        PROVE  FALSE
    <3>1. req'[q] = req[q] /\ req'[p].tpl = req[p].tpl
      BY <2>0, <2>2 DEF CreateBookingCount, Goto, RequestSlot
    <3>2. Counted(q)
      BY <2>2, <3>1 DEF Counted, At
    <3> QED
      BY <2>2, <3>1, <3>2 DEF CreateBookingCount, templateLocked, Counted
  <2> QED
    BY <1>2, <2>1, <2>2, CountedBefore
<1>3. ASSUME NEW r \in Requests, Counted(r)'
      PROVE  Cardinality(overlapsSeen(req[r].guest, req[r].tpl, req[r].from, req[r].to))'
               < TotalBeds[req[r].tpl]'
  <2>0. req \in [Requests -> RequestSlot]
    BY DEF IInv, TypeOK
  <2>1. /\ Cardinality(overlapsSeen(req[r].guest, req[r].tpl, req[r].from, req[r].to))
             < TotalBeds[req[r].tpl]
        /\ req'[r].tpl = req[r].tpl /\ req'[r].from = req[r].from
        /\ req'[r].to = req[r].to /\ req'[r].guest = req[r].guest
        /\ At(r, "create", "lock") \/ Counted(r)
    <3>1. CASE Counted(r) /\ req'[r] = req[r]
      BY <3>1 DEF CapacityInv
    <3>2. CASE CreateBookingCount(r)
      BY <2>0, <3>2 DEF CreateBookingCount, Goto, RequestSlot, overlapsSeen
    <3> QED
      BY <1>3, <3>1, <3>2, CountedBefore
  <2>2. PICK g, t, from, to :
          g = req[r].guest /\ t = req[r].tpl /\ from = req[r].from /\ to = req[r].to
    OBVIOUS
  <2>3. Cardinality(overlapsSeen(g, t, from, to)') < TotalBeds[t]
    <3>1. Cardinality(overlapsSeen(g, t, from, to)) < TotalBeds[t] /\ TotalBeds[t] \in Nat
      BY <2>1, <2>2, CountedTemplate
    <3> QED
      BY <3>1, DemandShrinks, DemandFinite
  <2>4. /\ overlapsSeen(req[r].guest, req[r].tpl, req[r].from, req[r].to)'
             = overlapsSeen(g, t, from, to)'
        /\ TotalBeds[req[r].tpl]' = TotalBeds[t]
    BY <2>1, <2>2 DEF overlapsSeen, templateOverlaps, visible
  <2> QED
    BY <2>3, <2>4
<1> QED
  BY <1>1, <1>2, <1>3 DEF CapacityInv

\* The insert of a creation that has counted.
LEMMA CapacityCommit ==
  ASSUME IInv, CapacityInv, NEW r \in Requests, NEW b \in Bookings,
         CreateBookingCommit(r, b), booking' # booking
  PROVE  CapacityInv'
<1>0. req \in [Requests -> RequestSlot]
  BY DEF IInv, TypeOK
<1>1. PICK h, t, from, to :
        h = req[r].guest /\ t = req[r].tpl /\ from = req[r].from /\ to = req[r].to
  OBVIOUS
<1>2. /\ Counted(r) /\ ~exists(b)
      /\ req' = [req EXCEPT ![r] = Idle]
      /\ booking'[b].guest = h /\ booking'[b].tpl = t
      /\ booking'[b].from = from /\ booking'[b].to = to
      /\ \A c \in Bookings \ {b} : booking'[c] = booking[c]
  BY <1>1 DEF CreateBookingCommit, Respond, Counted, Store, IInv, TypeOK, NoRow
<1>3. Cardinality(overlapsSeen(h, t, from, to)) < TotalBeds[t] /\ TotalBeds[t] \in Nat
  BY <1>1, <1>2, CountedTemplate DEF CapacityInv
<1>4. ~isActive(booking[b])
  BY <1>2 DEF exists, isActive, ACTIVE_BOOKING_STATUSES
<1>5. NoOversellInView'
  <2> SUFFICES ASSUME NEW g \in Guests, NEW u \in Templates, NEW d \in Days
               PROVE  Cardinality(occupantsSeen(g, u, d)') <= TotalBeds[u]
    BY DEF NoOversellInView, occupantsSeen
  <2>1. CASE u = t /\ d \in from .. to - 1 /\ (Exempt \/ g = h)
    <3>1. occupantsSeen(g, u, d)' \in SUBSET (overlapsSeen(h, t, from, to) \cup {b})
      <4> SUFFICES ASSUME NEW c \in Bookings, c # b, c \in occupantsSeen(g, u, d)'
                   PROVE  c \in overlapsSeen(h, t, from, to)
        BY DEF occupantsSeen, occupants
      <4>1. /\ isActive(booking[c]) /\ booking[c].tpl = t
            /\ d \in booking[c].from .. booking[c].to - 1
            /\ c \in visible(h)
        BY <1>2, <2>1 DEF occupantsSeen, occupants, visible, Nights
      <4>2. booking[c].from \in Int /\ booking[c].to \in Int /\ from \in Int /\ to \in Int
        BY <1>0, <1>1, ReservationAssumption DEF IInv, TypeOK, BookingRow, RequestSlot, Days
      <4>3. Overlaps(booking[c], from, to)
        BY <4>1, <4>2, <2>1 DEF Overlaps
      <4> QED
        BY <4>1, <4>3, ReservationAssumption DEF overlapsSeen, templateOverlaps
    <3>2. /\ IsFiniteSet(overlapsSeen(h, t, from, to) \cup {b})
          /\ Cardinality(overlapsSeen(h, t, from, to) \cup {b})
               <= Cardinality(overlapsSeen(h, t, from, to)) + 1
      <4>1. /\ IsFiniteSet(overlapsSeen(h, t, from, to))
            /\ Cardinality(overlapsSeen(h, t, from, to)) \in Nat
        BY DemandFinite
      <4>2. PICK seen : seen = overlapsSeen(h, t, from, to)
        OBVIOUS
      <4>3. /\ IsFiniteSet(seen \cup {b})
            /\ Cardinality(seen \cup {b})
                 = IF b \in seen THEN Cardinality(seen) ELSE Cardinality(seen) + 1
        BY <4>1, <4>2, FS_AddElement
      <4> QED
        BY <4>1, <4>2, <4>3
    <3>3. /\ Cardinality(occupantsSeen(g, u, d)')
               <= Cardinality(overlapsSeen(h, t, from, to) \cup {b})
          /\ Cardinality(occupantsSeen(g, u, d)') \in Nat
          /\ Cardinality(overlapsSeen(h, t, from, to) \cup {b}) \in Nat
      BY <3>1, <3>2, FS_Subset, FS_CardinalityType
    <3> QED
      BY <1>3, <2>1, <3>2, <3>3, DemandFinite
  <2>2. CASE ~(u = t /\ d \in from .. to - 1 /\ (Exempt \/ g = h))
    <3>1. occupantsSeen(g, u, d)' \in SUBSET occupantsSeen(g, u, d)
      BY <1>2, <2>2 DEF occupantsSeen, occupants, visible, Nights
    <3>2. /\ Cardinality(occupantsSeen(g, u, d)') <= Cardinality(occupantsSeen(g, u, d))
          /\ Cardinality(occupantsSeen(g, u, d)') \in Nat
      BY <3>1, DemandFinite, FS_Subset, FS_CardinalityType
    <3>3. Cardinality(occupantsSeen(g, u, d)) <= TotalBeds[u] /\ TotalBeds[u] \in Nat
      BY ReservationAssumption DEF CapacityInv, NoOversellInView, occupantsSeen
    <3> QED
      BY <3>2, <3>3, DemandFinite
  <2> QED
    BY <2>1, <2>2
<1>6. ASSUME NEW q \in Requests, Counted(q)'
      PROVE  q # r /\ Counted(q) /\ req'[q] = req[q]
  BY <1>0, <1>2, <1>6 DEF Counted, At, Idle
<1>7. ASSUME NEW q \in Requests, Counted(q)'
      PROVE  Cardinality(overlapsSeen(req[q].guest, req[q].tpl, req[q].from, req[q].to))'
               < TotalBeds[req[q].tpl]'
  <2>1. PICK g, u, start, end :
          g = req[q].guest /\ u = req[q].tpl /\ start = req[q].from /\ end = req[q].to
    OBVIOUS
  <2>2. u # t
    BY <1>1, <1>2, <1>6, <1>7, <2>1 DEF CapacityInv
  <2>3. Cardinality(overlapsSeen(g, u, start, end)) < TotalBeds[u] /\ TotalBeds[u] \in Nat
    BY <1>6, <1>7, <2>1, CountedTemplate DEF CapacityInv
  <2>4. overlapsSeen(g, u, start, end)' \in SUBSET overlapsSeen(g, u, start, end)
    BY <1>2, <2>2 DEF overlapsSeen, templateOverlaps, visible, Overlaps
  <2>5. Cardinality(overlapsSeen(g, u, start, end)') < TotalBeds[u]
    BY <2>3, <2>4, DemandFinite, FS_Subset, FS_CardinalityType
  <2>6. /\ overlapsSeen(req[q].guest, req[q].tpl, req[q].from, req[q].to)'
             = overlapsSeen(g, u, start, end)'
        /\ TotalBeds[req[q].tpl]' = TotalBeds[u]
    BY <1>6, <1>7, <2>1 DEF overlapsSeen, templateOverlaps, visible
  <2> QED
    BY <2>5, <2>6
<1> QED
  BY <1>5, <1>6, <1>7 DEF CapacityInv

LEMMA CapacityStep ==
  ASSUME IInv, NoReturns, CapacityInv, [Next]_vars
  PROVE  CapacityInv'
<1>1. CASE NoMoreDemand
  BY <1>1, CapacityKept
<1>2. CASE booking' = booking
  BY <1>2, CapacityKept DEF NoMoreDemand
<1> QED
  BY <1>1, <1>2, DemandStep, CapacityCommit

\* As long as no client brings a cancelled booking back or moves one, the count
\* createBooking makes under the template lock is still true, of the bookings the
\* guest sees, when it inserts: however many creations of a guest are in flight,
\* they never give him more of a template than it has beds.
THEOREM CreationsDoNotOversellInView ==
  ASSUME NoReturns
  PROVE  Spec => []NoOversellInView
<1>1. Init => CapacityInv
  <2> SUFFICES ASSUME Init PROVE CapacityInv
    OBVIOUS
  <2>1. \A r \in Requests : ~Counted(r)
    BY DEF Init, Counted, At, Idle
  <2>2. ASSUME NEW g \in Guests, NEW t \in Templates, NEW d \in Days
        PROVE  Cardinality(occupantsSeen(g, t, d)) <= TotalBeds[t]
    <3>1. occupantsSeen(g, t, d) = {}
      BY DEF Init, NoRow, occupantsSeen, occupants, isActive, ACTIVE_BOOKING_STATUSES
    <3>2. TotalBeds[t] \in Nat
      BY ReservationAssumption
    <3> QED
      BY <3>1, <3>2, FS_EmptySet
  <2> QED
    BY <2>1, <2>2 DEF CapacityInv, NoOversellInView, occupantsSeen
<1>2. IInv /\ CapacityInv /\ [Next]_vars => CapacityInv'
  BY CapacityStep
<1>3. CapacityInv => NoOversellInView
  BY DEF CapacityInv
<1> QED
  BY IInvHolds, <1>1, <1>2, <1>3, PTL DEF Spec

\* Were the application's role exempt from row-level security, so that every count
\* is of all bookings, the same lock would keep the promise of createBooking's
\* comment: concurrent creations, also of different guests, do not oversell.
THEOREM ExemptCreationsDoNotOversell ==
  ASSUME NoReturns, Exempt, Guests # {}
  PROVE  Spec => []NoOversell
<1>1. NoOversellInView => NoOversell
  <2> SUFFICES ASSUME NoOversellInView, NEW t \in Templates, NEW d \in Days
               PROVE  Cardinality(occupants(t, d)) <= TotalBeds[t]
    BY DEF NoOversell
  <2>1. PICK g \in Guests : TRUE
    OBVIOUS
  <2>2. occupants(t, d) \cap visible(g) = occupants(t, d)
    BY DEF occupants, visible
  <2> QED
    BY <2>1, <2>2 DEF NoOversellInView
<1> QED
  BY CreationsDoNotOversellInView, <1>1, PTL
=============================================================================
