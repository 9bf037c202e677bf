--------------------------- MODULE BookingPolicy ---------------------------
(***************************************************************************)
(* The pure rules of a booking: services/booking-state.service.ts decides  *)
(* who may do what to a booking in which state, lib/dates.ts compares its  *)
(* dates with the property's calendar.                                     *)
(*                                                                         *)
(* A date is a calendar day, a natural number.  Every date the code        *)
(* compares is first formatted as an IST day key, and such keys are        *)
(* ordered as days are.  A booking row is a record with (at least) fields  *)
(*   st       status            from, to  check-in and check-out day       *)
(*   tpl      room template     bed       assigned bed, or a null          *)
(*   mode     payment mode      payment   payment status                   *)
(* An assertX function of the code throws unless it accepts: it is modelled *)
(* by the predicate of the rows it accepts.                                *)
(***************************************************************************)
EXTENDS Integers, FiniteSets

GUEST_CANCELLABLE_STATUSES == {"PENDING", "CONFIRMED"}
ADMIN_CANCELLABLE_STATUSES == {"PENDING", "CONFIRMED", "ONGOING"}
ACTIVE_BOOKING_STATUSES    == {"PENDING", "CONFIRMED", "ONGOING"}
TERMINAL_BOOKING_STATUSES  == {"CANCELLED", "REJECTED", "COMPLETED"}

BookingStatus == ACTIVE_BOOKING_STATUSES \cup TERMINAL_BOOKING_STATUSES

PaymentMode == {"ONLINE", "OFFLINE"}

-----------------------------------------------------------------------------
(* lib/dates.ts *)

hasStarted(start, today) == start <= today

isPreArrival(start, today) == start > today

\* End-exclusive: on the checkout morning the stay is still in progress.
hasEnded(end, today) == today > end

-----------------------------------------------------------------------------
(* Ranges are half-open: the checkout day is free for the next guest. *)

\* startDate < end and endDate > start, as every overlap query writes it.
Overlaps(row, from, to) == row.from < to /\ row.to > from

\* The nights the guest sleeps.
Nights(row) == row.from .. row.to - 1

\* computeBookingPrice up to the rate: the nights it charges for, at least one.
billedNights(from, to) == IF to - from > 1 THEN to - from ELSE 1

isActive(row) == row.st \in ACTIVE_BOOKING_STATUSES

-----------------------------------------------------------------------------
(* services/booking-state.service.ts *)

assertGuestCancellable(row, today) ==
  /\ row.st \in GUEST_CANCELLABLE_STATUSES
  /\ isPreArrival(row.from, today)
  /\ ~(row.mode = "OFFLINE" /\ row.payment = "PAID")

assertAdminCancellable(row, today) ==
  /\ row.st \in ADMIN_CANCELLABLE_STATUSES
  /\ ~hasEnded(row.to, today)

\* A mutant for the checks: only stays that are over are beyond rejecting.
assertRejectableUnlessCompleted(row) == row.st # "COMPLETED"

\* Guards APPROVE as well as REJECT, whatever its name says.
assertRejectable(row) == row.st = "PENDING"

assertMarkPaidAllowed(row) == row.mode = "OFFLINE" /\ row.payment = "PENDING"

assertBedAssignable(row, bed, overlapping) ==
  /\ isActive(row)
  /\ bed.tpl = row.tpl
  /\ ~bed.deleted
  /\ overlapping = 0

assertDateChangeAllowed(row, actor, from, to, today) ==
  /\ isActive(row)
  /\ actor = "GUEST" => ~(row.st = "ONGOING" \/ hasStarted(row.from, today))
  /\ ~hasEnded(row.to, today)
  /\ from < to

\* The status a reader is shown, whether or not the sweep has run yet.
normalizeBookingStatus(row, today, noBed) ==
  IF row.st = "CONFIRMED" /\ row.bed # noBed /\ hasStarted(row.from, today)
  THEN "ONGOING"
  ELSE IF row.st = "ONGOING" /\ hasEnded(row.to, today)
  THEN "COMPLETED"
  ELSE row.st
=============================================================================
