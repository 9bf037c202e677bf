\* Two bookings, either of which a client may name with the one order, which may fail
\* before it is paid; a payment in cash, a request of a guest and one of an admin at a
\* time, and both events of the order at once.
SPECIFICATION FairSpec
CONSTANTS
  Bookings = {b1, b2}
  Orders = {o1}
  CashRows = {c1}
  Exempt = TRUE
  GuestRequests = {r1}
  AdminRequests = {a1}
  MaxFailures = 1
  None = None
INVARIANTS TypeOK PaymentReachesBooking
PROPERTIES KeepsPaymentAccount PaidCashCancelledOnlyByStaleGuest CaptureIsRecorded
CHECK_DEADLOCK FALSE
