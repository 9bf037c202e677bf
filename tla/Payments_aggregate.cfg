\* One booking and one order whose first attempt fails: the booking never becomes
\* paid.
SPECIFICATION Spec
CONSTANTS
  Bookings = {b1}
  Orders = {o1}
  CashRows = {}
  Exempt = TRUE
  GuestRequests = {r1}
  AdminRequests = {}
  MaxFailures = 1
  None = None
INVARIANTS StatusAggregatesPayments
CHECK_DEADLOCK FALSE
