\* Every handler but the payment in cash, two at a time, on two bookings of two
\* guests, one bed and another one out of use.
SPECIFICATION Spec
CONSTANTS
  Bookings = {b1, b2}
  Guests = {g1, g2}
  Beds = {bed1, bed2}
  Templates = {t1}
  BedTemplate <- MCOneTemplate
  RetiredBeds = {bed2}
  TotalBeds <- MCOneBed
  Keys = {k1, k2}
  Requests = {r1, r2}
  Sweepers = {}
  MaxDay = 2
  Stays <- MCHandlerStays
  Modes = {"OFFLINE"}
  Traffic <- MCHandlerTraffic
  Exempt = FALSE
  None = None
SYMMETRY MCSymmetry
INVARIANTS TypeOK BedExclusive PriceMatchesDates
PROPERTIES KeepsBedCalendar TerminalUndoneOnlyByStaleDecision
\* The instance stops when its rows and its calendar are used up.
CHECK_DEADLOCK FALSE
