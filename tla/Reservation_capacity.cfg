\* A template that says it has two beds: three keys, two creations at a
\* time, also of one key, and two guests.
SPECIFICATION Spec
CONSTANTS
  Bookings = {b1, b2, b3}
  Guests = {g1, g2}
  Beds = {bed1}
  Templates = {t1}
  BedTemplate <- MCOneTemplate
  RetiredBeds = {}
  TotalBeds <- MCTwoBeds
  Keys = {k1, k2, k3}
  Requests = {r1, r2}
  Sweepers = {}
  MaxDay = 2
  Stays <- MCCapacityStays
  Modes = {"OFFLINE"}
  Traffic <- MCCapacityTraffic
  Exempt = FALSE
  None = None
SYMMETRY MCSymmetry
INVARIANTS NoOversellInView OneBookingPerKey
\* The instance stops when its rows and its calendar are used up.
CHECK_DEADLOCK FALSE
