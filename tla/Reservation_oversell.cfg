\* Two guests book the one bed of a template, one after the other.
SPECIFICATION Spec
CONSTANTS
  Bookings = {b1, b2}
  Guests = {g1, g2}
  Beds = {bed1}
  Templates = {t1}
  BedTemplate <- MCOneTemplate
  RetiredBeds = {}
  TotalBeds <- MCOneBed
  Keys = {k1, k2}
  Requests = {r1}
  Sweepers = {}
  MaxDay = 2
  Stays <- MCOneNight
  Modes = {"OFFLINE"}
  Traffic <- MCCreateTraffic
  Exempt = FALSE
  None = None
SYMMETRY MCSymmetry
INVARIANT NoOversell
\* The instance stops when its rows and its calendar are used up.
CHECK_DEADLOCK FALSE
