\* One sweeper under row-level security.
SPECIFICATION FairSpec
CONSTANTS
  Bookings = {b1}
  Guests = {g1}
  Beds = {bed1}
  Templates = {t1}
  BedTemplate <- MCOneTemplate
  RetiredBeds = {}
  TotalBeds <- MCOneBed
  Keys = {k1}
  Requests = {r1}
  Sweepers = {s1}
  MaxDay = 2
  Stays <- MCOneNight
  Modes = {"OFFLINE"}
  Traffic <- MCDueTraffic
  Exempt = FALSE
  None = None
PROPERTY SweepCatchesUp
