\* Two sweepers that see the bookings, crashes and an expiring lock.
SPECIFICATION FairSpec
CONSTANTS
  Bookings = {b1}
  Guests = {g1}
  Beds = {bed1}
  Templates = {t1}
  BedTemplate <- MCOneTemplate
  RetiredBeds = {}
  TotalBeds <- MCOneBed
  Keys = {k1}
  Requests = {r1}
  Sweepers = {s1, s2}
  MaxDay = 2
  Stays <- MCNights
  Modes = {"OFFLINE"}
  Traffic <- MCSweepTraffic
  Exempt = TRUE
  None = None
INVARIANTS StayHasBed
PROPERTIES SweepCatchesUp
