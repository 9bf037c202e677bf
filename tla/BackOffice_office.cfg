\* Two users, a property, two templates, two bookings, two pictures, two requests.
SPECIFICATION Spec
CONSTANTS
  Users = {u1, u2}
  Properties = {p1}
  Templates = {t1, t2}
  Bookings = {b1, b2}
  Images = {k1, k2}
  Prices = {c1, c2}
  Requests = {r1, r2}
  Workloads <- Together
  None = None
SYMMETRY OfficeSymmetry
INVARIANTS TypeOK AdminHasTenant RoomsPricedAsTemplate PictureIsStored
PROPERTIES OthersBookingsStay
CHECK_DEADLOCK FALSE
