SPECIFICATION SupplySpec
CONSTANTS
  s1 = s1
  s2 = s2
  b1 = b1
  b2 = b2
  r1 = r1
  r2 = r2
  p1 = p1
  Seats = {s1}
  Bookings = {b1}
  Requests = {r1, r2}
  NoBooking = NoBooking
  Free = Free
  Orphan = Orphan
  Actors = {"CLIENT"}
  Isolated = {}
  OperationSets <- BlockedOrExpired
  MaxVersion = 1
  Parcels = {p1}
SYMMETRY Symmetry
INVARIANTS
  ParcelsTravelWithTrip
PROPERTIES
  OperationsFollowTable
CHECK_DEADLOCK FALSE
