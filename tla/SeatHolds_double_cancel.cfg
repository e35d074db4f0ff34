SPECIFICATION Spec
CONSTANTS
  s1 = s1
  s2 = s2
  b1 = b1
  b2 = b2
  b3 = b3
  r1 = r1
  r2 = r2
  Seats = {s1, s2}
  Bookings = {b1, b2, b3}
  Requests = {r1, r2}
  NoBooking = NoBooking
  Free = Free
  Orphan = Orphan
  Actors = {"CLIENT", "ADMIN"}
  Isolated = {}
SYMMETRY Symmetry
INVARIANTS
  AvailabilityCount
CHECK_DEADLOCK FALSE
