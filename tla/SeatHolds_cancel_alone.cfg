SPECIFICATION Spec
CONSTANTS
  s1 = s1
  s2 = s2
  b1 = b1
  b2 = b2
  b3 = b3
  r1 = r1
  r2 = r2
  Seats = {s1, s2}
  Bookings = {b1, b2, b3}
  Requests = {r1, r2}
  NoBooking = NoBooking
  Free = Free
  Orphan = Orphan
  Actors = {"CLIENT"}
  Isolated = {"cancel"}
SYMMETRY Symmetry
INVARIANTS
  SeatOwnership
  NoDoubleBooking
  AvailabilityCount
PROPERTIES
  BookingFollowsHold
  HeldUntilHoldEnds
  ImplementsAllocation
CHECK_DEADLOCK FALSE
