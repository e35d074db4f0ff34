SPECIFICATION SupplySpec
CONSTANTS
  s1 = s1
  s2 = s2
  b1 = b1
  b2 = b2
  r1 = r1
  r2 = r2
  p1 = p1
  Seats = {s1, s2}
  Bookings = {b1, b2}
  Requests = {r1}
  NoBooking = NoBooking
  Free = Free
  Orphan = Orphan
  Actors = {"CLIENT"}
  Isolated <- EveryOperation
  OperationSets <- AllOperations
  MaxVersion = 0
  Parcels = {}
SYMMETRY Symmetry
PROPERTIES
  StartResolvesPassengers
CHECK_DEADLOCK FALSE
