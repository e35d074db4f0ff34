SPECIFICATION SupplySpec
CONSTANTS
  s1 = s1
  s2 = s2
  b1 = b1
  b2 = b2
  r1 = r1
  r2 = r2
  p1 = p1
  Seats = {s1, s2}
  Bookings = {b1, b2}
  Requests = {r1}
  NoBooking = NoBooking
  Free = Free
  Orphan = Orphan
  Actors = {"CLIENT"}
  Isolated <- EveryOperation
  OperationSets <- JourneyOfferVehicle
  Parcels = {}
  MaxVersion = 3
SYMMETRY Symmetry
INVARIANTS
  TripStateAgrees
  PassengersFollowTrip
  SupplyKeepsPromises
PROPERTIES
  EndedTripIsNotSold
CHECK_DEADLOCK FALSE
