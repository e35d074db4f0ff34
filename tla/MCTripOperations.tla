---- MODULE MCTripOperations ----
(* Two seats and two bookings: a passenger who boards and one who does not, or  *)
(* one who left and one who took the seat.  One parcel.                         *)
EXTENDS TripSupply, TLC
CONSTANTS s1, s2, b1, b2, r1, r2, p1

AllOperations == {TripOps}

\* Every trip operation; the offer of the trip with the operations that end it; its vehicle.
JourneyOfferVehicle ==
    {TripOps,
     {"cancelTrip", "expireTrip"} \cup (SupplyOps \ {"archive"}),
     {"startBoarding", "publish", "block", "unblock", "review", "archive"}}

\* A journey that an admin may block, and a trip that the worker expires.
BlockedOrExpired ==
    {{"startBoarding", "start", "complete", "cancelTrip", "block"},
     {"startBoarding", "expireTrip"}}

EveryOperation == TripOps \cup {"hold", "confirm", "release", "cancel"} \cup SupplyOps
Symmetry == Permutations(Bookings) \cup Permutations(Requests) \cup Permutations(Seats)
====
