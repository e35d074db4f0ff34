---- MODULE MCSeatHolds ----
(* Two seats, so that a booking can hold one or both; three bookings, so that  *)
(* a seat can pass to a second and a third one; two requests in flight.        *)
EXTENDS SeatHolds, TLC
CONSTANTS s1, s2, b1, b2, b3, r1, r2
Symmetry == Permutations(Bookings) \cup Permutations(Requests) \cup Permutations(Seats)
====
