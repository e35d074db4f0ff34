------------------------------ MODULE BookingDesk ------------------------------
(***************************************************************************)
(* A booking as its client, the driver and admins see it, decide on it and *)
(* cancel it (apps/api/src/main.ts), while the trip goes on.  A page is    *)
(* read table by table, and not in one transaction.  Of the trip           *)
(* operations, the subject of TripOperations, those that write the booking *)
(* by id read it first; the seats are the subject of SeatHolds.            *)
(***************************************************************************)
EXTENDS Naturals

CONSTANTS
    BookingRequests,    \* requests that may be in flight together
    MaxCancellations    \* bound: BookingCancellation rows by a role before another is asked for

ASSUME MaxCancellationsAssumption == MaxCancellations \in Nat

VARIABLES
    bookingRow,     \* Booking.status
    tripRow,        \* Trip.status
    cancelledAs,    \* BookingCancellation rows by actorRole
    tripCancelledAs,\* actorRole of the TripCancellation rows
    bookingTx,      \* what each request has read, and does or shows
    bookingAlone    \* assumption: no two requests that write the booking by id overlap

bookingVars == <<bookingRow, tripRow, cancelledAs, tripCancelledAs, bookingTx, bookingAlone>>

ActorRoles == {"CLIENT", "DRIVER", "ADMIN"}

\* The status a cancellation gives, by the role of its actor.
targetStatus ==
    [CLIENT |-> "CANCELLED_BY_CLIENT", DRIVER |-> "CANCELLED_BY_DRIVER", ADMIN |-> "CANCELLED_BY_ADMIN"]
CancelledAsStatuses == {targetStatus[a] : a \in ActorRoles}

\* How far a trip has come, and how far it must have come for a booking.
TripStage == [PUBLISHED |-> 0, BOARDING |-> 1, IN_PROGRESS |-> 2, COMPLETED |-> 3, CANCELLED |-> 4,
              EXPIRED |-> 4]
BookingStage ==
    [SEAT_HELD |-> 0, CONFIRMED |-> 0, EXPIRED |-> 0, BOARDING |-> 1, IN_PROGRESS |-> 2, COMPLETED |-> 3,
     NO_SHOW_CLIENT |-> 0, NO_SHOW_DRIVER |-> 0,
     CANCELLED_BY_CLIENT |-> 0, CANCELLED_BY_DRIVER |-> 0, CANCELLED_BY_ADMIN |-> 0]

NoBookingPage == [booking |-> "SEAT_HELD", trip |-> "PUBLISHED", by |-> {}]
NoBookingTx == [op |-> "idle", role |-> "NONE", page |-> NoBookingPage]

BookingDeskInit ==
    /\ bookingRow = "SEAT_HELD" /\ tripRow = "PUBLISHED"
    /\ cancelledAs = [a \in ActorRoles |-> 0] /\ tripCancelledAs = {}
    /\ bookingTx = [r \in BookingRequests |-> NoBookingTx]
    /\ bookingAlone \in BOOLEAN

-----------------------------------------------------------------------------
(* What happens to the booking and the trip in one step.                   *)
Journey(trip, booking) ==
    /\ tripRow' = trip
    /\ bookingRow' = booking
    /\ UNCHANGED <<cancelledAs, tripCancelledAs, bookingTx, bookingAlone>>

Moves(from, to) == IF bookingRow \in from THEN to ELSE bookingRow
Travelling == {"CONFIRMED", "BOARDING", "IN_PROGRESS"}

\* confirm, which needs the seats held, or the expiry of the hold
HoldEnds == \E booking \in {"CONFIRMED", "EXPIRED"} :
    bookingRow = "SEAT_HELD" /\ Journey(tripRow, booking)

\* POST /admin/trips/:tripId/no-show-driver
DriverMissing == Journey("CANCELLED", Moves(Travelling, "NO_SHOW_DRIVER"))

\* The worker expires trips by id, whatever they are by then.
TripExpires == Journey("EXPIRED", bookingRow)

-----------------------------------------------------------------------------
(* Requests that read, and then write, the booking or its trip.            *)
BeginBooking(r, op, role, page) ==
    /\ bookingTx[r].op = "idle"
    /\ bookingTx' = [bookingTx EXCEPT ![r] = [op |-> op, role |-> role, page |-> page]]
    /\ UNCHANGED <<bookingRow, tripRow, cancelledAs, tripCancelledAs, bookingAlone>>

EndBooking(r, op) ==
    /\ bookingTx[r].op = op
    /\ bookingTx' = [bookingTx EXCEPT ![r] = NoBookingTx]
    /\ UNCHANGED bookingAlone

\* Those that write the booking by id, whatever it is by then; a trip that boards
\* moves the bookings it has read as CONFIRMED.
Writes(t) ==
    \/ t.op \in {"cancel", "boards", "misses"}
    \/ t.op = "startsBoarding" /\ t.page.booking = "CONFIRMED"

BeginWrite(r, op, role, page) ==
    /\ bookingAlone => \A q \in BookingRequests : ~Writes(bookingTx[q])
    /\ BeginBooking(r, op, role, page)

\* evaluateTripTransition: where the trip operations lead, and from where.
tripTransitionTargets == [startsBoarding |-> "BOARDING", starts |-> "IN_PROGRESS",
                          completes |-> "COMPLETED", cancelsTrip |-> "CANCELLED"]
tripAllowedTransitions == [startsBoarding |-> {"PUBLISHED"}, starts |-> {"BOARDING"},
                           completes |-> {"IN_PROGRESS"}, cancelsTrip |-> {"PUBLISHED", "BOARDING"}]

TripOperationBegin(r, op, role) ==
    /\ tripRow \in tripAllowedTransitions[op] \cup {tripTransitionTargets[op]}
    /\ BeginWrite(r, op, role, [booking |-> bookingRow, trip |-> tripRow, by |-> {}])

\* transitionTripStatus writes the trip as it was read, unless it was there already;
\* the operation moves the booking all the same.
TripOperationCommit(r, op, booking) == LET read == bookingTx[r].page IN
    /\ EndBooking(r, op)
    /\ read.trip # tripTransitionTargets[op] => tripRow = read.trip
    /\ tripRow' = IF read.trip = tripTransitionTargets[op] THEN tripRow ELSE tripTransitionTargets[op]
    /\ bookingRow' = booking
    /\ UNCHANGED cancelledAs

\* startBoardingTrip
BoardingCommit(r) ==
    /\ TripOperationCommit(r, "startsBoarding",
           IF bookingTx[r].page.booking = "CONFIRMED" THEN "BOARDING" ELSE bookingRow)
    /\ UNCHANGED tripCancelledAs

\* startTripOperation; a passenger without an occupied seat may be left behind.
StartCommit(r) ==
    /\ \/ TripOperationCommit(r, "starts", Moves({"BOARDING"}, "IN_PROGRESS"))
       \/ TripOperationCommit(r, "starts", bookingRow)
    /\ UNCHANGED tripCancelledAs

\* completeTripOperation
CompleteCommit(r) ==
    /\ TripOperationCommit(r, "completes", Moves({"IN_PROGRESS", "BOARDING"}, "COMPLETED"))
    /\ UNCHANGED tripCancelledAs

\* cancelTripOperational: the active bookings get the status of a cancellation,
\* and the trip, not the booking, gets the row that says by whom.
CancelTripCommit(r) == LET role == bookingTx[r].role IN
    /\ TripOperationCommit(r, "cancelsTrip", Moves(Travelling, targetStatus[role]))
    /\ tripCancelledAs' = tripCancelledAs \cup {role}

\* boardBooking, with the right code
PassengerBegin(r) ==
    /\ tripRow = "BOARDING" /\ bookingRow = "BOARDING"
    /\ BeginWrite(r, "boards", "DRIVER", NoBookingPage)

\* markClientNoShow
MissingBegin(r) ==
    /\ tripRow = "BOARDING" /\ bookingRow \in {"CONFIRMED", "BOARDING"}
    /\ BeginWrite(r, "misses", "DRIVER", NoBookingPage)

PassengerCommit(r) == \E op \in {"boards", "misses"} :
    /\ EndBooking(r, op)
    /\ bookingRow' = IF op = "boards" THEN "BOARDING" ELSE "NO_SHOW_CLIENT"
    /\ UNCHANGED <<tripRow, cancelledAs, tripCancelledAs>>

\* cancelBooking reads the booking; one that is cancelled or has expired is
\* answered as it is, and any other status may be cancelled.
CancelBookingBegin(r, role) ==
    /\ bookingRow \notin CancelledAsStatuses \cup {"EXPIRED"}
    /\ cancelledAs[role] < MaxCancellations
    /\ BeginWrite(r, "cancel", role, NoBookingPage)

\* POST /bookings/:bookingId/cancel
ClientCancels(r) == CancelBookingBegin(r, "CLIENT")

\* POST /admin/bookings/:bookingId/cancel
AdminCancels(r) == CancelBookingBegin(r, "ADMIN")

\* POST /driver/bookings/:bookingId/reject
DriverRejects(r) == CancelBookingBegin(r, "DRIVER")

\* cancelBooking writes by id, with its row and its event.
CancelBookingCommit(r) ==
    /\ EndBooking(r, "cancel")
    /\ bookingRow' = targetStatus[bookingTx[r].role]
    /\ cancelledAs' = [cancelledAs EXCEPT ![bookingTx[r].role] = @ + 1]
    /\ UNCHANGED <<tripRow, tripCancelledAs>>

-----------------------------------------------------------------------------
(* The pages.  Every page of a booking reads its row first; the request    *)
(* keeps what it shows until the page is closed.                           *)
ReadsBooking(r, kind) ==
    BeginBooking(r, kind, "NONE", [NoBookingPage EXCEPT !.booking = bookingRow])

\* GET /bookings/mine, /bookings/:bookingId
ClientOpensBooking(r) == ReadsBooking(r, "readsBooking")

\* GET /driver/trips/:tripId/bookings, /passengers
DriverOpensBookings(r) == ReadsBooking(r, "readsBooking")

\* GET /admin/bookings, /admin/bookings/:bookingId
AdminOpensBooking(r) == ReadsBooking(r, "readsBooking")

\* GET /bookings/:bookingId/operation-status
ClientOpensStatus(r) == ReadsBooking(r, "readsStatus")

\* driverDecideBooking, POST /driver/bookings/:bookingId/approve: a CONFIRMED
\* booking is answered as it is, and any other is refused, since nothing makes a
\* booking wait for the driver.
DriverApproves(r) == bookingRow = "CONFIRMED" /\ ReadsBooking(r, "readsBooking")

Shows(r, reads, shows, page) ==
    /\ bookingTx[r].op = reads
    /\ bookingTx' = [bookingTx EXCEPT ![r] = [NoBookingTx EXCEPT !.op = shows, !.page = page]]
    /\ UNCHANGED <<bookingRow, tripRow, cancelledAs, tripCancelledAs, bookingAlone>>

\* bookingInclude and serializeBooking: the cancellations, read after the booking.
ShowBooking(r) == Shows(r, "readsBooking", "showsBooking",
    [bookingTx[r].page EXCEPT !.by = {a \in ActorRoles : cancelledAs[a] > 0}])

\* The status of the trip, read after the booking.
ShowOperationStatus(r) == Shows(r, "readsStatus", "showsStatus",
    [bookingTx[r].page EXCEPT !.trip = tripRow])

\* The request fails, or its page is closed.
BookingCloses(r) ==
    /\ bookingTx[r].op # "idle"
    /\ EndBooking(r, bookingTx[r].op)
    /\ UNCHANGED <<bookingRow, tripRow, cancelledAs, tripCancelledAs>>

BookingDeskNext ==
    \/ HoldEnds \/ DriverMissing \/ TripExpires
    \/ \E r \in BookingRequests :
           \/ \E op \in DOMAIN tripTransitionTargets, role \in {"DRIVER", "ADMIN"} :
                  (role = "DRIVER" \/ op = "cancelsTrip") /\ TripOperationBegin(r, op, role)
           \/ BoardingCommit(r) \/ StartCommit(r) \/ CompleteCommit(r) \/ CancelTripCommit(r)
           \/ PassengerBegin(r) \/ MissingBegin(r) \/ PassengerCommit(r)
           \/ ClientCancels(r) \/ AdminCancels(r) \/ DriverRejects(r) \/ CancelBookingCommit(r)
           \/ ClientOpensBooking(r) \/ DriverOpensBookings(r) \/ AdminOpensBooking(r)
           \/ ClientOpensStatus(r) \/ DriverApproves(r) \/ ShowBooking(r) \/ ShowOperationStatus(r)
           \/ BookingCloses(r)

BookingDeskSpec == BookingDeskInit /\ [][BookingDeskNext]_bookingVars

-----------------------------------------------------------------------------
\* A row that tells that a has cancelled the booking, or its trip.
Explains(a) == cancelledAs[a] > 0 \/ a \in tripCancelledAs

(* A cancelled booking has a row that names the role it was cancelled by,  *)
(* its own or that of its trip, whatever overlaps; and while the requests  *)
(* that write it do not overlap, it is cancelled once and stays so.        *)
CancellationExplained ==
    /\ \A a \in ActorRoles : bookingRow = targetStatus[a] => Explains(a)
    /\ bookingAlone => \A a, b \in ActorRoles :
           /\ cancelledAs[a] > 0 => bookingRow \in CancelledAsStatuses
           /\ cancelledAs[a] <= 1 /\ (cancelledAs[a] > 0 /\ cancelledAs[b] > 0 => a = b)

(* No page runs ahead: a booking that is shown as boarding, travelling or  *)
(* completed is shown with a trip that has come as far, and one shown as   *)
(* cancelled with the row that tells by whom, unless its trip was          *)
(* cancelled.                                                              *)
PagesKeepUp == \A r \in BookingRequests : LET page == bookingTx[r].page IN
    /\ bookingTx[r].op = "showsStatus" => BookingStage[page.booking] <= TripStage[page.trip]
    /\ bookingTx[r].op = "showsBooking" => \A a \in ActorRoles :
           page.booking = targetStatus[a] => a \in page.by \/ a \in tripCancelledAs

(* What is shown of a booking has happened, and who ended it is known.     *)
BookingDeskHolds == CancellationExplained /\ PagesKeepUp
=============================================================================
