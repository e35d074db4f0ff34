--------------------------- MODULE TripOperations ---------------------------
(***************************************************************************)
(* The trip after its bookings: boarding, start PINs, no-shows, start,     *)
(* completion and cancellation (apps/api/src/main.ts), the worker that     *)
(* expires stale trips (apps/worker/src/main.ts) and the parcels on board. *)
(* The seats and bookings are those of SeatHolds, whose requests go on.    *)
(* An operation reads in its Begin step and writes in its Commit step; the *)
(* trip row is written only at the version that was read, the bookings and *)
(* seats unconditionally unless the code has a condition.                  *)
(***************************************************************************)
EXTENDS SeatHolds, ParcelLifecycle

CONSTANT OperationSets  \* bound: the operations and supply routes used together

VARIABLES
    tripVersion,    \* Trip.version
    staleTrip,      \* the worker's query returned the trip as stale
    pinVerified,    \* bookings that have a VERIFIED TripStartPin
    overridden,     \* history: the trip was started with allowUnresolvedPassengers
    operations      \* the set of operations chosen at the start

opVars == <<tripVersion, staleTrip, pinVerified, overridden, parcel, operations>>
tripOpVars == <<vars, opVars>>

TripOps == {"startBoarding", "board", "verifyPin", "noShow", "start", "complete",
            "cancelTrip", "noShowDriver", "expireTrip"}

NoOperations ==
    /\ tripVersion = 0
    /\ staleTrip = FALSE
    /\ pinVerified = {}
    /\ overridden = FALSE
    /\ parcel = [p \in Parcels |-> "NONE"]
    /\ operations \in OperationSets

-----------------------------------------------------------------------------
(* evaluateTripTransition and transitionTripStatus                         *)

tripTransitionTargets ==
    [START_BOARDING |-> "BOARDING", START_TRIP |-> "IN_PROGRESS",
     COMPLETE_TRIP |-> "COMPLETED", CANCEL_TRIP |-> "CANCELLED",
     EXPIRE_TRIP |-> "EXPIRED"]

tripAllowedTransitions ==
    [START_BOARDING |-> {"PUBLISHED", "BOOKING_OPEN", "FULL"},
     START_TRIP |-> {"BOARDING"},
     COMPLETE_TRIP |-> {"IN_PROGRESS"},
     CANCEL_TRIP |-> {"PUBLISHED", "BOOKING_OPEN", "FULL", "BOARDING"},
     EXPIRE_TRIP |-> {"PUBLISHED", "BOOKING_OPEN"}]

\* A retry in the target status is accepted and runs the rest of the handler.
MayTransition(action) ==
    tripStatus \in tripAllowedTransitions[action] \cup {tripTransitionTargets[action]}

\* (mutant) the update does not compare the version
TransitionTripUnversioned(t, action) ==
    /\ tripStatus' = tripTransitionTargets[action]
    /\ tripVersion' = tripVersion + 1

TransitionTrip(t, action) ==
    IF t.from = tripTransitionTargets[action]
    THEN UNCHANGED <<tripStatus, tripVersion>>
    ELSE /\ tripVersion = t.ver
         /\ tripStatus' = tripTransitionTargets[action]
         /\ tripVersion' = tripVersion + 1

-----------------------------------------------------------------------------
(* What the operations read and write.                                     *)

TripTx(op, b, to, bs) ==
    [op |-> op, b |-> b, to |-> to, seats |-> {}, booked |-> {}, expired |-> {},
     from |-> tripStatus, ver |-> tripVersion, bs |-> bs]

InStatus(statuses) == {b \in Bookings : booking[b] \in statuses}
activeBookingWhere == InStatus({"CONFIRMED", "BOARDING", "IN_PROGRESS"})
Boarded == {b \in Bookings : SeatsOf(b, {"OCCUPIED"}) # {}}

SetBookings(B, status) ==
    booking' = [b \in Bookings |-> IF b \in B THEN status ELSE booking[b]]

SetSeats(S, status) ==
    seat' = [s \in Seats |-> IF s \in S THEN status ELSE seat[s]]

BeginOp(r, op, b, to, bs) ==
    /\ op \in operations
    /\ MayBegin(r, op)
    /\ Begin(r, TripTx(op, b, to, bs))
    /\ UNCHANGED <<tripVars, rows, lapsed, lock, batch, opVars>>

EndOp(r, op) ==
    /\ tx[r].op = op
    /\ End(r)
    /\ UNCHANGED <<departed, availableSeatCount, hold, lapsed, lock, batch, staleTrip, operations>>

-----------------------------------------------------------------------------
(* startBoardingTrip: the bookings that were CONFIRMED when the trip was   *)
(* read become BOARDING.                                                   *)

StartBoardingBegin(r) ==
    /\ MayTransition("START_BOARDING")
    /\ BeginOp(r, "startBoarding", NoBooking, "NONE", InStatus({"CONFIRMED"}))

StartBoardingCommit(r) ==
    /\ EndOp(r, "startBoarding")
    /\ TransitionTrip(tx[r], "START_BOARDING")
    /\ SetBookings(tx[r].bs, "BOARDING")
    /\ UNCHANGED <<seat, bookingSeat, pinVerified, overridden, parcel>>

(* boardBooking with the right code; a client whose booking is BOARDING    *)
(* can always fetch one.                                                   *)

BoardBegin(r, b) ==
    /\ tripStatus = "BOARDING"
    /\ booking[b] = "BOARDING"
    /\ BeginOp(r, "board", b, "NONE", {})

\* (mutant) the TripSeat rows are forgotten
BoardWithoutTripSeats(b) ==
    /\ UNCHANGED seat
    /\ bookingSeat' = [bookingSeat EXCEPT ![b] =
                          [s \in Seats |-> IF @[s] = "BOOKED" THEN "OCCUPIED" ELSE @[s]]]

OccupySeats(b) ==
    /\ SetSeats(Items(b), "OCCUPIED")
    /\ bookingSeat' = [bookingSeat EXCEPT ![b] =
                          [s \in Seats |-> IF @[s] = "BOOKED" THEN "OCCUPIED" ELSE @[s]]]

BoardCommit(r) ==
    /\ EndOp(r, "board")
    /\ SetBookings({tx[r].b}, "BOARDING")
    /\ OccupySeats(tx[r].b)
    /\ UNCHANGED <<tripStatus, tripVersion, pinVerified, overridden, parcel>>

(* verifyTripStartPinForBooking with the right PIN                         *)

VerifyPinBegin(r, b) ==
    /\ tripStatus = "BOARDING"
    /\ booking[b] = "BOARDING"
    /\ b \in Boarded
    /\ BeginOp(r, "verifyPin", b, "NONE", {})

VerifyPinCommit(r) ==
    /\ EndOp(r, "verifyPin")
    /\ pinVerified' = pinVerified \cup {tx[r].b}
    /\ UNCHANGED <<tripStatus, tripVersion, seat, booking, bookingSeat, overridden, parcel>>

(* markClientNoShow                                                        *)

NoShowBegin(r, b) ==
    /\ tripStatus = "BOARDING"
    /\ booking[b] \in {"CONFIRMED", "BOARDING"}
    /\ BeginOp(r, "noShow", b, "NONE", {})

NoShowCommit(r) ==
    LET b == tx[r].b
    IN  /\ EndOp(r, "noShow")
        /\ SetSeats(Items(b), "AVAILABLE")
        /\ bookingSeat' = [bookingSeat EXCEPT ![b] =
                              [s \in Seats |-> IF @[s] = "NONE" THEN "NONE" ELSE "RELEASED"]]
        /\ SetBookings({b}, "NO_SHOW_CLIENT")
        /\ UNCHANGED <<tripStatus, tripVersion, pinVerified, overridden, parcel>>

-----------------------------------------------------------------------------
(* startTripOperation                                                      *)

\* The handler compares two counts, of the bookings still BOARDING and of those
\* that have an occupied seat, and then counts the PINs of the latter.
\* (mutant) the PINs are not counted
PassengersBoarded == Cardinality(InStatus({"BOARDING"})) = Cardinality(Boarded)

PassengersResolved ==
    /\ Cardinality(InStatus({"BOARDING"})) = Cardinality(Boarded)
    /\ Boarded \subseteq pinVerified

StartBegin(r, override) ==
    /\ override \/ PassengersResolved
    /\ MayTransition("START_TRIP")
    /\ BeginOp(r, "start", NoBooking, "NONE", IF override THEN Bookings ELSE {})

StartCommit(r) ==
    /\ EndOp(r, "start")
    /\ TransitionTrip(tx[r], "START_TRIP")
    /\ SetBookings(InStatus({"BOARDING"}) \cap Boarded, "IN_PROGRESS")
    /\ TransitionParcels({p \in Parcels : parcel[p] = "HANDED_TO_DRIVER"}, "START_TRANSIT")
    /\ overridden' = (overridden \/ tx[r].bs # {})
    /\ UNCHANGED <<seat, bookingSeat, pinVerified>>

(* completeTripOperation                                                   *)

CompleteBegin(r) ==
    /\ MayTransition("COMPLETE_TRIP")
    /\ BeginOp(r, "complete", NoBooking, "NONE", {})

CompleteCommit(r) ==
    /\ EndOp(r, "complete")
    /\ TransitionTrip(tx[r], "COMPLETE_TRIP")
    /\ SetBookings(InStatus({"IN_PROGRESS", "BOARDING"}), "COMPLETED")
    /\ UNCHANGED <<seat, bookingSeat, pinVerified, overridden, parcel>>

-----------------------------------------------------------------------------
(* cancelTripOperational and the admin's no-show-driver.  Neither touches  *)
(* the BookingSeat rows, the holds or the bookings that are still HOLD.    *)

\* (mutant) only confirmed bookings are closed
CloseConfirmedBookings(status) ==
    /\ SetBookings(InStatus({"CONFIRMED"}), status)
    /\ SetSeats(Seats, "AVAILABLE")

CloseBookings(status) ==
    /\ SetBookings(activeBookingWhere, status)
    /\ SetSeats(Seats, "AVAILABLE")

CancelTripBegin(r, actor) ==
    /\ MayTransition("CANCEL_TRIP")
    /\ BeginOp(r, "cancelTrip", NoBooking, CancelledBy(actor), {})

CancelTripCommit(r) ==
    /\ EndOp(r, "cancelTrip")
    /\ TransitionTrip(tx[r], "CANCEL_TRIP")
    /\ CloseBookings(tx[r].to)
    /\ TransitionParcels(ActiveParcels, "CANCEL_ADMIN")
    /\ UNCHANGED <<bookingSeat, pinVerified, overridden>>

NoShowDriverBegin(r) == BeginOp(r, "noShowDriver", NoBooking, "NO_SHOW_DRIVER", {})

\* The trip row is written whatever its version and status are by now.
NoShowDriverCommit(r) ==
    /\ EndOp(r, "noShowDriver")
    /\ IF tx[r].from = "CANCELLED"
       THEN UNCHANGED <<tripStatus, tripVersion>>
       ELSE tripStatus' = "CANCELLED" /\ tripVersion' = tripVersion + 1
    /\ CloseBookings(tx[r].to)
    /\ UNCHANGED <<bookingSeat, pinVerified, overridden, parcel>>

-----------------------------------------------------------------------------
(* The operations worker: trips that are still open after their departure  *)
(* are read first and then expired one by one, whatever they are by then.  *)

\* (mutant) the query forgets the status
StaleTripAnyStatus == departed

StaleTrip == departed /\ tripStatus \in tripAllowedTransitions["EXPIRE_TRIP"]

WorkerFindsStaleTrip ==
    /\ "expireTrip" \in operations \ Isolated
    /\ StaleTrip /\ ~staleTrip
    /\ staleTrip' = TRUE
    /\ UNCHANGED <<vars, tripVersion, pinVerified, overridden, parcel, operations>>

WorkerExpiresTrip ==
    /\ MayRun
    /\ staleTrip \/ ("expireTrip" \in Isolated \cap operations /\ StaleTrip)
    /\ tripStatus' = "EXPIRED"
    /\ tripVersion' = tripVersion + 1
    /\ staleTrip' = FALSE
    /\ UNCHANGED <<departed, rows, lapsed, lock, tx, batch, pinVerified, overridden, parcel,
                   operations>>

-----------------------------------------------------------------------------
(* The parcel routes: POST /parcels for this trip, the sender's, driver's  *)
(* and admin's transitions, and the worker's two expiries.                 *)

CreateParcel(p) ==
    /\ Bookable
    /\ parcel[p] = "NONE"
    /\ parcel' = [parcel EXCEPT ![p] = "DRAFT"]

ParcelRoute(p) ==
    \E action \in SenderActions \cup DriverActions \cup AdminActions :
        TransitionParcels({p}, action)

\* A draft that nobody submitted for a day; a parcel that was not handed over
\* before departure.
WorkerExpiresParcel(p) ==
    /\ \/ parcel[p] \in {"DRAFT", "CREATED"}
       \/ parcel[p] = "ACCEPTED" /\ departed
    /\ parcel' = [parcel EXCEPT ![p] = "EXPIRED"]

ParcelStep(p) ==
    /\ MayRun
    /\ CreateParcel(p) \/ ParcelRoute(p) \/ WorkerExpiresParcel(p)
    /\ UNCHANGED <<vars, tripVersion, staleTrip, pinVerified, overridden, operations>>

-----------------------------------------------------------------------------
\* A step of SeatHolds.  Confirmation and the cancellation of booked seats bump
\* Trip.version when they change availableSeatCount, and nothing else there does.
BookingWrites(Step) ==
    /\ Step
    /\ tripVersion' = IF availableSeatCount' = availableSeatCount
                      THEN tripVersion ELSE tripVersion + 1
    /\ UNCHANGED <<staleTrip, pinVerified, overridden, parcel, operations>>

BookingStep == BookingWrites(Next)

TripOperation(r) ==
    \/ StartBoardingBegin(r) \/ StartBoardingCommit(r)
    \/ \E b \in Bookings : BoardBegin(r, b) \/ VerifyPinBegin(r, b) \/ NoShowBegin(r, b)
    \/ BoardCommit(r) \/ VerifyPinCommit(r) \/ NoShowCommit(r)
    \/ \E override \in BOOLEAN : StartBegin(r, override)
    \/ StartCommit(r)
    \/ CompleteBegin(r) \/ CompleteCommit(r)
    \/ \E actor \in {"DRIVER", "ADMIN"} : CancelTripBegin(r, actor)
    \/ CancelTripCommit(r)
    \/ NoShowDriverBegin(r) \/ NoShowDriverCommit(r)

-----------------------------------------------------------------------------
TripTypeOK ==
    /\ tripStatus \in TripStatuses
    /\ seat \in [Seats -> SeatStatuses]
    /\ booking \in [Bookings -> BookingStatuses]
    /\ bookingSeat \in [Bookings -> [Seats -> BookingSeatStatuses]]
    /\ tripVersion \in Nat
    /\ staleTrip \in BOOLEAN /\ overridden \in BOOLEAN
    /\ pinVerified \subseteq Bookings
    /\ parcel \in [Parcels -> ParcelStatuses]
    /\ operations \in OperationSets

(* A booking is IN_PROGRESS only with a passenger in the seat, whose start *)
(* PIN the driver has verified unless the start overrode it.               *)
PassengersVerified ==
    \A b \in InStatus({"IN_PROGRESS"}) : b \in Boarded /\ (b \in pinVerified \/ overridden)

(* Whoever else writes the trip in the meantime, boarding, start and       *)
(* completion move it along the table from the status it really has.       *)
OperationsFollowTable ==
    [][\A action \in {"START_BOARDING", "START_TRIP", "COMPLETE_TRIP"} :
            (tripStatus' = tripTransitionTargets[action] /\ tripStatus' # tripStatus)
                => tripStatus \in tripAllowedTransitions[action]]_tripOpVars

(* Without the override a trip starts with every active passenger boarded. *)
StartResolvesPassengers ==
    [][(tripStatus = "BOARDING" /\ tripStatus' = "IN_PROGRESS" /\ ~overridden')
            => \A b \in Bookings : booking[b] \in {"CONFIRMED", "BOARDING"} => b \in Boarded]_tripOpVars

(* Cancelling a trip cancels its active parcels.                           *)
ParcelsCancelledWithTrip ==
    [][(tripStatus' = "CANCELLED" /\ tripStatus # "CANCELLED")
            => \A p \in ActiveParcels : parcel'[p] = "CANCELLED_BY_ADMIN"]_tripOpVars
=============================================================================
