---------------------------- MODULE TripLocations ----------------------------
(***************************************************************************)
(* The location points one driver or passenger sends for one trip          *)
(* (apps/api/src/main.ts).  A request reads the trip and the newest        *)
(* PERIODIC point and creates the new point in the same transaction, which *)
(* locks neither; recordedAt is the sender's.  The latest points are shown *)
(* by three queries that run one after the other.                          *)
(***************************************************************************)
EXTENDS Naturals, FiniteSets

CONSTANTS
    Times,              \* recordedAt
    MinInterval,        \* periodicTrackingMinIntervalMs
    MaxPoints,          \* bound: PERIODIC points stored
    LocationRequests    \* requests that may be in flight together

ASSUME LocationAssumption ==
    /\ Times \subseteq Nat /\ MinInterval \in Nat \ {0} /\ MaxPoints \in Nat
    /\ IsFiniteSet(LocationRequests)

VARIABLES
    trackedTrip,    \* Trip.status
    aboard,         \* the sender is the driver, or its booking is among those underway
    points,         \* TripLocationPoint rows that are PERIODIC: recordedAt, and which of them
    otherPoints,    \* there are rows of other sources, which are not counted
    locationTx,     \* what each request has read
    locationAlone,  \* assumption: no two requests overlap
    strays          \* history: a point was stored, or shown as the latest, for a trip not underway

locationVars == <<trackedTrip, aboard, points, otherPoints, locationTx, locationAlone, strays>>

NoLocationTx == [op |-> "idle", source |-> "NONE", at |-> 0]

TripLocationsInit ==
    /\ trackedTrip = "BOOKING_OPEN"
    /\ aboard = TRUE
    /\ points = {}
    /\ otherPoints = FALSE
    /\ locationTx = [r \in LocationRequests |-> NoLocationTx]
    /\ locationAlone \in BOOLEAN
    /\ strays = FALSE

LocationIdle == \A q \in LocationRequests : locationTx[q].op = "idle"

BeginLocation(r, t) ==
    /\ locationTx[r].op = "idle"
    /\ locationAlone => LocationIdle
    /\ locationTx' = [locationTx EXCEPT ![r] = t]
    /\ UNCHANGED <<trackedTrip, aboard, points, otherPoints, locationAlone, strays>>

-----------------------------------------------------------------------------
(* evaluateTripLocationWrite; OTHER stands for the sources that are        *)
(* neither PERIODIC nor TRIP_COMPLETED.                                    *)

Sources == {"PERIODIC", "TRIP_COMPLETED", "OTHER"}

Underway(s, source) ==
    CASE source = "PERIODIC"       -> s = "IN_PROGRESS"
      [] source = "TRIP_COMPLETED" -> s \in {"BOARDING", "IN_PROGRESS", "COMPLETED"}
      [] OTHER                     -> s \in {"BOARDING", "IN_PROGRESS"}

PeriodicTimes == {p.at : p \in points}

\* The newest point is the one with the latest recordedAt.  (mutant) the oldest is compared
ThrottledByOldest(at) ==
    \E p \in PeriodicTimes : (\A q \in PeriodicTimes : p <= q) /\ at < p + MinInterval
Throttled(at) ==
    \E p \in PeriodicTimes : (\A q \in PeriodicTimes : q <= p) /\ at < p + MinInterval

\* POST /trips/:tripId/location
RecordBegin(r) == \E source \in Sources :
    /\ aboard
    /\ Underway(trackedTrip, source)
    /\ \E at \in (IF source = "PERIODIC" THEN {t \in Times : ~Throttled(t)} ELSE {0}) :
           BeginLocation(r, [op |-> "record", source |-> source, at |-> at])

RecordCommit(r) ==
    LET t == locationTx[r]
    IN  /\ t.op = "record"
        /\ \/ /\ t.source = "PERIODIC" /\ Cardinality(points) < MaxPoints
              /\ points' = points \cup
                     {[at |-> t.at, nth |-> Cardinality({p \in points : p.at = t.at}) + 1]}
              /\ UNCHANGED otherPoints
           \/ /\ t.source # "PERIODIC"
              /\ otherPoints' = TRUE
              /\ UNCHANGED points
        /\ strays' = (strays \/ ~Underway(trackedTrip, t.source))
        /\ locationTx' = [locationTx EXCEPT ![r] = NoLocationTx]
        /\ UNCHANGED <<trackedTrip, aboard, locationAlone>>

RecordFails(r) ==
    /\ locationTx[r].op = "record"
    /\ locationTx' = [locationTx EXCEPT ![r] = NoLocationTx]
    /\ UNCHANGED <<trackedTrip, aboard, points, otherPoints, locationAlone, strays>>

\* GET /trips/:tripId/location/latest: first the trip, then the points.
ShareRealtime == trackedTrip \in {"BOARDING", "IN_PROGRESS"}
LatestBegin(r) == ShareRealtime /\ BeginLocation(r, [op |-> "latest", source |-> "NONE", at |-> 0])

LatestShown(r) ==
    /\ locationTx[r].op = "latest"
    /\ strays' = (strays \/ ((otherPoints \/ PeriodicTimes # {}) /\ ~ShareRealtime))
    /\ locationTx' = [locationTx EXCEPT ![r] = NoLocationTx]
    /\ UNCHANGED <<trackedTrip, aboard, points, otherPoints, locationAlone>>

-----------------------------------------------------------------------------
\* The operations of the trip; its bookings start boarding with it or do not.
TripMoves ==
    /\ locationAlone => LocationIdle
    /\ \/ trackedTrip = "BOOKING_OPEN" /\ trackedTrip' \in {"BOARDING", "CANCELLED"}
       \/ trackedTrip = "BOARDING" /\ trackedTrip' \in {"IN_PROGRESS", "CANCELLED"}
       \/ trackedTrip = "IN_PROGRESS" /\ trackedTrip' = "COMPLETED"
    /\ UNCHANGED <<aboard, points, otherPoints, locationTx, locationAlone, strays>>

\* The passenger is a no-show, or cancels.
PassengerLeaves ==
    /\ aboard /\ trackedTrip = "BOARDING"
    /\ locationAlone => LocationIdle
    /\ aboard' = FALSE
    /\ UNCHANGED <<trackedTrip, points, otherPoints, locationTx, locationAlone, strays>>

TripLocationsNext ==
    \/ \E r \in LocationRequests :
           RecordBegin(r) \/ RecordCommit(r) \/ RecordFails(r) \/ LatestBegin(r) \/ LatestShown(r)
    \/ TripMoves \/ PassengerLeaves

TripLocationsSpec == TripLocationsInit /\ [][TripLocationsNext]_locationVars

-----------------------------------------------------------------------------
(* Within any MinInterval of recorded time a sender has no more PERIODIC   *)
(* points than requests in flight, whatever times it claims and in which   *)
(* order they arrive: one, if requests do not overlap.                     *)
PointsAreSpaced == \A from \in Times :
    Cardinality({p \in points : p.at \in from .. from + MinInterval - 1})
        <= (IF locationAlone THEN 1 ELSE Cardinality(LocationRequests))

(* Nothing is stored for a trip that is not underway, nor shown as where   *)
(* its vehicle is, unless the trip moves while a request is in flight.     *)
TrackedWhileUnderway == locationAlone => ~strays

(* A position is recorded only during the trip, and not too often.         *)
PositionsAreBounded == PointsAreSpaced /\ TrackedWhileUnderway
=============================================================================
