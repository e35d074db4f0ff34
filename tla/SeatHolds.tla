------------------------------ MODULE SeatHolds ------------------------------
(***************************************************************************)
(* Seat inventory, temporary holds and bookings of one intercity trip, as  *)
(* apps/api/src/main.ts and apps/worker/src/maintenance.ts keep them in    *)
(* PostgreSQL (tables TripSeat, SeatHold, Booking, BookingSeat, Trip)      *)
(* behind a Redis lock.  A request runs one READ COMMITTED transaction:    *)
(* what it read can be stale when its writes run, while the condition of   *)
(* every updateMany is evaluated on the rows as they then are.  So a       *)
(* transaction is a Begin step that reads into tx[r] and a Commit step     *)
(* that writes, and anything may happen between the two.                   *)
(***************************************************************************)
EXTENDS Integers, FiniteSets

CONSTANTS
    Seats,       \* the seat keys of the trip (generateSeatLayout)
    Bookings,    \* idempotency keys of hold requests; a key names the booking
                 \* it creates, since SeatHold is unique on (trip, key)
    Requests,    \* API requests that may be in flight at the same time
    NoBooking,   \* what an idle request is about
    Free,        \* the Redis lock is not set
    Orphan,      \* the lock is set by a request that is gone
    Actors,      \* roles that cancel, a subset of CLIENT, DRIVER, ADMIN
    Isolated     \* operations assumed to overlap no other; {} is the code

ASSUME SeatsAssumption == IsFiniteSet(Seats) /\ Seats # {}
ASSUME NoBookingAssumption == NoBooking \notin Bookings
ASSUME LockAssumption == Free \notin Requests /\ Orphan \notin Requests /\ Free # Orphan
ASSUME ActorsAssumption == Actors \subseteq {"CLIENT", "DRIVER", "ADMIN"}

VARIABLES
    tripStatus,          \* Trip.status
    departed,            \* Trip.departureAtUtc has passed
    availableSeatCount,  \* Trip.availableSeatCount
    seat,                \* TripSeat.status by seat
    hold,                \* SeatHold.status by booking, "NONE" before it exists
    lapsed,              \* SeatHold.expiresAt has passed
    booking,             \* Booking.status, "NONE" before it exists
    bookingSeat,         \* BookingSeat.status by booking and seat
    lock,                \* value of Redis key booking:trip:<id>
    tx,                  \* the transaction each request has in flight
    batch                \* holds the worker read and has not processed yet

tripVars == <<tripStatus, departed>>
rows == <<availableSeatCount, seat, hold, booking, bookingSeat>>
vars == <<tripVars, rows, lapsed, lock, tx, batch>>

-----------------------------------------------------------------------------
TripStatuses == {"DRAFT", "UNPUBLISHED", "BLOCKED", "PUBLISHED", "BOOKING_OPEN", "FULL", "BOARDING",
                 "IN_PROGRESS", "COMPLETED", "CANCELLED", "EXPIRED"}
SeatStatuses == {"AVAILABLE", "HELD", "BOOKED", "OCCUPIED"}
HoldStatuses == {"NONE", "ACTIVE", "CONFIRMED", "RELEASED", "EXPIRED", "CANCELLED"}
CancelledStatuses == {"CANCELLED_BY_CLIENT", "CANCELLED_BY_DRIVER", "CANCELLED_BY_ADMIN"}
BookingStatuses == CancelledStatuses \cup
    {"NONE", "HOLD", "PAYMENT_PENDING", "CONFIRMED", "EXPIRED", "BOARDING",
     "IN_PROGRESS", "COMPLETED", "NO_SHOW_CLIENT", "NO_SHOW_DRIVER"}
BookingSeatStatuses == {"NONE", "HELD", "BOOKED", "OCCUPIED", "RELEASED", "CANCELLED"}

CancelledBy(actor) == IF actor = "DRIVER" THEN "CANCELLED_BY_DRIVER"
                      ELSE IF actor = "ADMIN" THEN "CANCELLED_BY_ADMIN"
                      ELSE "CANCELLED_BY_CLIENT"

Idle == [op |-> "idle", b |-> NoBooking, to |-> "NONE",
         seats |-> {}, booked |-> {}, expired |-> {}]

Transactions ==
    [op : {"idle", "hold", "confirm", "release", "cancel"},
     b : Bookings \cup {NoBooking}, to : BookingStatuses,
     seats : SUBSET Seats, booked : SUBSET Seats, expired : SUBSET Bookings]

TypeOK ==
    /\ tripStatus \in TripStatuses
    /\ departed \in BOOLEAN
    /\ availableSeatCount \in Int
    /\ seat \in [Seats -> SeatStatuses]
    /\ hold \in [Bookings -> HoldStatuses]
    /\ lapsed \in [Bookings -> BOOLEAN]
    /\ booking \in [Bookings -> BookingStatuses]
    /\ bookingSeat \in [Bookings -> [Seats -> BookingSeatStatuses]]
    /\ lock \in Requests \cup {Free, Orphan}
    /\ tx \in [Requests -> Transactions]
    /\ batch \in SUBSET Bookings

\* The trip has its seats, and nobody has held one.
NoBookings ==
    /\ departed = FALSE
    /\ availableSeatCount = Cardinality(Seats)
    /\ seat = [s \in Seats |-> "AVAILABLE"]
    /\ hold = [b \in Bookings |-> "NONE"]
    /\ lapsed = [b \in Bookings |-> FALSE]
    /\ booking = [b \in Bookings |-> "NONE"]
    /\ bookingSeat = [b \in Bookings |-> [s \in Seats |-> "NONE"]]
    /\ lock = Free
    /\ tx = [r \in Requests |-> Idle]
    /\ batch = {}

Init == tripStatus = "PUBLISHED" /\ NoBookings

-----------------------------------------------------------------------------
(* What the handlers look at.                                              *)

\* The seats a booking was created with (its SeatHoldItem and BookingSeat rows).
Items(b) == {s \in Seats : bookingSeat[b][s] # "NONE"}

SeatsOf(b, statuses) == {s \in Seats : bookingSeat[b][s] \in statuses}

\* The filter of the trip query in the hold and seat-map routes.
Bookable == tripStatus \in {"PUBLISHED", "BOOKING_OPEN"} /\ ~departed

\* expireSeatHolds' query: ACTIVE holds past their expiry.
\* (mutant) the query forgets status: "ACTIVE"
LapsedHoldsAnyStatus == {b \in Bookings : hold[b] # "NONE" /\ lapsed[b]}

LapsedHolds == {b \in Bookings : hold[b] = "ACTIVE" /\ lapsed[b]}

\* The rows that other transactions have updated and not committed: a hold
\* request claims the expired holds before it does anything else.
LockedBy(others) == UNION {tx[q].expired : q \in others}
Unlocked(r, S) == \A e \in LockedBy(Requests \ {r}) : Items(e) \cap S = {}
UnlockedHolds == LapsedHolds \ LockedBy(Requests)

\* The Isolated assumption: such an operation runs from Begin to Commit alone.
MayRun == \A q \in Requests : tx[q].op \notin Isolated
MayBegin(r, op) ==
    /\ tx[r] = Idle
    /\ MayRun
    /\ op \in Isolated => \A q \in Requests : tx[q] = Idle

Begin(r, t) == tx' = [tx EXCEPT ![r] = t]
End(r) == tx' = [tx EXCEPT ![r] = Idle]

-----------------------------------------------------------------------------
(* releaseActiveSeatHold for every hold of E, which the CAS on (ACTIVE,    *)
(* version) finds ACTIVE; every write that bumps SeatHold.version also     *)
(* moves the hold out of ACTIVE, so the version is not kept.               *)

\* (mutants) the seat takes the hold's status; the seat is forgotten
FreedSeatsWrongStatus(E) ==
    [s \in Seats |-> IF \E e \in E : s \in Items(e) THEN "RELEASED" ELSE seat[s]]
FreedSeatsForgotten(E) == seat

FreedSeats(E) ==
    [s \in Seats |-> IF seat[s] = "HELD" /\ \E e \in E : s \in Items(e)
                     THEN "AVAILABLE" ELSE seat[s]]

\* (mutant) the BookingSeat rows are forgotten
ReleasedRowsForgotten(E) == bookingSeat

ReleasedRows(E) ==
    [b \in Bookings |->
        [s \in Seats |-> IF b \in E /\ bookingSeat[b][s] = "HELD"
                         THEN "RELEASED" ELSE bookingSeat[b][s]]]

\* (mutant) the booking is forgotten
ReleaseWithoutBooking(E, status) ==
    /\ hold' = [b \in Bookings |-> IF b \in E THEN status ELSE hold[b]]
    /\ seat' = FreedSeats(E)
    /\ bookingSeat' = ReleasedRows(E)
    /\ UNCHANGED <<booking, availableSeatCount>>

ReleaseActiveSeatHolds(E, status) ==
    /\ hold' = [b \in Bookings |-> IF b \in E THEN status ELSE hold[b]]
    /\ seat' = FreedSeats(E)
    /\ bookingSeat' = ReleasedRows(E)
    /\ booking' = [b \in Bookings |-> IF b \in E THEN "EXPIRED" ELSE booking[b]]
    /\ UNCHANGED availableSeatCount

-----------------------------------------------------------------------------
(* POST /bookings/holds, under withBookingLock.                            *)

\* SET key token PX ttl NX returned "OK".  (mutant) SET without NX
SetWithoutNx == TRUE
LockAcquired == lock = Free

\* A request whose lock is refused, whose trip is not bookable or whose seats
\* are taken throws before it writes.  A SEAT request asks for one seat, a
\* MULTI_SEAT one for several, a WHOLE_CAR one for all of them.
HoldBegin(r, b, S) ==
    /\ MayBegin(r, "hold")
    /\ LockAcquired
    /\ Bookable
    /\ hold[b] = "NONE"
    /\ S # {}
    /\ \A s \in S : FreedSeats(UnlockedHolds)[s] = "AVAILABLE"
    /\ lock' = r
    /\ Begin(r, [Idle EXCEPT !.op = "hold", !.b = b, !.seats = S,
                             !.expired = UnlockedHolds])
    /\ UNCHANGED <<tripVars, rows, lapsed, batch>>

\* The finally block drops the lock; a failed release is swallowed, and then
\* the key stays until its TTL ends.
ReleaseLock(r) ==
    lock' \in IF tx[r].op = "hold" THEN {Free, Orphan} ELSE {lock}

HoldCommit(r) ==
    LET t == tx[r]
        freed == FreedSeats(t.expired)
    IN  /\ t.op = "hold"
        /\ hold[t.b] = "NONE"
        /\ hold' = [b \in Bookings |-> IF b = t.b THEN "ACTIVE"
                                       ELSE IF b \in t.expired THEN "EXPIRED" ELSE hold[b]]
        /\ booking' = [b \in Bookings |-> IF b = t.b THEN "HOLD"
                                          ELSE IF b \in t.expired THEN "EXPIRED" ELSE booking[b]]
        /\ seat' = [s \in Seats |-> IF s \in t.seats /\ freed[s] = "AVAILABLE"
                                    THEN "HELD" ELSE freed[s]]
        /\ bookingSeat' = [ReleasedRows(t.expired) EXCEPT
                              ![t.b] = [s \in Seats |-> IF s \in t.seats THEN "HELD" ELSE "NONE"]]
        /\ ReleaseLock(r)
        /\ End(r)
        /\ UNCHANGED <<tripVars, availableSeatCount, lapsed, batch>>

\* A retry with a key that is already known returns the stored response; the
\* expiry that ran before the lookup is committed with it.
HoldReplay(b) ==
    /\ MayRun
    /\ LockAcquired
    /\ hold[b] # "NONE"
    /\ UnlockedHolds # {}
    /\ ReleaseActiveSeatHolds(UnlockedHolds, "EXPIRED")
    /\ lock' \in {Free, Orphan}
    /\ UNCHANGED <<tripVars, lapsed, tx, batch>>

\* (mutant) SET without PX
LockWithoutTtl == FALSE /\ UNCHANGED vars

LockTtlElapses ==
    /\ lock = Orphan
    /\ lock' = Free
    /\ UNCHANGED <<tripVars, rows, lapsed, tx, batch>>

\* GET /trips/public/:tripId/seats expires holds before it lists the seats, and
\* rolls that back when the trip is not public.
ListSeats ==
    /\ MayRun
    /\ Bookable
    /\ UnlockedHolds # {}
    /\ ReleaseActiveSeatHolds(UnlockedHolds, "EXPIRED")
    /\ UNCHANGED <<tripVars, lapsed, lock, tx, batch>>

-----------------------------------------------------------------------------
(* POST /bookings/holds/:holdId/confirm                                    *)

ConfirmBegin(r, b) ==
    /\ MayBegin(r, "confirm")
    /\ hold[b] = "ACTIVE"
    /\ booking[b] # "CONFIRMED"
    /\ ~lapsed[b]
    /\ Begin(r, [Idle EXCEPT !.op = "confirm", !.b = b, !.seats = Items(b)])
    /\ UNCHANGED <<tripVars, rows, lapsed, lock, batch>>

\* Both updateMany counts must equal the number of seats, or the handler throws
\* SEAT_HOLD_OWNERSHIP_CONFLICT and nothing is written (Abort).
\* (mutant) only the TripSeat count is compared
StillHeldInTrip(b, S) == \A s \in S : seat[s] = "HELD"

StillHeld(b, S) ==
    /\ \A s \in S : seat[s] = "HELD"
    /\ \A s \in S : bookingSeat[b][s] = "HELD"

ConfirmCommit(r) ==
    LET t == tx[r]
    IN  /\ t.op = "confirm"
        /\ Unlocked(r, t.seats)
        /\ StillHeld(t.b, t.seats)
        /\ seat' = [s \in Seats |-> IF s \in t.seats THEN "BOOKED" ELSE seat[s]]
        /\ bookingSeat' = [bookingSeat EXCEPT ![t.b] =
                              [s \in Seats |-> IF s \in t.seats THEN "BOOKED" ELSE @[s]]]
        /\ hold' = [hold EXCEPT ![t.b] = "CONFIRMED"]
        /\ booking' = [booking EXCEPT ![t.b] = "CONFIRMED"]
        /\ availableSeatCount' = availableSeatCount - Cardinality(t.seats)
        /\ End(r)
        /\ UNCHANGED <<tripVars, lapsed, lock, batch>>

-----------------------------------------------------------------------------
(* DELETE /bookings/holds/:holdId                                          *)

ReleaseBegin(r, b) ==
    /\ MayBegin(r, "release")
    /\ hold[b] = "ACTIVE"
    /\ Begin(r, [Idle EXCEPT !.op = "release", !.b = b, !.seats = Items(b)])
    /\ UNCHANGED <<tripVars, rows, lapsed, lock, batch>>

\* When the claim fails the booking is returned as it is.
ReleaseCommit(r) ==
    LET t == tx[r]
    IN  /\ t.op = "release"
        /\ Unlocked(r, t.seats)
        /\ \/ hold[t.b] = "ACTIVE" /\ ReleaseActiveSeatHolds({t.b}, "RELEASED")
           \/ hold[t.b] # "ACTIVE" /\ UNCHANGED rows
        /\ End(r)
        /\ UNCHANGED <<tripVars, lapsed, lock, batch>>

-----------------------------------------------------------------------------
(* cancelBooking, from the client's, the driver's (reject) and the admin's *)
(* route.  It takes neither the lock nor a version.                        *)

Cancellable(b) == booking[b] \notin CancelledStatuses \cup {"NONE", "EXPIRED"}

\* The seats that count as booked.  (mutant) held seats count too
BookedOrHeldSeats(b) == SeatsOf(b, {"HELD", "BOOKED"})
BookedSeats(b) == SeatsOf(b, {"BOOKED"})

CancelBegin(r, b, actor) ==
    /\ MayBegin(r, "cancel")
    /\ Cancellable(b)
    /\ Begin(r, [Idle EXCEPT !.op = "cancel", !.b = b, !.to = CancelledBy(actor),
                             !.seats = SeatsOf(b, {"HELD", "BOOKED"}),
                             !.booked = BookedSeats(b)])
    /\ UNCHANGED <<tripVars, rows, lapsed, lock, batch>>

CancelCommit(r) ==
    LET t == tx[r]
    IN  /\ t.op = "cancel"
        /\ Unlocked(r, Items(t.b))
        /\ seat' = [s \in Seats |-> IF s \in t.seats /\ seat[s] \in {"HELD", "BOOKED"}
                                    THEN "AVAILABLE" ELSE seat[s]]
        /\ bookingSeat' = [bookingSeat EXCEPT ![t.b] =
                              [s \in Seats |-> IF @[s] \in {"HELD", "BOOKED"}
                                               THEN "CANCELLED" ELSE @[s]]]
        /\ hold' = [hold EXCEPT ![t.b] = IF @ = "ACTIVE" THEN "CANCELLED" ELSE @]
        /\ availableSeatCount' = availableSeatCount + Cardinality(t.booked)
        /\ booking' = [booking EXCEPT ![t.b] = t.to]
        /\ End(r)
        /\ UNCHANGED <<tripVars, lapsed, lock, batch>>

-----------------------------------------------------------------------------
(* A transaction is rolled back when its handler throws, the process dies, *)
(* a row-lock deadlock is broken or Prisma's five seconds are over.  These *)
(* are shorter than the lock's fifteen, so the lock outlives it.           *)

Abort(r) ==
    /\ tx[r] # Idle
    /\ ReleaseLock(r)
    /\ End(r)
    /\ UNCHANGED <<tripVars, rows, lapsed, batch>>

Finish(r) ==
    \/ HoldCommit(r)
    \/ ConfirmCommit(r)
    \/ ReleaseCommit(r)
    \/ CancelCommit(r)
    \/ Abort(r)

-----------------------------------------------------------------------------
(* expireActiveSeatHolds: the worker reads a batch outside any transaction *)
(* and then claims the holds one by one.                                   *)

WorkerScan ==
    /\ batch = {}
    /\ LapsedHolds # {}
    /\ batch' = LapsedHolds
    /\ UNCHANGED <<tripVars, rows, lapsed, lock, tx>>

WorkerExpire(b) ==
    /\ MayRun
    /\ b \in batch \ LockedBy(Requests)
    /\ batch' = batch \ {b}
    /\ \/ hold[b] = "ACTIVE" /\ ReleaseActiveSeatHolds({b}, "EXPIRED")
       \/ hold[b] # "ACTIVE" /\ UNCHANGED rows
    /\ UNCHANGED <<tripVars, lapsed, lock, tx>>

\* An error while a hold is processed ends the job, the rest of the batch is
\* left to the next repetition.
WorkerCrash ==
    /\ MayRun
    /\ batch \ LockedBy(Requests) # {}
    /\ batch' = {}
    /\ UNCHANGED <<tripVars, rows, lapsed, lock, tx>>

-----------------------------------------------------------------------------
HoldTtlElapses(b) ==
    /\ hold[b] = "ACTIVE" /\ ~lapsed[b]
    /\ lapsed' = [lapsed EXCEPT ![b] = TRUE]
    /\ UNCHANGED <<tripVars, rows, lock, tx, batch>>

DeparturePasses ==
    /\ ~departed
    /\ departed' = TRUE
    /\ UNCHANGED <<tripStatus, rows, lapsed, lock, tx, batch>>

Request(r) ==
    \/ \E b \in Bookings, S \in SUBSET Seats : HoldBegin(r, b, S)
    \/ \E b \in Bookings : ConfirmBegin(r, b)
    \/ \E b \in Bookings : ReleaseBegin(r, b)
    \/ \E b \in Bookings, actor \in Actors : CancelBegin(r, b, actor)
    \/ Finish(r)

Worker == WorkerScan \/ (\E b \in Bookings : WorkerExpire(b)) \/ WorkerCrash

Environment ==
    \/ LockTtlElapses
    \/ DeparturePasses
    \/ \E b \in Bookings : HoldTtlElapses(b)

Next ==
    \/ \E r \in Requests : Request(r)
    \/ ListSeats
    \/ \E b \in Bookings : HoldReplay(b)
    \/ Worker
    \/ Environment

Spec == Init /\ [][Next]_vars

\* Time passes, a transaction ends one way or the other, the repeated worker job
\* scans again, and a job is not killed before the same hold for ever.
Fairness ==
    /\ WF_vars(LockTtlElapses)
    /\ \A b \in Bookings : WF_vars(HoldTtlElapses(b))
    /\ \A r \in Requests : WF_vars(Finish(r))
    /\ WF_vars(WorkerScan)
    /\ \A b \in Bookings : SF_vars(WorkerExpire(b))

FairSpec == Spec /\ Fairness

-----------------------------------------------------------------------------
(* The hold of a booking and its BookingSeat rows change together: the     *)
(* rows are HELD exactly while the hold is ACTIVE, and a confirmed hold    *)
(* never has a row that fell back to HELD or RELEASED.  Confirm, release,  *)
(* expiry and cancel write the two tables in separate conditional updates. *)
HoldMatchesRows ==
    \A b \in Bookings :
        /\ hold[b] = "NONE" <=> Items(b) = {}
        /\ hold[b] = "ACTIVE" => SeatsOf(b, {"HELD"}) = Items(b)
        /\ hold[b] # "ACTIVE" => SeatsOf(b, {"HELD"}) = {}
        /\ hold[b] = "CONFIRMED" => SeatsOf(b, {"RELEASED"}) = {}

(* TripSeat is a cache of who owns the seat.  A seat is HELD or BOOKED     *)
(* exactly when one booking has a BookingSeat row that says the same.      *)
SeatOwnership ==
    \A s \in Seats : \A status \in {"HELD", "BOOKED"} :
        seat[s] = status <=> \E b \in Bookings : bookingSeat[b][s] = status

(* No two bookings own the same seat, whatever requests, retries and       *)
(* expiries overlap.                                                       *)
NoDoubleBooking ==
    \A s \in Seats : \A a, b \in Bookings :
        (bookingSeat[a][s] \in {"HELD", "BOOKED"} /\ bookingSeat[b][s] \in {"HELD", "BOOKED"})
            => a = b

(* Trip.availableSeatCount, which search and the driver's dashboard show,  *)
(* is the capacity less the booked seats.                                  *)
AvailabilityCount ==
    availableSeatCount + Cardinality({s \in Seats : seat[s] = "BOOKED"}) = Cardinality(Seats)

(* The booking and its hold tell the client the same story.                *)
BookingMatchesHold ==
    \A b \in Bookings :
        /\ booking[b] = "HOLD" <=> hold[b] = "ACTIVE"
        /\ booking[b] = "CONFIRMED" => hold[b] = "CONFIRMED"
        /\ booking[b] = "EXPIRED" <=> hold[b] \in {"RELEASED", "EXPIRED"}

(* The lock is a mutex for hold creation: a request that is between its    *)
(* read and its commit still owns it.                                      *)
LockedWhileHolding ==
    \A r \in Requests : tx[r].op = "hold" => lock = r

(* What a hold request read as free is still free, or still claimed by it, *)
(* when it commits, although only hold creation takes the lock.            *)
ReadSeatsStayFree ==
    \A r \in Requests : tx[r].op = "hold" =>
        \A s \in tx[r].seats : FreedSeats(tx[r].expired)[s] = "AVAILABLE"

(* A hold leaves ACTIVE once: no late confirm, release, expiry or          *)
(* cancellation changes how it ended.                                      *)
HoldEndsOnce ==
    [][\A b \in Bookings : hold[b] \notin {"NONE", "ACTIVE"} => hold'[b] = hold[b]]_vars

(* A seat leaves HELD only together with the hold that took it, so nobody  *)
(* can lose or be given a seat while its hold is active.                   *)
HeldUntilHoldEnds ==
    [][\A b \in Bookings : \A s \in Seats :
            (hold[b] = "ACTIVE" /\ hold'[b] = "ACTIVE" /\ bookingSeat[b][s] = "HELD")
                => seat'[s] = "HELD"]_vars

(* Seats are not leaked: a held seat is booked or becomes free again.      *)
SeatNotHeldForever == \A s \in Seats : seat[s] = "HELD" ~> seat[s] # "HELD"

(* A crashed or failed unlock blocks bookings of the trip only for a while. *)
LockReleased == lock # Free ~> lock = Free

-----------------------------------------------------------------------------
(* The tables read as a seat allocation: a seat belongs to the booking     *)
(* whose BookingSeat row holds or books it.                                *)

Live(b) == SeatsOf(b, {"HELD", "BOOKED"})

OwnerOf(s) ==
    IF \E b \in Bookings : s \in Live(b)
    THEN CHOOSE b \in Bookings : s \in Live(b)
    ELSE NoBooking

PhaseOf(b) ==
    IF hold[b] = "NONE" THEN "new"
    ELSE IF SeatsOf(b, {"HELD"}) # {} THEN "held"
    ELSE IF SeatsOf(b, {"BOOKED"}) # {} THEN "booked"
    ELSE "over"

Allocation == INSTANCE SeatAllocation WITH
    owner <- [s \in Seats |-> OwnerOf(s)],
    phase <- [b \in Bookings |-> PhaseOf(b)],
    available <- availableSeatCount

(* Whatever overlaps, the five tables change as one seat allocation: no    *)
(* step takes a seat from its owner, gives it to a second one, splits a    *)
(* booking's seats or lets the count drift from them.                      *)
ImplementsAllocation == Allocation!Spec

(* A booking goes where its hold goes, and once it is over, stays so.      *)
BookingFollowsHold ==
    [][/\ BookingMatchesHold'
       /\ \A b \in Bookings : booking[b] \in CancelledStatuses \cup {"EXPIRED"}
              => booking'[b] = booking[b]]_vars
=============================================================================
