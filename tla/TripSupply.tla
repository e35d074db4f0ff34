------------------------------- MODULE TripSupply -------------------------------
(***************************************************************************)
(* The trip on sale: the driver edits, publishes, unpublishes and cancels  *)
(* it, admins block and unblock it, and its vehicle is reviewed or         *)
(* archived (apps/api/src/main.ts), while bookings and trip operations go  *)
(* on.  These routes read the trip first and update it by id, comparing    *)
(* neither its version nor its status; only archiving and the trip         *)
(* operations read inside their transaction.  The capacity stays the same. *)
(***************************************************************************)
EXTENDS TripOperations

CONSTANT MaxVersion     \* bound: Trip.version up to which supply requests begin

VARIABLES
    published,      \* Trip.publishedAt is set
    blocked,        \* Trip.blockedAt is set
    cancelled,      \* Trip.cancelledAt is set; no route clears it
    tripVehicle,    \* Vehicle.status of the trip's vehicle
    started,        \* history: the trip has been IN_PROGRESS
    calledOff       \* history: a trip operation closed the bookings of the trip

supplyVars == <<published, blocked, cancelled, tripVehicle, started, calledOff>>
tripSupplyVars == <<tripOpVars, supplyVars>>

SupplyOps == {"edit", "publish", "unpublish", "supplyCancel", "block", "unblock", "archive"}

\* POST /trips, and the trip that was published for the first time, which created
\* its seats; versions are counted from there.
CreateTrip ==
    /\ \/ tripStatus = "DRAFT" /\ published = FALSE
       \/ tripStatus = "PUBLISHED" /\ published = TRUE
    /\ blocked = FALSE /\ cancelled = FALSE
    /\ tripVehicle = "APPROVED"
    /\ started = FALSE /\ calledOff = FALSE

SupplyInit == CreateTrip /\ NoBookings /\ NoOperations

-----------------------------------------------------------------------------
\* The rest of the filter of the booking routes' trip query.
\* (mutant) the filter forgets cancelledAt
OnSaleUnlessBlocked == ~blocked /\ tripVehicle = "APPROVED"
OnSale == ~blocked /\ ~cancelled /\ tripVehicle = "APPROVED"

BeginSupply(r, op) ==
    /\ op \in operations /\ tripVersion < MaxVersion
    /\ MayBegin(r, op)
    /\ Begin(r, TripTx(op, NoBooking, IF published THEN "UNPUBLISHED" ELSE "DRAFT", {}))
    /\ UNCHANGED <<tripVars, rows, lapsed, lock, batch, opVars, supplyVars>>

\* The update by id, with version: { increment: 1 }.
EndSupply(r, op, status) ==
    /\ tx[r].op = op
    /\ End(r)
    /\ tripStatus' = status
    /\ tripVersion' = tripVersion + 1
    /\ cancelled' = (cancelled \/ status = "CANCELLED")
    /\ UNCHANGED <<hold, booking, bookingSeat, lapsed, lock, batch, staleTrip,
                   pinVerified, overridden, parcel, operations, tripVehicle, started, calledOff>>

-----------------------------------------------------------------------------
(* PATCH /trips/:tripId.  The status is looked at before the transaction.  *)

EditBegin(r) == tripStatus \in {"DRAFT", "UNPUBLISHED"} /\ BeginSupply(r, "edit")

\* A capacity in the body resets the count, a new departure may be in the past.
EditCommit(r) ==
    /\ EndSupply(r, "edit", tripStatus)
    /\ availableSeatCount' \in {availableSeatCount, Cardinality(Seats)}
    /\ departed' \in BOOLEAN
    /\ UNCHANGED <<seat, published, blocked>>

(* POST /trips/:tripId/publish                                             *)

\* (mutant) the seat rows are created anew
RecreateSeats == [s \in Seats |-> "AVAILABLE"]
ensureTripSeats == seat

canPublish == tripVehicle = "APPROVED" /\ ~departed

PublishBegin(r) ==
    /\ tripStatus # "PUBLISHED"
    /\ canPublish
    /\ BeginSupply(r, "publish")

PublishCommit(r) ==
    /\ EndSupply(r, "publish", "PUBLISHED")
    /\ published' = TRUE
    /\ availableSeatCount' = Cardinality(Seats)
    /\ seat' = ensureTripSeats
    /\ UNCHANGED <<departed, blocked>>

(* POST /trips/:tripId/unpublish and /cancel                               *)

UnpublishBegin(r) == tripStatus = "PUBLISHED" /\ BeginSupply(r, "unpublish")

UnpublishCommit(r) ==
    /\ EndSupply(r, "unpublish", "UNPUBLISHED")
    /\ UNCHANGED <<departed, availableSeatCount, seat, published, blocked>>

SupplyCancelBegin(r) == tripStatus # "CANCELLED" /\ BeginSupply(r, "supplyCancel")

\* Bookings, seats and parcels stay as they are.
SupplyCancelCommit(r) ==
    /\ EndSupply(r, "supplyCancel", "CANCELLED")
    /\ UNCHANGED <<departed, availableSeatCount, seat, published, blocked>>

(* POST /admin/trips/:tripId/block and /unblock                            *)

BlockBegin(r) == tripStatus # "BLOCKED" /\ BeginSupply(r, "block")

BlockCommit(r) ==
    /\ EndSupply(r, "block", "BLOCKED")
    /\ blocked' = TRUE
    /\ UNCHANGED <<departed, availableSeatCount, seat, published>>

UnblockBegin(r) == tripStatus = "BLOCKED" /\ BeginSupply(r, "unblock")

UnblockCommit(r) ==
    /\ EndSupply(r, "unblock", tx[r].to)
    /\ blocked' = FALSE
    /\ UNCHANGED <<departed, availableSeatCount, seat, published>>

(* DELETE /vehicles/:vehicleId                                             *)

\* (mutant) a trip that is under way does not count
OpenForBooking == {"PUBLISHED", "BOOKING_OPEN", "FULL"}
VehicleInUse == {"PUBLISHED", "BOOKING_OPEN", "FULL", "BOARDING", "IN_PROGRESS"}

ArchiveTripVehicleBegin(r) == tripStatus \notin VehicleInUse /\ BeginSupply(r, "archive")

ArchiveTripVehicleCommit(r) ==
    /\ tx[r].op = "archive"
    /\ End(r)
    /\ tripVehicle' = "ARCHIVED"
    /\ UNCHANGED <<tripVars, rows, lapsed, lock, batch, opVars, published, blocked, cancelled,
                   started, calledOff>>

\* Admins suspend a vehicle and approve it again; a driver who loses the approval
\* has the same effect.
ReviewTripVehicle ==
    /\ MayRun /\ "review" \in operations
    /\ tripVehicle' \in {"APPROVED", "SUSPENDED"} \ {tripVehicle}
    /\ tripVehicle # "ARCHIVED"
    /\ UNCHANGED <<vars, opVars, published, blocked, cancelled, started, calledOff>>

-----------------------------------------------------------------------------
\* What a trip that is off sale still allows to do with its bookings.
OffSaleStep ==
    \/ \E r \in Requests, b \in Bookings :
           \/ ConfirmBegin(r, b) \/ ReleaseBegin(r, b)
           \/ \E actor \in Actors : CancelBegin(r, b, actor)
    \/ \E r \in Requests : Finish(r)
    \/ \E b \in Bookings : HoldReplay(b)
    \/ Worker
    \/ Environment

\* driverOwnTripForOperation finds a trip only with an approved vehicle; boarding,
\* PINs and no-shows look a booking up, and admins any trip.
DriverFindsTrip(r) ==
    \/ StartBoardingBegin(r)
    \/ \E override \in BOOLEAN : StartBegin(r, override)
    \/ CompleteBegin(r)
    \/ CancelTripBegin(r, "DRIVER")

TripStep ==
    /\ \/ OnSale /\ BookingStep
       \/ ~OnSale /\ BookingWrites(OffSaleStep)
       \/ \E r \in Requests : TripOperation(r) /\ (DriverFindsTrip(r) => tripVehicle = "APPROVED")
       \/ WorkerFindsStaleTrip \/ WorkerExpiresTrip
       \/ \E p \in Parcels : ParcelStep(p) /\ (parcel[p] = "NONE" => tripVehicle = "APPROVED")
    /\ cancelled' = (cancelled \/ tripStatus' = "CANCELLED")
    /\ started' = (started \/ tripStatus' = "IN_PROGRESS")
    /\ calledOff' = (calledOff \/ \E r \in Requests : CancelTripCommit(r) \/ NoShowDriverCommit(r))
    /\ UNCHANGED <<published, blocked, tripVehicle>>

SupplyStep(r) ==
    \/ EditBegin(r) \/ EditCommit(r)
    \/ PublishBegin(r) \/ PublishCommit(r)
    \/ UnpublishBegin(r) \/ UnpublishCommit(r)
    \/ SupplyCancelBegin(r) \/ SupplyCancelCommit(r)
    \/ BlockBegin(r) \/ BlockCommit(r)
    \/ UnblockBegin(r) \/ UnblockCommit(r)
    \/ ArchiveTripVehicleBegin(r) \/ ArchiveTripVehicleCommit(r)

SupplyNext ==
    \/ TripStep
    \/ \E r \in Requests : SupplyStep(r)
    \/ ReviewTripVehicle

SupplySpec == SupplyInit /\ [][SupplyNext]_tripSupplyVars

-----------------------------------------------------------------------------
SupplyTypeOK ==
    /\ TripTypeOK
    /\ {published, blocked, cancelled, started, calledOff} \subseteq BOOLEAN
    /\ tripVehicle \in {"APPROVED", "SUSPENDED", "ARCHIVED"}

(* Until the trip is cancelled, by whichever route, the seat map the       *)
(* driver and the clients see is what the bookings' own rows say, seat by  *)
(* seat and state by state, through boarding, no-shows, the journey and    *)
(* every change of the offer.                                              *)
SeatMapAgrees ==
    ~cancelled => \A s \in Seats : \A status \in {"HELD", "BOOKED", "OCCUPIED"} :
        seat[s] = status <=> \E b \in Bookings : bookingSeat[b][s] = status

(* The state of trip and bookings is one the code writes, and consistent.  *)
TripStateAgrees == SupplyTypeOK /\ SeatMapAgrees

(* Nobody ever again has a live booking on a trip that an operation called *)
(* off (cancelled with its passengers, or for want of a driver), not even  *)
(* when the trip is blocked, unblocked or published afterwards.  The       *)
(* supply route POST /trips/:tripId/cancel calls nothing off: it leaves    *)
(* live bookings on the cancelled trip, which may still board and travel.  *)
(* Whoever travels was boarded.                                            *)
PassengersFollowTrip == (calledOff => activeBookingWhere = {}) /\ PassengersVerified

(* No parcel is in transit, ready or delivered before its trip has been    *)
(* started, whoever moves the trip or the parcel.  The trip need not be    *)
(* under way any more: blocking it, publishing it or a late worker may     *)
(* have taken it away from its parcels.                                    *)
ParcelsTravelWithTrip ==
    (\E p \in Parcels : parcel[p] \in {"IN_TRANSIT", "READY_FOR_PICKUP", "DELIVERED"}) => started

(* A passenger who was sold a seat keeps it: while the booking is alive    *)
(* the seat map shows the seat as that booking's, whether the trip is      *)
(* unpublished, edited, blocked, put on sale again, or even published      *)
(* after it was cancelled with holds still open.                           *)
SoldSeatsStayTaken ==
    \A b \in activeBookingWhere : \A s \in SeatsOf(b, {"BOOKED", "OCCUPIED"}) :
        seat[s] = bookingSeat[b][s]

(* A vehicle is not archived under a trip that is on sale or under way,    *)
(* and no trip comes back to life with an archived one.                    *)
ArchivedVehicleIsIdle == tripVehicle = "ARCHIVED" =>
    tripStatus \notin {"PUBLISHED", "BOOKING_OPEN", "FULL", "BOARDING", "IN_PROGRESS"}

(* Whatever the supply routes do, sold seats stay taken and no archived    *)
(* vehicle is in use.                                                      *)
SupplyKeepsPromises == SoldSeatsStayTaken /\ ArchivedVehicleIsIdle

Committing(ops) == \E r \in Requests : tx[r].op \in ops /\ tx'[r] = Idle

(* A trip that has ended is not sold: out of CANCELLED only publication    *)
(* and blocking lead, out of EXPIRED only blocking and cancellation (its   *)
(* departure has passed, so it cannot be published), and a trip that was   *)
(* ever cancelled takes no new hold although it can be published again.    *)
EndedTripIsNotSold ==
    [][/\ tripStatus = "CANCELLED" => tripStatus' = "CANCELLED" \/ Committing({"publish", "block"})
       /\ tripStatus = "EXPIRED" => tripStatus' \in {"EXPIRED", "CANCELLED"} \/ Committing({"block"})
       /\ cancelled => \A b \in Bookings : hold[b] = "NONE" => hold'[b] = "NONE"]_tripSupplyVars
=============================================================================
