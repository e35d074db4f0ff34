--------------------------- MODULE TripSupply_proofs ---------------------------
(***************************************************************************)
(* The journey of a trip and its offer, for any number of seats, bookings, *)
(* requests and parcels.  First what holds however everything overlaps:    *)
(* the version of the trip row is enough to keep the operations on the     *)
(* transition table, although the supply routes do not compare it, and     *)
(* that is enough for the parcels.                                         *)
(***************************************************************************)
EXTENDS TripSupply, TLAPS

BookingOps == {"idle", "hold", "confirm", "release", "cancel"}

\* What an operation in flight has read of the trip row: as long as nobody
\* wrote the row the version is the same, and then so is the status.
TripRead(t) ==
    /\ t.ver \in Nat /\ t.ver <= tripVersion
    /\ t.ver = tripVersion => t.from = tripStatus
    /\ t.op = "startBoarding" => t.from \in {"PUBLISHED", "BOOKING_OPEN", "FULL", "BOARDING"}
    /\ t.op = "start" => t.from \in {"BOARDING", "IN_PROGRESS"}
    /\ t.op = "complete" => t.from \in {"IN_PROGRESS", "COMPLETED"}
    /\ (t.op = "start" /\ t.from = "IN_PROGRESS") => started

TxOK == tx = [r \in Requests |-> tx[r]]

\* An admin's unblock takes the trip out of sale, whatever it had read.
Unblocked(t) == t.op = "unblock" => t.to \in {"UNPUBLISHED", "DRAFT"}

JourneyInv ==
    /\ tripVersion \in Nat
    /\ started \in BOOLEAN
    /\ tripStatus = "IN_PROGRESS" => started
    /\ TxOK
    /\ \A r \in Requests : tx[r].op \in TripOps => TripRead(tx[r])
    /\ \A r \in Requests : Unblocked(tx[r])

\* How any step writes the trip row.
TripRowStep ==
    /\ tripVersion' \in {tripVersion, tripVersion + 1}
    /\ tripVersion' = tripVersion => tripStatus' = tripStatus
    /\ \/ tripStatus' = tripStatus
       \/ tripStatus' \in {"CANCELLED", "EXPIRED", "PUBLISHED", "UNPUBLISHED", "DRAFT", "BLOCKED"}
       \/ tripStatus' = "BOARDING" /\ tripStatus \in {"PUBLISHED", "BOOKING_OPEN", "FULL"}
       \/ tripStatus' = "IN_PROGRESS" /\ tripStatus = "BOARDING"
       \/ tripStatus' = "COMPLETED" /\ tripStatus = "IN_PROGRESS"

(* The values of the transition tables (evaluateTripTransition).           *)
LEMMA TripTable ==
    /\ tripTransitionTargets["START_BOARDING"] = "BOARDING"
    /\ tripTransitionTargets["START_TRIP"] = "IN_PROGRESS"
    /\ tripTransitionTargets["COMPLETE_TRIP"] = "COMPLETED"
    /\ tripTransitionTargets["CANCEL_TRIP"] = "CANCELLED"
    /\ tripAllowedTransitions["START_BOARDING"] = {"PUBLISHED", "BOOKING_OPEN", "FULL"}
    /\ tripAllowedTransitions["START_TRIP"] = {"BOARDING"}
    /\ tripAllowedTransitions["COMPLETE_TRIP"] = {"IN_PROGRESS"}
    /\ tripAllowedTransitions["CANCEL_TRIP"] = {"PUBLISHED", "BOOKING_OPEN", "FULL", "BOARDING"}
    /\ tripAllowedTransitions["EXPIRE_TRIP"] = {"PUBLISHED", "BOOKING_OPEN"}
  BY DEF tripTransitionTargets, tripAllowedTransitions

(* A step that writes one request leaves the others.                       *)
LEMMA OneRequest ==
    ASSUME TxOK, NEW r \in Requests, NEW t, tx' = [tx EXCEPT ![r] = t]
    PROVE  /\ TxOK'
           /\ \A q \in Requests : tx'[q] = IF q = r THEN t ELSE tx[q]
  BY DEF TxOK

(* The requests of the booking routes leave the trip row and the trip      *)
(* operations alone; off sale, none of them asks for seats.                *)
LEMMA OffSaleLeavesTrip ==
    ASSUME TxOK, OffSaleStep
    PROVE  /\ tripStatus' = tripStatus
           /\ TxOK'
           /\ \A q \in Requests : tx'[q] = tx[q] \/ tx'[q].op \in BookingOps \ {"hold"}
  <1>1. ASSUME NEW r \in Requests, NEW t, t.op \in BookingOps \ {"hold"}, tripStatus' = tripStatus,
               tx' = [tx EXCEPT ![r] = t]
        PROVE  /\ tripStatus' = tripStatus
               /\ TxOK'
               /\ \A q \in Requests : tx'[q] = tx[q] \/ tx'[q].op \in BookingOps \ {"hold"}
    <2>1. TxOK' /\ \A q \in Requests : tx'[q] = IF q = r THEN t ELSE tx[q]
      BY <1>1, OneRequest
    <2> QED BY <1>1, <2>1
  <1>2. ASSUME NEW r \in Requests, NEW b \in Bookings, ConfirmBegin(r, b) \/ ReleaseBegin(r, b)
        PROVE  \E t : /\ t.op \in BookingOps \ {"hold"} /\ tripStatus' = tripStatus
                      /\ tx' = [tx EXCEPT ![r] = t]
    <2> DEFINE c == [Idle EXCEPT !.op = "confirm", !.b = b, !.seats = Items(b)]
               d == [Idle EXCEPT !.op = "release", !.b = b, !.seats = Items(b)]
    <2>1. {c.op, d.op} \subseteq BookingOps \ {"hold"}
      BY DEF Idle, BookingOps
    <2>2. tripStatus' = tripStatus /\ (tx' = [tx EXCEPT ![r] = c] \/ tx' = [tx EXCEPT ![r] = d])
      BY <1>2 DEF ConfirmBegin, ReleaseBegin, Begin, tripVars
    <2> HIDE DEF c, d
    <2> QED BY <2>1, <2>2
  <1>3. ASSUME NEW r \in Requests, NEW b \in Bookings, NEW actor \in Actors, CancelBegin(r, b, actor)
        PROVE  \E t : /\ t.op \in BookingOps \ {"hold"} /\ tripStatus' = tripStatus
                      /\ tx' = [tx EXCEPT ![r] = t]
    <2> DEFINE t == [Idle EXCEPT !.op = "cancel", !.b = b, !.to = CancelledBy(actor),
                           !.seats = SeatsOf(b, {"HELD", "BOOKED"}), !.booked = BookedSeats(b)]
    <2>1. t.op \in BookingOps \ {"hold"}
      BY DEF Idle, BookingOps
    <2>2. tx' = [tx EXCEPT ![r] = t] /\ tripStatus' = tripStatus
      BY <1>3 DEF CancelBegin, Begin, tripVars
    <2> HIDE DEF t
    <2> QED BY <2>1, <2>2
  <1>4. ASSUME NEW r \in Requests, Finish(r)
        PROVE  \E t : /\ t.op \in BookingOps \ {"hold"} /\ tripStatus' = tripStatus
                      /\ tx' = [tx EXCEPT ![r] = t]
    <2>1. tripStatus' = tripStatus /\ tx' = [tx EXCEPT ![r] = Idle]
      BY <1>4 DEF Finish, HoldCommit, ConfirmCommit, ReleaseCommit, CancelCommit, Abort, End, tripVars
    <2>2. Idle.op \in BookingOps \ {"hold"}
      BY DEF Idle, BookingOps
    <2> QED BY <2>1, <2>2
  <1>5. CASE (\E b \in Bookings : HoldReplay(b)) \/ Worker \/ Environment
    <2>1. UNCHANGED <<tripStatus, tx>>
      BY <1>5 DEF HoldReplay, Worker, WorkerScan, WorkerExpire, WorkerCrash, Environment,
                  LockTtlElapses, DeparturePasses, HoldTtlElapses, tripVars
    <2> QED BY <2>1 DEF TxOK
  <1> QED BY <1>1, <1>2, <1>3, <1>4, <1>5 DEF OffSaleStep

LEMMA BookingLeavesTrip ==
    ASSUME TxOK, Next
    PROVE  /\ tripStatus' = tripStatus
           /\ TxOK'
           /\ \A q \in Requests : tx'[q] = tx[q] \/ tx'[q].op \in BookingOps
  <1>1. ASSUME NEW r \in Requests, NEW b \in Bookings, NEW S \in SUBSET Seats, HoldBegin(r, b, S)
        PROVE  /\ tripStatus' = tripStatus
               /\ TxOK'
               /\ \A q \in Requests : tx'[q] = tx[q] \/ tx'[q].op \in BookingOps
    <2> DEFINE t == [Idle EXCEPT !.op = "hold", !.b = b, !.seats = S, !.expired = UnlockedHolds]
    <2>1. t.op \in BookingOps
      BY DEF Idle, BookingOps
    <2>2. tx' = [tx EXCEPT ![r] = t] /\ tripStatus' = tripStatus
      BY <1>1 DEF HoldBegin, Begin, tripVars
    <2> HIDE DEF t
    <2>3. TxOK' /\ \A q \in Requests : tx'[q] = IF q = r THEN t ELSE tx[q]
      BY <2>2, OneRequest
    <2> QED BY <2>1, <2>2, <2>3
  <1>2. CASE ListSeats
    BY <1>2 DEF ListSeats, tripVars, TxOK
  <1>3. CASE OffSaleStep
    BY <1>3, OffSaleLeavesTrip
  <1> QED BY <1>1, <1>2, <1>3 DEF Next, Request, OffSaleStep

(* An operation begins with what it reads of the trip.                     *)
LEMMA OperationBegins ==
    ASSUME NEW r \in Requests, NEW op, NEW b, NEW to, NEW bs, BeginOp(r, op, b, to, bs)
    PROVE  /\ UNCHANGED <<tripStatus, tripVersion, parcel>>
           /\ tx' = [tx EXCEPT ![r] = TripTx(op, b, to, bs)]
  BY DEF BeginOp, Begin, tripVars, opVars

LEMMA OperationEnds ==
    ASSUME NEW r \in Requests, NEW op, EndOp(r, op)
    PROVE  tx[r].op = op /\ tx' = [tx EXCEPT ![r] = Idle]
  BY DEF EndOp, End

(* Every operation writes the trip as its table says.                      *)
LEMMA OperationMovesTrip ==
    ASSUME JourneyInv, NEW r \in Requests, TripOperation(r)
    PROVE  /\ TripRowStep
           /\ TxOK'
           /\ \A q \in Requests : \/ tx'[q] = tx[q]
                                  \/ tx'[q].op = "idle"
                                  \/ /\ tx'[q].op \in TripOps /\ TripRead(tx'[q])
                                     /\ UNCHANGED <<tripStatus, tripVersion>>
  <1> USE DEF JourneyInv
  <1>1. ASSUME NEW op \in TripOps, NEW b, NEW to, NEW bs, BeginOp(r, op, b, to, bs),
               op = "startBoarding" => tripStatus \in {"PUBLISHED", "BOOKING_OPEN", "FULL", "BOARDING"},
               op = "start" => tripStatus \in {"BOARDING", "IN_PROGRESS"},
               op = "complete" => tripStatus \in {"IN_PROGRESS", "COMPLETED"}
        PROVE  /\ UNCHANGED <<tripStatus, tripVersion>> /\ TxOK'
               /\ \A q \in Requests : tx'[q] = tx[q] \/ (tx'[q].op \in TripOps /\ TripRead(tx'[q]))
    <2> DEFINE t == TripTx(op, b, to, bs)
    <2>1. t.op \in TripOps /\ TripRead(t)
      BY <1>1 DEF TripTx, TripRead
    <2>2. UNCHANGED <<tripStatus, tripVersion>> /\ tx' = [tx EXCEPT ![r] = t]
      BY <1>1, OperationBegins
    <2> HIDE DEF t
    <2>3. TxOK' /\ \A q \in Requests : tx'[q] = IF q = r THEN t ELSE tx[q]
      BY <2>2, OneRequest
    <2>4. ASSUME NEW q \in Requests PROVE tx'[q] = tx[q] \/ (tx'[q].op \in TripOps /\ TripRead(tx'[q]))
      <3>1. CASE q = r
        <4>1. tx'[q] = t
          BY <2>3, <3>1
        <4> QED BY <2>1, <4>1, Zenon
      <3>2. CASE q # r
        BY <2>3, <3>2
      <3> QED BY <3>1, <3>2
    <2> QED BY <2>2, <2>3, <2>4
  <1>2. ASSUME UNCHANGED <<tripStatus, tripVersion>> PROVE TripRowStep
    BY <1>2 DEF TripRowStep
  <1>3. ASSUME NEW op \in TripOps, EndOp(r, op)
        PROVE  /\ tx[r].op = op /\ TripRead(tx[r]) /\ TxOK'
               /\ \A q \in Requests : tx'[q] = tx[q] \/ tx'[q].op = "idle"
    <2>1. tx[r].op = op /\ tx' = [tx EXCEPT ![r] = Idle] /\ Idle.op = "idle"
      BY <1>3, OperationEnds DEF Idle
    <2>2. TxOK' /\ \A q \in Requests : tx'[q] = IF q = r THEN Idle ELSE tx[q]
      BY <2>1, OneRequest
    <2> QED BY <1>3, <2>1, <2>2
  <1>4. CASE StartBoardingBegin(r)
    BY <1>1, <1>2, <1>4, TripTable DEF StartBoardingBegin, MayTransition, TripOps
  <1>5. CASE \E b \in Bookings : BoardBegin(r, b) \/ VerifyPinBegin(r, b) \/ NoShowBegin(r, b)
    BY <1>1, <1>2, <1>5 DEF BoardBegin, VerifyPinBegin, NoShowBegin, TripOps
  <1>6. CASE \E override \in BOOLEAN : StartBegin(r, override)
    BY <1>1, <1>2, <1>6, TripTable DEF StartBegin, MayTransition, TripOps
  <1>7. CASE CompleteBegin(r)
    BY <1>1, <1>2, <1>7, TripTable DEF CompleteBegin, MayTransition, TripOps
  <1>8. CASE \E actor \in {"DRIVER", "ADMIN"} : CancelTripBegin(r, actor)
    BY <1>1, <1>2, <1>8 DEF CancelTripBegin, TripOps
  <1>9. CASE NoShowDriverBegin(r)
    BY <1>1, <1>2, <1>9 DEF NoShowDriverBegin, TripOps
  <1>10. CASE StartBoardingCommit(r)
    <2>1. EndOp(r, "startBoarding") /\ TransitionTrip(tx[r], "START_BOARDING")
      BY <1>10 DEF StartBoardingCommit
    <2>2. TripRead(tx[r]) /\ tx[r].op = "startBoarding"
      BY <1>3, <2>1 DEF TripOps
    <2>3. TripRowStep
      BY <2>1, <2>2, TripTable DEF TransitionTrip, TripRead, TripRowStep
    <2> QED BY <1>3, <2>1, <2>3 DEF TripOps
  <1>11. CASE StartCommit(r)
    <2>1. EndOp(r, "start") /\ TransitionTrip(tx[r], "START_TRIP")
      BY <1>11 DEF StartCommit
    <2>2. TripRead(tx[r]) /\ tx[r].op = "start"
      BY <1>3, <2>1 DEF TripOps
    <2>3. TripRowStep
      BY <2>1, <2>2, TripTable DEF TransitionTrip, TripRead, TripRowStep
    <2> QED BY <1>3, <2>1, <2>3 DEF TripOps
  <1>12. CASE CompleteCommit(r)
    <2>1. EndOp(r, "complete") /\ TransitionTrip(tx[r], "COMPLETE_TRIP")
      BY <1>12 DEF CompleteCommit
    <2>2. TripRead(tx[r]) /\ tx[r].op = "complete"
      BY <1>3, <2>1 DEF TripOps
    <2>3. TripRowStep
      BY <2>1, <2>2, TripTable DEF TransitionTrip, TripRead, TripRowStep
    <2> QED BY <1>3, <2>1, <2>3 DEF TripOps
  <1>13. CASE CancelTripCommit(r)
    <2>1. EndOp(r, "cancelTrip") /\ TransitionTrip(tx[r], "CANCEL_TRIP")
      BY <1>13 DEF CancelTripCommit
    <2>3. TripRowStep
      BY <2>1, TripTable DEF TransitionTrip, TripRowStep
    <2> QED BY <1>3, <2>1, <2>3 DEF TripOps
  <1>14. CASE NoShowDriverCommit(r)
    <2>1. EndOp(r, "noShowDriver") /\ TripRowStep
      BY <1>14 DEF NoShowDriverCommit, TripRowStep
    <2> QED BY <1>3, <2>1 DEF TripOps
  <1>15. CASE BoardCommit(r)
    BY <1>2, <1>3, <1>15 DEF BoardCommit, TripOps
  <1>16. CASE VerifyPinCommit(r)
    BY <1>2, <1>3, <1>16 DEF VerifyPinCommit, TripOps
  <1>17. CASE NoShowCommit(r)
    BY <1>2, <1>3, <1>17 DEF NoShowCommit, TripOps
  <1> QED
    BY <1>4, <1>5, <1>6, <1>7, <1>8, <1>9, <1>10, <1>11, <1>12, <1>13, <1>14, <1>15, <1>16, <1>17
       DEF TripOperation

(* A supply route writes the row by id: the status moves off the table,    *)
(* never along it, and the version moves with it.                          *)
LEMMA SupplyMovesTrip ==
    ASSUME JourneyInv, NEW r \in Requests, SupplyStep(r)
    PROVE  /\ TripRowStep /\ TxOK'
           /\ tripStatus' = "IN_PROGRESS" => tripStatus = "IN_PROGRESS"
           /\ UNCHANGED <<started, parcel>>
           /\ \A q \in Requests : tx'[q] = tx[q] \/ (tx'[q].op \notin TripOps /\ Unblocked(tx'[q]))
  <1>1. ASSUME NEW op \in SupplyOps, BeginSupply(r, op)
        PROVE  /\ TxOK' /\ UNCHANGED <<tripStatus, tripVersion, started, parcel>>
               /\ \A q \in Requests : tx'[q] = tx[q] \/ (tx'[q].op \notin TripOps /\ Unblocked(tx'[q]))
    <2>1. PICK t : t = TripTx(op, NoBooking, IF published THEN "UNPUBLISHED" ELSE "DRAFT", {})
      OBVIOUS
    <2>2. t.op \notin TripOps /\ Unblocked(t)
      BY <2>1 DEF TripTx, TripOps, SupplyOps, Unblocked
    <2>3. tx' = [tx EXCEPT ![r] = t] /\ UNCHANGED <<tripStatus, tripVersion, started, parcel>>
      BY <1>1, <2>1 DEF BeginSupply, Begin, tripVars, opVars, supplyVars
    <2>4. TxOK' /\ \A q \in Requests : tx'[q] = IF q = r THEN t ELSE tx[q]
      BY <2>3, OneRequest DEF JourneyInv
    <2>5. ASSUME NEW q \in Requests
          PROVE  tx'[q] = tx[q] \/ (tx'[q].op \notin TripOps /\ Unblocked(tx'[q]))
      <3>1. tx'[q] = t \/ tx'[q] = tx[q]
        BY <2>4
      <3> QED BY <2>2, <3>1, Zenon
    <2> QED BY <2>3, <2>4, <2>5
  <1>2. CASE EditBegin(r) \/ PublishBegin(r) \/ UnpublishBegin(r) \/ SupplyCancelBegin(r)
             \/ BlockBegin(r) \/ UnblockBegin(r) \/ ArchiveTripVehicleBegin(r)
    BY <1>1, <1>2 DEF EditBegin, PublishBegin, UnpublishBegin, SupplyCancelBegin, BlockBegin,
          UnblockBegin, ArchiveTripVehicleBegin, SupplyOps, TripRowStep
  <1>3. ASSUME End(r)
        PROVE  /\ TxOK'
               /\ \A q \in Requests : tx'[q] = tx[q] \/ (tx'[q].op \notin TripOps /\ Unblocked(tx'[q]))
    <2>1. TxOK' /\ \A q \in Requests : tx'[q] = IF q = r THEN Idle ELSE tx[q]
      BY <1>3, OneRequest DEF End, JourneyInv
    <2>2. Idle.op \notin TripOps /\ Unblocked(Idle)
      BY DEF Idle, TripOps, Unblocked
    <2>3. ASSUME NEW q \in Requests
          PROVE  tx'[q] = tx[q] \/ (tx'[q].op \notin TripOps /\ Unblocked(tx'[q]))
      <3>1. tx'[q] = Idle \/ tx'[q] = tx[q]
        BY <2>1
      <3> QED BY <2>2, <3>1, Zenon
    <2> QED BY <2>1, <2>3
  <1>4. ASSUME NEW op, NEW status, EndSupply(r, op, status),
               status \in {tripStatus, "CANCELLED", "PUBLISHED", "UNPUBLISHED", "DRAFT", "BLOCKED"}
        PROVE  /\ End(r) /\ TripRowStep /\ UNCHANGED <<started, parcel>>
               /\ tripStatus' = "IN_PROGRESS" => tripStatus = "IN_PROGRESS"
    BY <1>4 DEF EndSupply, TripRowStep, JourneyInv
  <1>5. CASE EditCommit(r) \/ PublishCommit(r) \/ UnpublishCommit(r) \/ SupplyCancelCommit(r)
             \/ BlockCommit(r)
    BY <1>3, <1>4, <1>5 DEF EditCommit, PublishCommit, UnpublishCommit, SupplyCancelCommit, BlockCommit
  <1>6. CASE UnblockCommit(r)
    <2>1. EndSupply(r, "unblock", tx[r].to) /\ tx[r].op = "unblock"
      BY <1>6 DEF UnblockCommit, EndSupply
    <2>2. tx[r].to \in {"UNPUBLISHED", "DRAFT"}
      BY <2>1 DEF JourneyInv, Unblocked
    <2> QED BY <1>3, <1>4, <2>1, <2>2
  <1>7. CASE ArchiveTripVehicleCommit(r)
    BY <1>3, <1>7 DEF ArchiveTripVehicleCommit, tripVars, opVars, TripRowStep
  <1> QED BY <1>2, <1>5, <1>6, <1>7 DEF SupplyStep

(* What a step of the trip is, on sale or off.                             *)
LEMMA TripStepCases ==
    ASSUME TripStep
    PROVE  \/ BookingStep
           \/ \E r \in Requests : TripOperation(r)
           \/ WorkerFindsStaleTrip \/ WorkerExpiresTrip
           \/ \E p \in Parcels : ParcelStep(p)
  <1>1. OffSaleStep => Next
    BY DEF OffSaleStep, Next, Request
  <1>2. BookingWrites(OffSaleStep) => BookingStep
    BY <1>1 DEF BookingWrites, BookingStep
  <1> QED BY <1>2 DEF TripStep

(* Every step moves the trip row as the tables and the supply routes say.  *)
LEMMA JourneyStep ==
    ASSUME JourneyInv, [SupplyNext]_tripSupplyVars
    PROVE  TripRowStep /\ JourneyInv' /\ (started => started')
  <1>1. /\ TripRowStep
        /\ TxOK'
        /\ started' = (started \/ tripStatus' = "IN_PROGRESS")
        /\ \A q \in Requests : \/ tx'[q] = tx[q]
                               \/ tx'[q].op \notin TripOps /\ Unblocked(tx'[q])
                               \/ /\ tx'[q].op \in TripOps /\ TripRead(tx'[q])
                                  /\ UNCHANGED <<tripStatus, tripVersion>>
    <2>1. CASE TripStep
      <3>1. started' = (started \/ tripStatus' = "IN_PROGRESS")
        BY <2>1 DEF TripStep
      <3>2. CASE BookingStep
        <4>1. Next /\ tripVersion' \in {tripVersion, tripVersion + 1}
          BY <3>2 DEF BookingStep, BookingWrites
        <4>2. \A t : t.op \in BookingOps => t.op \notin TripOps /\ Unblocked(t)
          BY DEF BookingOps, TripOps, Unblocked
        <4> QED BY <3>1, <4>1, <4>2, BookingLeavesTrip DEF JourneyInv, TripRowStep
      <3>3. CASE \E r \in Requests : TripOperation(r)
        <4>1. \A t : t.op = "idle" => t.op \notin TripOps /\ Unblocked(t)
          BY DEF TripOps, Unblocked
        <4> QED BY <3>1, <3>3, <4>1, OperationMovesTrip
      <3>4. CASE WorkerExpiresTrip
        BY <3>1, <3>4 DEF WorkerExpiresTrip, TripRowStep, JourneyInv, TxOK
      <3>5. CASE WorkerFindsStaleTrip \/ (\E p \in Parcels : ParcelStep(p))
        <4>1. UNCHANGED <<tripStatus, tripVersion, tx>>
          BY <3>5 DEF WorkerFindsStaleTrip, ParcelStep, vars, tripVars
        <4> QED BY <3>1, <4>1 DEF TripRowStep, JourneyInv, TxOK
      <3> QED BY <2>1, <3>2, <3>3, <3>4, <3>5, TripStepCases
    <2>2. CASE \E r \in Requests : SupplyStep(r)
      BY <2>2, SupplyMovesTrip DEF JourneyInv
    <2>3. CASE ReviewTripVehicle \/ UNCHANGED tripSupplyVars
      <3>1. UNCHANGED <<tripStatus, tripVersion, tx, started>>
        BY <2>3 DEF ReviewTripVehicle, tripSupplyVars, tripOpVars, supplyVars, opVars, vars, tripVars
      <3> QED BY <3>1 DEF TripRowStep, JourneyInv, TxOK
    <2> QED BY <2>1, <2>2, <2>3 DEF SupplyNext
  <1>2. tripVersion' \in Nat /\ tripVersion' >= tripVersion /\ tripVersion \in Nat
    BY <1>1 DEF TripRowStep, JourneyInv
  <1>3. started' \in BOOLEAN /\ (started => started') /\ (tripStatus' = "IN_PROGRESS" => started')
    BY <1>1 DEF JourneyInv
  <1>4. ASSUME NEW q \in Requests, tx'[q].op \in TripOps PROVE TripRead(tx[q])'
    <2>1. PICK t : t = tx'[q]
      OBVIOUS
    <2>2. t.op \in TripOps
      BY <1>4, <2>1
    <2>3. TripRead(t) /\ (t = tx[q] \/ UNCHANGED <<tripStatus, tripVersion>>)
      <3>1. CASE tx'[q] = tx[q]
        <4>1. TripRead(tx[q]) /\ t = tx[q]
          BY <2>1, <2>2, <3>1 DEF JourneyInv
        <4> QED BY <4>1, Zenon
      <3>2. CASE TripRead(tx'[q]) /\ UNCHANGED <<tripStatus, tripVersion>>
        BY <2>1, <3>2, Zenon
      <3> QED BY <1>1, <2>1, <2>2, <3>1, <3>2
    <2>4. TripRead(t)'
      BY <1>1, <1>2, <1>3, <2>3 DEF TripRowStep, TripRead
    <2> QED BY <2>1, <2>4, Zenon DEF TripRead
  <1>5. ASSUME NEW q \in Requests PROVE Unblocked(tx[q])'
    <2>1. Unblocked(tx'[q])
      <3>1. CASE tx'[q] = tx[q]
        <4>1. Unblocked(tx[q])
          BY DEF JourneyInv
        <4> QED BY <3>1, <4>1, Zenon
      <3>2. CASE tx'[q].op \in TripOps
        BY <3>2 DEF TripOps, Unblocked
      <3> QED BY <1>1, <3>1, <3>2
    <2> QED BY <2>1, Zenon DEF Unblocked
  <1> QED BY <1>1, <1>2, <1>3, <1>4, <1>5 DEF JourneyInv

LEMMA JourneyStart == SupplyInit => JourneyInv
  <1> SUFFICES ASSUME SupplyInit PROVE JourneyInv
    OBVIOUS
  <1>1. tx = [r \in Requests |-> Idle]
    BY DEF SupplyInit, NoBookings
  <1>2. Idle.op = "idle"
    BY DEF Idle
  <1>3. TxOK /\ \A r \in Requests : tx[r].op = "idle"
    BY <1>1, <1>2 DEF TxOK
  <1>4. \A r \in Requests : tx[r].op \notin TripOps /\ Unblocked(tx[r])
    BY <1>3 DEF TripOps, Unblocked
  <1> QED BY <1>3, <1>4 DEF SupplyInit, CreateTrip, NoOperations, JourneyInv

LEMMA JourneyInvariant == SupplySpec => []JourneyInv
  BY JourneyStart, JourneyStep, PTL DEF SupplySpec

(* Whatever overlaps, the routes that write the trip without comparing its *)
(* version included, boarding, start and completion move the trip along    *)
(* the transition table from the status it really has.                     *)
THEOREM OperationsKeepTable == SupplySpec => OperationsFollowTable
  <1>1. JourneyInv /\ [SupplyNext]_tripSupplyVars =>
            [\A action \in {"START_BOARDING", "START_TRIP", "COMPLETE_TRIP"} :
                (tripStatus' = tripTransitionTargets[action] /\ tripStatus' # tripStatus)
                    => tripStatus \in tripAllowedTransitions[action]]_tripOpVars
    BY JourneyStep, TripTable DEF TripRowStep
  <1> QED BY <1>1, JourneyInvariant, PTL DEF SupplySpec, OperationsFollowTable

-----------------------------------------------------------------------------
(* The parcels.                                                            *)

Travelling == {"IN_TRANSIT", "READY_FOR_PICKUP", "DELIVERED"}

(* The values of the parcel tables (parcelTransitionTargets).              *)
LEMMA ParcelTable ==
    /\ parcelTransitionTargets["START_TRANSIT"] = "IN_TRANSIT"
    /\ parcelTransitionTargets["CANCEL_ADMIN"] = "CANCELLED_BY_ADMIN"
    /\ \A action \in SenderActions \cup DriverActions \cup AdminActions :
           parcelTransitionTargets[action] \in Travelling
               => parcelAllowedTransitions[action] \subseteq Travelling
  BY DEF parcelTransitionTargets, parcelAllowedTransitions, SenderActions, DriverActions,
         AdminActions, Travelling

(* A parcel begins to travel only when its trip starts: no parcel route    *)
(* takes it there, and the worker ends it.                                 *)
LEMMA ParcelsDoNotStart ==
    ASSUME NEW q \in Parcels, ParcelStep(q),
           NEW p \in Parcels, parcel'[p] \in Travelling
    PROVE  parcel[p] \in Travelling
  <1>1. CASE CreateParcel(q)
    BY <1>1 DEF CreateParcel, Travelling
  <1>2. CASE ParcelRoute(q)
    <2>1. PICK action \in SenderActions \cup DriverActions \cup AdminActions :
              TransitionParcels({q}, action)
      BY <1>2 DEF ParcelRoute
    <2> QED BY <2>1, ParcelTable DEF TransitionParcels
  <1>3. CASE WorkerExpiresParcel(q)
    BY <1>3 DEF WorkerExpiresParcel, Travelling
  <1> QED BY <1>1, <1>2, <1>3 DEF ParcelStep

(* A trip operation that lets a parcel travel is the start of the trip, or *)
(* the retry of a start that succeeded.                                    *)
LEMMA OperationCarriesParcels ==
    ASSUME JourneyInv, NEW r \in Requests, TripOperation(r),
           NEW p \in Parcels, parcel'[p] \in Travelling
    PROVE  parcel[p] \in Travelling \/ tripStatus' = "IN_PROGRESS" \/ started
  <1>1. CASE StartCommit(r)
    <2>1. tx[r].op = "start" /\ TransitionTrip(tx[r], "START_TRIP")
      BY <1>1 DEF StartCommit, EndOp
    <2>2. TripRead(tx[r])
      BY <2>1 DEF JourneyInv, TripOps
    <2> QED BY <2>1, <2>2, TripTable DEF TransitionTrip, TripRead
  <1>2. CASE CancelTripCommit(r)
    <2>1. TransitionParcels(ActiveParcels, "CANCEL_ADMIN")
      BY <1>2 DEF CancelTripCommit
    <2> QED BY <2>1, ParcelTable DEF TransitionParcels, Travelling
  <1>3. CASE ~StartCommit(r) /\ ~CancelTripCommit(r)
    <2>1. UNCHANGED parcel
      BY <1>3, OperationBegins
         DEF TripOperation, StartBoardingBegin, StartBoardingCommit, BoardBegin, VerifyPinBegin,
             NoShowBegin, BoardCommit, VerifyPinCommit, NoShowCommit, StartBegin, CompleteBegin,
             CompleteCommit, CancelTripBegin, NoShowDriverBegin, NoShowDriverCommit
    <2> QED BY <2>1
  <1> QED BY <1>1, <1>2, <1>3

LEMMA ParcelsStep ==
    ASSUME JourneyInv, ParcelsTravelWithTrip, [SupplyNext]_tripSupplyVars
    PROVE  ParcelsTravelWithTrip'
  <1>1. (started \/ tripStatus' = "IN_PROGRESS") => started'
    BY JourneyStep DEF JourneyInv
  <1>2. SUFFICES ASSUME NEW p \in Parcels, parcel'[p] \in Travelling
                 PROVE  started'
    BY DEF ParcelsTravelWithTrip, Travelling
  <1>3. parcel[p] \in Travelling => started
    BY DEF ParcelsTravelWithTrip, Travelling
  <1>4. CASE TripStep
    <2>1. CASE \E r \in Requests : TripOperation(r)
      BY <1>1, <1>2, <1>3, <2>1, OperationCarriesParcels
    <2>2. CASE \E q \in Parcels : ParcelStep(q)
      BY <1>1, <1>2, <1>3, <2>2, ParcelsDoNotStart
    <2>3. CASE BookingStep \/ WorkerFindsStaleTrip \/ WorkerExpiresTrip
      <3>1. UNCHANGED parcel
        BY <2>3 DEF BookingStep, BookingWrites, WorkerFindsStaleTrip, WorkerExpiresTrip
      <3> QED BY <1>1, <1>2, <1>3, <3>1
    <2> QED BY <1>4, <2>1, <2>2, <2>3, TripStepCases
  <1>5. CASE \E r \in Requests : SupplyStep(r)
    <2>1. UNCHANGED parcel
      BY <1>5, SupplyMovesTrip
    <2> QED BY <1>1, <1>2, <1>3, <2>1
  <1>6. CASE ReviewTripVehicle \/ UNCHANGED tripSupplyVars
    <2>1. UNCHANGED parcel
      BY <1>6 DEF ReviewTripVehicle, tripSupplyVars, tripOpVars, opVars
    <2> QED BY <1>1, <1>2, <1>3, <2>1
  <1> QED BY <1>4, <1>5, <1>6 DEF SupplyNext

LEMMA ParcelsStart == SupplyInit => ParcelsTravelWithTrip
  BY DEF SupplyInit, NoOperations, ParcelsTravelWithTrip

(* No parcel is in transit, ready or delivered before its trip has been    *)
(* started, whatever overlaps and whichever route moves the trip.          *)
THEOREM ParcelsFollowTrip == SupplySpec => []ParcelsTravelWithTrip
  BY ParcelsStart, ParcelsStep, JourneyInvariant, PTL DEF SupplySpec

-----------------------------------------------------------------------------
(* One transaction at a time.  The facts about the rows of the tables:     *)
(* the rows of a booking follow its hold, a seat has one owner, who has    *)
(* boarding or travelling status has the seats.                            *)

SeatOps == {"hold", "confirm", "release", "cancel"}
OneAtATime == SeatOps \cup TripOps \subseteq Isolated

Owning == {"HELD", "BOOKED", "OCCUPIED"}
LiveStatuses == {"CONFIRMED", "BOARDING", "IN_PROGRESS"}

RowsTyped ==
    /\ seat \in [Seats -> SeatStatuses]
    /\ hold \in [Bookings -> HoldStatuses]
    /\ booking \in [Bookings -> BookingStatuses]
    /\ bookingSeat \in [Bookings -> [Seats -> BookingSeatStatuses]]
    /\ pinVerified \subseteq Bookings
    /\ overridden \in BOOLEAN

RowsFollow ==
    \A b \in Bookings :
        /\ hold[b] = "NONE" <=> \A s \in Seats : bookingSeat[b][s] = "NONE"
        /\ hold[b] = "ACTIVE" => \A s \in Seats : bookingSeat[b][s] \in {"NONE", "HELD"}
        /\ hold[b] # "ACTIVE" => \A s \in Seats : bookingSeat[b][s] # "HELD"
        /\ booking[b] \in {"CONFIRMED", "BOARDING"} =>
               \A s \in Seats : bookingSeat[b][s] \in {"NONE", "BOOKED", "OCCUPIED"}

OneOwner ==
    \A s \in Seats : \A a, b \in Bookings :
        (bookingSeat[a][s] \in Owning /\ bookingSeat[b][s] \in Owning) => a = b

Verified ==
    \A b \in Bookings : booking[b] = "IN_PROGRESS" =>
        /\ \E s \in Seats : bookingSeat[b][s] = "OCCUPIED"
        /\ b \in pinVerified \/ overridden

RowsInv == RowsTyped /\ RowsFollow /\ OneOwner /\ Verified

\* TripSeat says of a seat what the row of its owner says, and only then.
SeatMapRight ==
    /\ \A s \in Seats, b \in Bookings :
           bookingSeat[b][s] \in Owning => seat[s] = bookingSeat[b][s]
    /\ \A s \in Seats : seat[s] \in Owning => \E b \in Bookings : bookingSeat[b][s] = seat[s]

\* What cancelling the trip leaves behind: empty seats and no passenger.
Closed ==
    /\ \A s \in Seats : seat[s] = "AVAILABLE"
    /\ \A b \in Bookings : booking[b] \notin LiveStatuses

(* What the seat map shows once the holds of E are ended.                  *)
LEMMA FreedSeat ==
    ASSUME NEW E, NEW s \in Seats
    PROVE  FreedSeats(E)[s] = IF seat[s] = "HELD" /\ \E e \in E : bookingSeat[e][s] # "NONE"
                              THEN "AVAILABLE" ELSE seat[s]
  <1>1. \A e \in E : s \in Items(e) <=> bookingSeat[e][s] # "NONE"
    BY DEF Items
  <1> QED BY <1>1 DEF FreedSeats

(* Ending ACTIVE holds (releaseActiveSeatHold).                            *)
LEMMA ReleaseKeepsRows ==
    ASSUME RowsInv, NEW E \in SUBSET Bookings, NEW status \in {"EXPIRED", "RELEASED"},
           \A e \in E : hold[e] = "ACTIVE", ReleaseActiveSeatHolds(E, status),
           UNCHANGED <<pinVerified, overridden>>
    PROVE  RowsInv' /\ (SeatMapRight => SeatMapRight') /\ (Closed => Closed')
  <1>1. \A b \in Bookings, s \in Seats :
            bookingSeat'[b][s] = IF b \in E /\ bookingSeat[b][s] = "HELD" THEN "RELEASED"
                                 ELSE bookingSeat[b][s]
    BY DEF ReleaseActiveSeatHolds, ReleasedRows
  <1>2. \A s \in Seats :
            seat'[s] = IF seat[s] = "HELD" /\ \E e \in E : bookingSeat[e][s] # "NONE"
                       THEN "AVAILABLE" ELSE seat[s]
    BY DEF ReleaseActiveSeatHolds, FreedSeats, Items
  <1>3. \A b \in Bookings : /\ hold'[b] = IF b \in E THEN status ELSE hold[b]
                            /\ booking'[b] = IF b \in E THEN "EXPIRED" ELSE booking[b]
    BY DEF ReleaseActiveSeatHolds
  <1>4. \A e \in E, s \in Seats : bookingSeat[e][s] \in {"NONE", "HELD"}
    BY DEF RowsInv, RowsFollow
  <1>5. RowsTyped'
    BY DEF RowsInv, RowsTyped, ReleaseActiveSeatHolds, ReleasedRows, FreedSeats,
           SeatStatuses, HoldStatuses, BookingStatuses, BookingSeatStatuses
  <1>6. RowsFollow'
    BY <1>1, <1>3, <1>4 DEF RowsInv, RowsFollow
  <1>7. OneOwner'
    BY <1>1 DEF RowsInv, OneOwner, Owning
  <1>8. Verified'
    BY <1>1, <1>3 DEF RowsInv, Verified
  <1>9. SeatMapRight => SeatMapRight'
    BY <1>1, <1>2, <1>4 DEF RowsInv, SeatMapRight, OneOwner, Owning
  <1>10. Closed => Closed'
    BY <1>2, <1>3 DEF Closed, LiveStatuses
  <1> QED BY <1>5, <1>6, <1>7, <1>8, <1>9, <1>10 DEF RowsInv

(* POST /bookings/holds gives free seats to one booking, if the seat map   *)
(* it read was right.                                                      *)
LEMMA HoldKeepsRows ==
    ASSUME RowsInv, SeatMapRight, NEW r \in Requests, HoldCommit(r),
           NEW b0 \in Bookings, NEW S \in SUBSET Seats, NEW E \in SUBSET Bookings,
           tx[r].b = b0, tx[r].seats = S, tx[r].expired = E, S # {},
           \A e \in E : hold[e] = "ACTIVE",
           \A s \in S : FreedSeats(E)[s] = "AVAILABLE",
           UNCHANGED <<pinVerified, overridden>>
    PROVE  RowsInv' /\ SeatMapRight'
  <1>1. hold[b0] = "NONE" /\ b0 \notin E
    BY DEF HoldCommit
  <1>2. \A s \in Seats : bookingSeat[b0][s] = "NONE"
    BY <1>1 DEF RowsInv, RowsFollow
  <1>3. \A e \in E, s \in Seats : bookingSeat[e][s] \in {"NONE", "HELD"}
    BY DEF RowsInv, RowsFollow
  <1>4. \A b \in Bookings, s \in Seats :
            bookingSeat'[b][s] = IF b = b0 THEN (IF s \in S THEN "HELD" ELSE "NONE")
                                 ELSE IF b \in E /\ bookingSeat[b][s] = "HELD" THEN "RELEASED"
                                 ELSE bookingSeat[b][s]
    BY DEF HoldCommit, ReleasedRows
  <1>5. \A s \in S :
            \/ seat[s] = "AVAILABLE"
            \/ seat[s] = "HELD" /\ \E e \in E : bookingSeat[e][s] # "NONE"
    <2>1. \A s \in Seats : FreedSeats(E)[s] =
              IF seat[s] = "HELD" /\ \E e \in E : bookingSeat[e][s] # "NONE"
              THEN "AVAILABLE" ELSE seat[s]
      BY FreedSeat
    <2> QED BY <2>1
  <1>6. \A s \in Seats : seat'[s] = IF s \in S THEN "HELD"
                                    ELSE IF seat[s] = "HELD" /\ \E e \in E : bookingSeat[e][s] # "NONE"
                                    THEN "AVAILABLE" ELSE seat[s]
    <2>1. \A s \in Seats : FreedSeats(E)[s] =
              IF seat[s] = "HELD" /\ \E e \in E : bookingSeat[e][s] # "NONE"
              THEN "AVAILABLE" ELSE seat[s]
      BY FreedSeat
    <2>2. \A s \in Seats : seat'[s] = IF s \in S /\ FreedSeats(E)[s] = "AVAILABLE"
                                      THEN "HELD" ELSE FreedSeats(E)[s]
      BY DEF HoldCommit
    <2> QED BY <2>1, <2>2
  <1>7. \A b \in Bookings :
            /\ hold'[b] = IF b = b0 THEN "ACTIVE" ELSE IF b \in E THEN "EXPIRED" ELSE hold[b]
            /\ booking'[b] = IF b = b0 THEN "HOLD" ELSE IF b \in E THEN "EXPIRED" ELSE booking[b]
    BY DEF HoldCommit
  <1>8. RowsTyped'
    <2>1. seat' \in [Seats -> SeatStatuses]
      BY DEF HoldCommit, FreedSeats, RowsInv, RowsTyped, SeatStatuses
    <2>2. hold' \in [Bookings -> HoldStatuses] /\ booking' \in [Bookings -> BookingStatuses]
      BY DEF HoldCommit, RowsInv, RowsTyped, HoldStatuses, BookingStatuses
    <2>3. bookingSeat' \in [Bookings -> [Seats -> BookingSeatStatuses]]
      BY DEF HoldCommit, ReleasedRows, RowsInv, RowsTyped, BookingSeatStatuses
    <2> QED BY <2>1, <2>2, <2>3 DEF RowsInv, RowsTyped
  <1>9. \A s \in S, b \in Bookings : b # b0 => bookingSeat'[b][s] \notin Owning
    BY <1>1, <1>3, <1>4, <1>5 DEF RowsInv, SeatMapRight, OneOwner, Owning
  <1>10. OneOwner'
    BY <1>4, <1>9 DEF RowsInv, OneOwner, Owning
  <1>11. RowsFollow'
    BY <1>1, <1>3, <1>4, <1>7 DEF RowsInv, RowsFollow
  <1>12. Verified'
    BY <1>1, <1>4, <1>7 DEF RowsInv, Verified
  <1>13. ASSUME NEW s \in Seats, NEW b \in Bookings, bookingSeat'[b][s] \in Owning
         PROVE  seat'[s] = bookingSeat'[b][s]
    <2>1. CASE s \in S
      BY <1>4, <1>6, <1>9, <1>13, <2>1
    <2>2. CASE s \notin S
      BY <1>3, <1>4, <1>6, <1>13, <2>2 DEF RowsInv, SeatMapRight, OneOwner, Owning
    <2> QED BY <2>1, <2>2
  <1>14. ASSUME NEW s \in Seats, seat'[s] \in Owning
         PROVE  \E b \in Bookings : bookingSeat'[b][s] = seat'[s]
    <2>1. CASE s \in S
      BY <1>4, <1>6, <2>1
    <2>2. CASE s \notin S
      <3>1. seat'[s] = seat[s]
        BY <1>6, <1>14, <2>2 DEF Owning
      <3>2. PICK b \in Bookings : bookingSeat[b][s] = seat[s]
        BY <1>14, <3>1 DEF SeatMapRight
      <3>3. b # b0
        BY <1>2, <1>14, <3>1, <3>2 DEF Owning
      <3>4. ~(b \in E /\ bookingSeat[b][s] = "HELD")
        BY <1>6, <1>14, <2>2, <3>2 DEF Owning
      <3> QED BY <1>4, <3>1, <3>2, <3>3, <3>4
    <2> QED BY <2>1, <2>2
  <1> QED BY <1>8, <1>10, <1>11, <1>12, <1>13, <1>14 DEF RowsInv, SeatMapRight

(* POST /bookings/holds/:holdId/confirm books what is still held; in a     *)
(* closed trip nothing is.                                                 *)
LEMMA ConfirmKeepsRows ==
    ASSUME RowsInv, NEW r \in Requests, ConfirmCommit(r),
           NEW b0 \in Bookings, tx[r].b = b0, tx[r].seats = Items(b0), hold[b0] = "ACTIVE",
           UNCHANGED <<pinVerified, overridden>>
    PROVE  RowsInv' /\ (SeatMapRight => SeatMapRight') /\ ~Closed
  <1>1. \A s \in Seats : bookingSeat[b0][s] # "NONE" =>
            seat[s] = "HELD" /\ bookingSeat[b0][s] = "HELD"
    BY DEF ConfirmCommit, StillHeld, Items
  <1>2. \A b \in Bookings, s \in Seats :
            bookingSeat'[b][s] = IF b = b0 /\ bookingSeat[b0][s] # "NONE" THEN "BOOKED"
                                 ELSE bookingSeat[b][s]
    BY DEF RowsInv, RowsTyped, ConfirmCommit, Items
  <1>3. \A s \in Seats : seat'[s] = IF bookingSeat[b0][s] # "NONE" THEN "BOOKED" ELSE seat[s]
    BY DEF ConfirmCommit, Items
  <1>4. /\ hold' = [hold EXCEPT ![b0] = "CONFIRMED"] /\ booking' = [booking EXCEPT ![b0] = "CONFIRMED"]
        /\ \A b \in Bookings :
              /\ hold'[b] = IF b = b0 THEN "CONFIRMED" ELSE hold[b]
              /\ booking'[b] = IF b = b0 THEN "CONFIRMED" ELSE booking[b]
    BY DEF RowsInv, RowsTyped, ConfirmCommit
  <1>5. RowsTyped'
    <2>1. seat' \in [Seats -> SeatStatuses]
      BY DEF ConfirmCommit, RowsInv, RowsTyped, SeatStatuses
    <2>2. hold' \in [Bookings -> HoldStatuses] /\ booking' \in [Bookings -> BookingStatuses]
      BY <1>4 DEF RowsInv, RowsTyped, HoldStatuses, BookingStatuses
    <2>3. bookingSeat' \in [Bookings -> [Seats -> BookingSeatStatuses]]
      BY DEF ConfirmCommit, RowsInv, RowsTyped, BookingSeatStatuses
    <2> QED BY <2>1, <2>2, <2>3 DEF RowsInv, RowsTyped
  <1>6. RowsFollow'
    BY <1>1, <1>2, <1>4 DEF RowsInv, RowsFollow
  <1>7. OneOwner'
    BY <1>1, <1>2 DEF RowsInv, OneOwner, Owning
  <1>8. Verified'
    BY <1>1, <1>2, <1>4 DEF RowsInv, Verified
  <1>9. SeatMapRight => SeatMapRight'
    <2> SUFFICES ASSUME SeatMapRight PROVE SeatMapRight'
      OBVIOUS
    <2>1. ASSUME NEW s \in Seats, NEW b \in Bookings, bookingSeat'[b][s] \in Owning
          PROVE  seat'[s] = bookingSeat'[b][s]
      BY <1>1, <1>2, <1>3, <2>1 DEF RowsInv, SeatMapRight, OneOwner, Owning
    <2>2. ASSUME NEW s \in Seats, seat'[s] \in Owning
          PROVE  \E b \in Bookings : bookingSeat'[b][s] = seat'[s]
      BY <1>1, <1>2, <1>3, <2>2 DEF RowsInv, SeatMapRight, OneOwner, Owning
    <2> QED BY <2>1, <2>2 DEF SeatMapRight
  <1>10. PICK s \in Seats : bookingSeat[b0][s] # "NONE"
    BY DEF RowsInv, RowsFollow
  <1>11. ~Closed
    BY <1>1, <1>10 DEF Closed
  <1> QED BY <1>5, <1>6, <1>7, <1>8, <1>9, <1>11 DEF RowsInv

(* cancelBooking, when what it read is still so.                           *)
LEMMA CancelKeepsRows ==
    ASSUME RowsInv, NEW r \in Requests, CancelCommit(r),
           NEW b0 \in Bookings, tx[r].b = b0, tx[r].seats = SeatsOf(b0, {"HELD", "BOOKED"}),
           tx[r].to \in CancelledStatuses, UNCHANGED <<pinVerified, overridden>>
    PROVE  RowsInv' /\ (SeatMapRight => SeatMapRight') /\ (Closed => Closed')
  <1>1. \A b \in Bookings, s \in Seats :
            bookingSeat'[b][s] = IF b = b0 /\ bookingSeat[b0][s] \in {"HELD", "BOOKED"}
                                 THEN "CANCELLED" ELSE bookingSeat[b][s]
    BY DEF RowsInv, RowsTyped, CancelCommit
  <1>2. \A s \in Seats : seat'[s] =
            IF bookingSeat[b0][s] \in {"HELD", "BOOKED"} /\ seat[s] \in {"HELD", "BOOKED"}
            THEN "AVAILABLE" ELSE seat[s]
    BY DEF CancelCommit, SeatsOf
  <1>3. \A b \in Bookings :
            /\ hold'[b] = IF b = b0 /\ hold[b0] = "ACTIVE" THEN "CANCELLED" ELSE hold[b]
            /\ booking'[b] = IF b = b0 THEN tx[r].to ELSE booking[b]
    BY DEF RowsInv, RowsTyped, CancelCommit
  <1>4. RowsTyped'
    <2>1. seat' \in [Seats -> SeatStatuses]
      BY DEF CancelCommit, RowsInv, RowsTyped, SeatStatuses
    <2>2. hold' \in [Bookings -> HoldStatuses]
      BY DEF CancelCommit, RowsInv, RowsTyped, HoldStatuses
    <2>3. booking' \in [Bookings -> BookingStatuses]
      BY DEF CancelCommit, RowsInv, RowsTyped, BookingStatuses
    <2>4. bookingSeat' \in [Bookings -> [Seats -> BookingSeatStatuses]]
      BY DEF CancelCommit, RowsInv, RowsTyped, BookingSeatStatuses
    <2> QED BY <2>1, <2>2, <2>3, <2>4 DEF RowsInv, RowsTyped
  <1>5. RowsFollow'
    BY <1>1, <1>3 DEF RowsInv, RowsFollow, CancelledStatuses
  <1>6. OneOwner'
    BY <1>1 DEF RowsInv, OneOwner, Owning
  <1>7. Verified'
    BY <1>1, <1>3 DEF RowsInv, Verified, CancelledStatuses
  <1>8. SeatMapRight => SeatMapRight'
    BY <1>1, <1>2 DEF RowsInv, SeatMapRight, OneOwner, Owning
  <1>9. Closed => Closed'
    BY <1>2, <1>3 DEF Closed, LiveStatuses, CancelledStatuses
  <1> QED BY <1>4, <1>5, <1>6, <1>7, <1>8, <1>9 DEF RowsInv

(* A step that changes the status of bookings only, and boards nobody.     *)
LEMMA StatusKeepsRows ==
    ASSUME RowsInv, UNCHANGED <<seat, hold, bookingSeat>>,
           booking' \in [Bookings -> BookingStatuses],
           pinVerified \subseteq pinVerified', pinVerified' \subseteq Bookings,
           overridden' \in BOOLEAN, overridden => overridden',
           \A b \in Bookings : booking'[b] \in {"CONFIRMED", "BOARDING"} =>
               booking[b] \in {"CONFIRMED", "BOARDING"},
           \A b \in Bookings : booking'[b] = "IN_PROGRESS" =>
               \/ booking[b] = "IN_PROGRESS"
               \/ /\ booking[b] \in LiveStatuses
                  /\ \E s \in Seats : bookingSeat[b][s] = "OCCUPIED"
                  /\ b \in pinVerified' \/ overridden'
    PROVE  RowsInv' /\ (SeatMapRight => SeatMapRight') /\ (Closed => Closed')
  <1>1. RowsTyped'
    BY DEF RowsInv, RowsTyped
  <1>2. RowsFollow' /\ OneOwner'
    BY DEF RowsInv, RowsFollow, OneOwner
  <1>3. Verified'
    BY DEF RowsInv, Verified
  <1>4. SeatMapRight => SeatMapRight'
    BY DEF SeatMapRight
  <1>5. Closed => Closed'
    BY DEF Closed, LiveStatuses
  <1> QED BY <1>1, <1>2, <1>3, <1>4, <1>5 DEF RowsInv

(* Cancelling the trip empties its seats and ends its bookings.            *)
LEMMA CloseKeepsRows ==
    ASSUME RowsInv, NEW status \in CancelledStatuses \cup {"NO_SHOW_DRIVER"},
           CloseBookings(status), UNCHANGED <<hold, bookingSeat, pinVerified, overridden>>
    PROVE  RowsInv' /\ Closed'
  <1>1. \A b \in Bookings : booking'[b] = IF booking[b] \in LiveStatuses THEN status ELSE booking[b]
    BY DEF CloseBookings, SetBookings, activeBookingWhere, InStatus, LiveStatuses
  <1>2. \A s \in Seats : seat'[s] = "AVAILABLE"
    BY DEF CloseBookings, SetSeats
  <1>3. status \notin LiveStatuses
    BY DEF LiveStatuses, CancelledStatuses
  <1>4. Closed'
    BY <1>1, <1>2, <1>3 DEF Closed
  <1>5. RowsTyped'
    <2>1. booking' \in [Bookings -> BookingStatuses]
      BY DEF CloseBookings, SetBookings, RowsInv, RowsTyped, BookingStatuses
    <2>2. seat' \in [Seats -> SeatStatuses]
      BY DEF CloseBookings, SetSeats, SeatStatuses
    <2> QED BY <2>1, <2>2 DEF RowsInv, RowsTyped
  <1>6. RowsFollow' /\ OneOwner'
    BY <1>4 DEF RowsInv, RowsFollow, OneOwner, Closed, LiveStatuses
  <1>7. Verified'
    BY <1>4 DEF Verified, Closed, LiveStatuses
  <1> QED BY <1>4, <1>5, <1>6, <1>7 DEF RowsInv

(* boardBooking occupies the seats of the booking.                         *)
LEMMA BoardKeepsRows ==
    ASSUME RowsInv, NEW b0 \in Bookings, booking[b0] = "BOARDING",
           SetBookings({b0}, "BOARDING"), OccupySeats(b0),
           UNCHANGED <<hold, pinVerified, overridden>>
    PROVE  RowsInv' /\ (SeatMapRight => SeatMapRight') /\ ~Closed
  <1>1. \A b \in Bookings : booking'[b] = booking[b]
    BY DEF SetBookings
  <1>2. \A s \in Seats : bookingSeat[b0][s] \in {"NONE", "BOOKED", "OCCUPIED"}
    BY DEF RowsInv, RowsFollow
  <1>3. \A b \in Bookings, s \in Seats :
            bookingSeat'[b][s] = IF b = b0 /\ bookingSeat[b0][s] = "BOOKED" THEN "OCCUPIED"
                                 ELSE bookingSeat[b][s]
    BY DEF OccupySeats, RowsInv, RowsTyped
  <1>4. \A s \in Seats : seat'[s] = IF bookingSeat[b0][s] # "NONE" THEN "OCCUPIED" ELSE seat[s]
    BY DEF OccupySeats, SetSeats, Items
  <1>5. RowsTyped'
    <2>1. booking' \in [Bookings -> BookingStatuses]
      BY DEF SetBookings, RowsInv, RowsTyped, BookingStatuses
    <2>2. seat' \in [Seats -> SeatStatuses]
      BY DEF OccupySeats, SetSeats, SeatStatuses, RowsInv, RowsTyped
    <2>3. bookingSeat' \in [Bookings -> [Seats -> BookingSeatStatuses]]
      BY DEF OccupySeats, RowsInv, RowsTyped, BookingSeatStatuses
    <2> QED BY <2>1, <2>2, <2>3 DEF RowsInv, RowsTyped
  <1>6. RowsFollow'
    BY <1>1, <1>2, <1>3 DEF RowsInv, RowsFollow
  <1>7. OneOwner'
    BY <1>3 DEF RowsInv, OneOwner, Owning
  <1>8. Verified'
    BY <1>1, <1>3 DEF RowsInv, Verified
  <1>9. SeatMapRight => SeatMapRight'
    <2> SUFFICES ASSUME SeatMapRight PROVE SeatMapRight'
      OBVIOUS
    <2>1. ASSUME NEW s \in Seats, NEW b \in Bookings, bookingSeat'[b][s] \in Owning
          PROVE  seat'[s] = bookingSeat'[b][s]
      BY <1>2, <1>3, <1>4, <2>1 DEF RowsInv, SeatMapRight, OneOwner, Owning
    <2>2. ASSUME NEW s \in Seats, seat'[s] \in Owning
          PROVE  \E b \in Bookings : bookingSeat'[b][s] = seat'[s]
      BY <1>2, <1>3, <1>4, <2>2 DEF RowsInv, SeatMapRight, OneOwner, Owning
    <2> QED BY <2>1, <2>2 DEF SeatMapRight
  <1>10. ~Closed
    BY DEF Closed, LiveStatuses
  <1> QED BY <1>5, <1>6, <1>7, <1>8, <1>9, <1>10 DEF RowsInv

(* markClientNoShow frees the seats of the booking.                        *)
LEMMA NoShowKeepsRows ==
    ASSUME RowsInv, NEW b0 \in Bookings, booking[b0] \in {"CONFIRMED", "BOARDING"},
           SetSeats(Items(b0), "AVAILABLE"), SetBookings({b0}, "NO_SHOW_CLIENT"),
           bookingSeat' = [bookingSeat EXCEPT ![b0] =
                              [s \in Seats |-> IF @[s] = "NONE" THEN "NONE" ELSE "RELEASED"]],
           UNCHANGED <<hold, pinVerified, overridden>>
    PROVE  RowsInv' /\ (SeatMapRight => SeatMapRight') /\ ~Closed
  <1>1. \A b \in Bookings : booking'[b] = IF b = b0 THEN "NO_SHOW_CLIENT" ELSE booking[b]
    BY DEF SetBookings
  <1>2. \A s \in Seats : bookingSeat[b0][s] \in {"NONE", "BOOKED", "OCCUPIED"}
    BY DEF RowsInv, RowsFollow
  <1>3. \A b \in Bookings, s \in Seats :
            bookingSeat'[b][s] = IF b = b0 /\ bookingSeat[b0][s] # "NONE" THEN "RELEASED"
                                 ELSE bookingSeat[b][s]
    BY DEF RowsInv, RowsTyped
  <1>4. \A s \in Seats : seat'[s] = IF bookingSeat[b0][s] # "NONE" THEN "AVAILABLE" ELSE seat[s]
    BY DEF SetSeats, Items
  <1>5. RowsTyped'
    <2>1. booking' \in [Bookings -> BookingStatuses]
      BY DEF SetBookings, RowsInv, RowsTyped, BookingStatuses
    <2>2. seat' \in [Seats -> SeatStatuses]
      BY DEF SetSeats, SeatStatuses, RowsInv, RowsTyped
    <2>3. bookingSeat' \in [Bookings -> [Seats -> BookingSeatStatuses]]
      BY DEF RowsInv, RowsTyped, BookingSeatStatuses
    <2> QED BY <2>1, <2>2, <2>3 DEF RowsInv, RowsTyped
  <1>6. RowsFollow'
    BY <1>1, <1>2, <1>3 DEF RowsInv, RowsFollow
  <1>7. OneOwner'
    BY <1>3 DEF RowsInv, OneOwner, Owning
  <1>8. Verified'
    BY <1>1, <1>3 DEF RowsInv, Verified
  <1>9. SeatMapRight => SeatMapRight'
    <2> SUFFICES ASSUME SeatMapRight PROVE SeatMapRight'
      OBVIOUS
    <2>1. ASSUME NEW s \in Seats, NEW b \in Bookings, bookingSeat'[b][s] \in Owning
          PROVE  seat'[s] = bookingSeat'[b][s]
      BY <1>2, <1>3, <1>4, <2>1 DEF RowsInv, SeatMapRight, OneOwner, Owning
    <2>2. ASSUME NEW s \in Seats, seat'[s] \in Owning
          PROVE  \E b \in Bookings : bookingSeat'[b][s] = seat'[s]
      BY <1>2, <1>3, <1>4, <2>2 DEF RowsInv, SeatMapRight, OneOwner, Owning
    <2> QED BY <2>1, <2>2 DEF SeatMapRight
  <1>10. ~Closed
    BY DEF Closed, LiveStatuses
  <1> QED BY <1>5, <1>6, <1>7, <1>8, <1>9, <1>10 DEF RowsInv

-----------------------------------------------------------------------------
(* The request in flight: it is alone, and what it read is still so.       *)

TripTyped ==
    /\ tripStatus \in TripStatuses
    /\ tripVersion \in Nat
    /\ staleTrip = FALSE
    /\ parcel \in [Parcels -> ParcelStatuses]
    /\ operations \in OperationSets

Reading(t) ==
    /\ t.op \in Isolated
    /\ t.op = "hold" =>
           /\ t.b \in Bookings /\ t.seats \in SUBSET Seats /\ t.seats # {}
           /\ t.expired \in SUBSET Bookings /\ \A e \in t.expired : hold[e] = "ACTIVE"
           /\ \A s \in t.seats : FreedSeats(t.expired)[s] = "AVAILABLE"
           /\ SeatMapRight /\ tripStatus \in {"PUBLISHED", "BOOKING_OPEN"}
    /\ t.op = "confirm" => t.b \in Bookings /\ t.seats = Items(t.b) /\ hold[t.b] = "ACTIVE"
    /\ t.op = "release" => t.b \in Bookings
    /\ t.op = "cancel" =>
           t.b \in Bookings /\ t.to \in CancelledStatuses /\ t.seats = SeatsOf(t.b, {"HELD", "BOOKED"})
    /\ t.op \in TripOps => t.from = tripStatus
    /\ t.op = "startBoarding" =>
           /\ t.bs = InStatus({"CONFIRMED"})
           /\ tripStatus \in {"PUBLISHED", "BOOKING_OPEN", "FULL", "BOARDING"}
    /\ t.op = "board" => t.b \in Bookings /\ booking[t.b] = "BOARDING"
    /\ t.op = "verifyPin" => t.b \in Bookings
    /\ t.op = "noShow" => t.b \in Bookings /\ booking[t.b] \in {"CONFIRMED", "BOARDING"}
    /\ t.op = "start" =>
           /\ t.bs = Bookings \/ Boarded \subseteq pinVerified
           /\ tripStatus \in {"BOARDING", "IN_PROGRESS"}
    /\ t.op = "complete" => tripStatus \in {"IN_PROGRESS", "COMPLETED"}
    /\ t.op = "cancelTrip" => t.to \in CancelledStatuses
    /\ t.op = "noShowDriver" => t.to = "NO_SHOW_DRIVER"

Serial ==
    /\ TxOK
    /\ \A r, q \in Requests : (tx[r] # Idle /\ tx[q] # Idle) => r = q
    /\ \A r \in Requests : tx[r] # Idle => Reading(tx[r])

AloneInv == TripTyped /\ RowsInv /\ Serial /\ (SeatMapRight \/ Closed)

\* What Reading is about.
readVars == <<tripStatus, seat, hold, booking, bookingSeat, pinVerified>>

InFlight(op) == \E r \in Requests : tx[r].op = op

\* Only POST /bookings/holds makes a hold.
HoldsAskedFor ==
    \A b \in Bookings : hold[b] = "NONE" => (hold'[b] = "NONE" \/ InFlight("hold"))

\* How a step of the booking routes, the trip operations or the worker changes
\* the trip and its seats.
OpStep ==
    /\ TripTyped' /\ RowsInv' /\ Serial'
    /\ HoldsAskedFor
    /\ tripStatus' \in VehicleInUse => tripStatus \in VehicleInUse
    /\ tripStatus \in {"CANCELLED", "EXPIRED"} => tripStatus' \in {tripStatus, "CANCELLED"}
    /\ tripStatus' = "EXPIRED" => tripStatus = "EXPIRED" \/ departed
    /\ \/ Closed' /\ tripStatus' = "CANCELLED"
       \/ SeatMapRight' /\ tripStatus' \in {"PUBLISHED", "BOOKING_OPEN"} /\ InFlight("hold")
       \/ /\ SeatMapRight => SeatMapRight'
          /\ Closed => Closed'
          /\ tripStatus' = "CANCELLED" => tripStatus = "CANCELLED"

(* Nothing is in flight when Isolated lets a step run.                     *)
LEMMA RunsAlone ==
    ASSUME Serial, MayRun
    PROVE  \A q \in Requests : tx[q] = Idle
  BY DEF Serial, Reading, MayRun

(* What was read stays so while nothing of it changes.                     *)
LEMMA ReadingStays ==
    ASSUME NEW t, Reading(t), UNCHANGED readVars
    PROVE  Reading(t)'
  <1>1. InStatus({"CONFIRMED"})' = InStatus({"CONFIRMED"})
    BY DEF readVars, InStatus
  <1>2. Boarded' = Boarded
    BY DEF readVars, Boarded, SeatsOf
  <1>3. Items(t.b)' = Items(t.b)
    BY DEF readVars, Items
  <1>4. SeatsOf(t.b, {"HELD", "BOOKED"})' = SeatsOf(t.b, {"HELD", "BOOKED"})
    BY DEF readVars, SeatsOf
  <1>5. FreedSeats(t.expired)' = FreedSeats(t.expired)
    BY DEF readVars, FreedSeats, Items
  <1>6. SeatMapRight => SeatMapRight'
    BY DEF readVars, SeatMapRight
  <1>7. UNCHANGED <<tripStatus, hold, booking, pinVerified>>
    BY DEF readVars
  <1> QED BY <1>1, <1>2, <1>3, <1>4, <1>5, <1>6, <1>7 DEF Reading

(* One request in flight, which has read t.                                *)
LEMMA OneInFlight ==
    ASSUME TxOK', NEW r \in Requests, NEW t, Reading(t)',
           \A q \in Requests : tx'[q] = IF q = r THEN t ELSE Idle
    PROVE  Serial'
  <1>1. ASSUME NEW q \in Requests, tx'[q] # Idle PROVE q = r /\ tx'[q] = t
    BY <1>1 DEF Idle
  <1>2. ASSUME NEW q \in Requests, tx'[q] # Idle PROVE Reading(tx[q])'
    <2>1. tx'[q] = t
      BY <1>1, <1>2
    <2> QED BY <2>1, ZenonT(30) DEF Reading
  <1> QED BY <1>1, <1>2 DEF Serial, Idle

(* A request that begins is alone.                                         *)
LEMMA BeginsAlone ==
    ASSUME Serial, NEW r \in Requests, NEW op \in Isolated, MayBegin(r, op), NEW t, t # Idle,
           tx' = [tx EXCEPT ![r] = t], Reading(t), UNCHANGED readVars
    PROVE  Serial'
  <1>1. \A q \in Requests : tx[q] = Idle
    BY DEF MayBegin
  <1>2. TxOK' /\ \A q \in Requests : tx'[q] = IF q = r THEN t ELSE tx[q]
    BY OneRequest, ZenonT(30) DEF Serial
  <1>3. Reading(t)'
    BY ReadingStays
  <1>4. \A q \in Requests : tx'[q] = IF q = r THEN t ELSE Idle
    BY <1>1, <1>2
  <1> QED BY <1>2, <1>3, <1>4, OneInFlight

(* A request that ends leaves nothing in flight.                           *)
LEMMA EndsAlone ==
    ASSUME Serial, NEW r \in Requests, tx[r] # Idle, tx' = [tx EXCEPT ![r] = Idle]
    PROVE  Serial'
  <1>1. TxOK' /\ \A q \in Requests : tx'[q] = IF q = r THEN Idle ELSE tx[q]
    BY OneRequest DEF Serial
  <1>2. \A q \in Requests : tx'[q] = Idle
    BY <1>1 DEF Serial
  <1> QED BY <1>1, <1>2 DEF Serial, Idle

(* A step of its own that respects Isolated.                               *)
LEMMA AloneStep ==
    ASSUME Serial, MayRun, UNCHANGED tx
    PROVE  Serial'
  <1>1. \A q \in Requests : tx'[q] = Idle
    BY RunsAlone
  <1> QED BY <1>1 DEF Serial, TxOK, Idle

(* A step that changes nothing a request has read.                         *)
LEMMA QuietStep ==
    ASSUME Serial, UNCHANGED <<tx, readVars>>
    PROVE  Serial'
  <1>1. ASSUME NEW q \in Requests, tx'[q] # Idle PROVE Reading(tx[q])'
    <2>1. PICK t : t = tx[q]
      OBVIOUS
    <2>2. Reading(t)
      BY <1>1, <2>1 DEF Serial
    <2>3. Reading(t)'
      BY <2>2, ReadingStays DEF readVars
    <2>4. tx'[q] = t
      BY <2>1
    <2> QED BY <2>3, <2>4, ZenonT(30) DEF Reading
  <1> QED BY <1>1 DEF Serial, TxOK

(* A step that only begins a request.                                      *)
LEMMA QuietOpStep ==
    ASSUME AloneInv, Serial', UNCHANGED readVars, UNCHANGED <<overridden, staleTrip, parcel, operations>>,
           tripVersion' \in {tripVersion, tripVersion + 1}
    PROVE  OpStep
  <1>1. TripTyped' /\ RowsInv'
    BY DEF AloneInv, TripTyped, RowsInv, RowsTyped, RowsFollow, OneOwner, Verified, readVars
  <1>2. UNCHANGED <<tripStatus, hold>> /\ (SeatMapRight => SeatMapRight') /\ (Closed => Closed')
    BY DEF readVars, SeatMapRight, Closed
  <1> QED BY <1>1, <1>2 DEF OpStep, HoldsAskedFor

-----------------------------------------------------------------------------
(* The steps of the booking routes and of their worker.                    *)

\* What BookingWrites leaves alone.
Rest ==
    /\ tripVersion' \in {tripVersion, tripVersion + 1}
    /\ UNCHANGED <<staleTrip, pinVerified, overridden, parcel, operations>>

(* POST /bookings/holds reads a seat map that is right.                    *)
LEMMA HoldBeginStep ==
    ASSUME OneAtATime, AloneInv, SeatMapRight, Rest,
           NEW r \in Requests, NEW b \in Bookings, NEW S \in SUBSET Seats, HoldBegin(r, b, S)
    PROVE  OpStep
  <1> DEFINE hb == [Idle EXCEPT !.op = "hold", !.b = b, !.seats = S, !.expired = UnlockedHolds]
  <1>1. PICK t : t = hb
    OBVIOUS
  <1>2. t.op = "hold" /\ t.b = b /\ t.seats = S /\ t.expired = UnlockedHolds
    BY <1>1 DEF Idle
  <1>3. tx' = [tx EXCEPT ![r] = t] /\ MayBegin(r, "hold") /\ UNCHANGED readVars
    BY <1>1 DEF HoldBegin, Begin, readVars, tripVars, rows, Rest
  <1> HIDE DEF hb
  <1>4. UnlockedHolds \in SUBSET Bookings /\ \A e \in UnlockedHolds : hold[e] = "ACTIVE"
    BY DEF UnlockedHolds, LapsedHolds
  <1>5. /\ S # {} /\ \A s \in S : FreedSeats(UnlockedHolds)[s] = "AVAILABLE"
        /\ tripStatus \in {"PUBLISHED", "BOOKING_OPEN"}
    BY DEF HoldBegin, Bookable
  <1>6. "hold" \in Isolated
    BY DEF OneAtATime, SeatOps
  <1>7. Reading(t)
    BY <1>2, <1>4, <1>5, <1>6 DEF Reading, TripOps
  <1>8. t # Idle
    BY <1>2 DEF Idle
  <1>9. Serial'
    BY <1>3, <1>6, <1>7, <1>8, BeginsAlone DEF AloneInv
  <1> QED BY <1>3, <1>9, QuietOpStep DEF Rest

(* A request that begins with what it read, and changes nothing else.      *)
LEMMA OpBegins ==
    ASSUME AloneInv, Rest, NEW r \in Requests, NEW op \in Isolated, MayBegin(r, op),
           NEW t, t.op # "idle", Reading(t), tx' = [tx EXCEPT ![r] = t], UNCHANGED readVars
    PROVE  OpStep
  <1>1. t # Idle
    BY DEF Idle
  <1>2. Serial'
    BY <1>1, BeginsAlone DEF AloneInv
  <1> QED BY <1>2, QuietOpStep DEF Rest

(* The other booking routes begin.                                         *)
LEMMA BookingBeginStep ==
    ASSUME OneAtATime, AloneInv, Rest,
           NEW r \in Requests, NEW b \in Bookings,
           \/ ConfirmBegin(r, b) \/ ReleaseBegin(r, b)
           \/ \E actor \in Actors : CancelBegin(r, b, actor)
    PROVE  OpStep
  <1>1. {"confirm", "release", "cancel"} \subseteq Isolated
    BY DEF OneAtATime, SeatOps
  <1>2. CASE ConfirmBegin(r, b)
    <2>1. PICK t : t = [Idle EXCEPT !.op = "confirm", !.b = b, !.seats = Items(b)]
      OBVIOUS
    <2>2. t.op = "confirm" /\ t.b = b /\ t.seats = Items(b)
      BY <2>1 DEF Idle
    <2>3. /\ tx' = [tx EXCEPT ![r] = t] /\ MayBegin(r, "confirm") /\ UNCHANGED readVars
          /\ hold[b] = "ACTIVE"
      BY <1>2, <2>1 DEF ConfirmBegin, Begin, readVars, tripVars, rows, Rest
    <2>4. Reading(t)
      BY <1>1, <2>2, <2>3 DEF Reading, TripOps
    <2> QED BY <1>1, <2>2, <2>3, <2>4, OpBegins
  <1>3. CASE ReleaseBegin(r, b)
    <2>1. PICK t : t = [Idle EXCEPT !.op = "release", !.b = b, !.seats = Items(b)]
      OBVIOUS
    <2>2. t.op = "release" /\ t.b = b
      BY <2>1 DEF Idle
    <2>3. tx' = [tx EXCEPT ![r] = t] /\ MayBegin(r, "release") /\ UNCHANGED readVars
      BY <1>3, <2>1 DEF ReleaseBegin, Begin, readVars, tripVars, rows, Rest
    <2>4. Reading(t)
      BY <1>1, <2>2 DEF Reading, TripOps
    <2> QED BY <1>1, <2>2, <2>3, <2>4, OpBegins
  <1>4. ASSUME NEW actor \in Actors, CancelBegin(r, b, actor) PROVE OpStep
    <2>1. PICK t : t = [Idle EXCEPT !.op = "cancel", !.b = b, !.to = CancelledBy(actor),
                                    !.seats = SeatsOf(b, {"HELD", "BOOKED"}),
                                    !.booked = BookedSeats(b)]
      OBVIOUS
    <2>2. /\ t.op = "cancel" /\ t.b = b /\ t.to = CancelledBy(actor)
          /\ t.seats = SeatsOf(b, {"HELD", "BOOKED"})
      BY <2>1 DEF Idle
    <2>3. tx' = [tx EXCEPT ![r] = t] /\ MayBegin(r, "cancel") /\ UNCHANGED readVars
      BY <1>4, <2>1 DEF CancelBegin, Begin, readVars, tripVars, rows, Rest
    <2>4. CancelledBy(actor) \in CancelledStatuses
      BY DEF CancelledBy, CancelledStatuses
    <2>5. Reading(t)
      BY <1>1, <2>2, <2>4 DEF Reading, TripOps
    <2> QED BY <1>1, <2>2, <2>3, <2>5, OpBegins
  <1> QED BY <1>2, <1>3, <1>4

(* Holds that end: at most the rows of ACTIVE holds change.                *)
LEMMA ReleaseStep ==
    ASSUME AloneInv, Rest, Serial', UNCHANGED tripStatus,
           NEW E \in SUBSET Bookings, NEW status \in {"EXPIRED", "RELEASED"},
           \A e \in E : hold[e] = "ACTIVE", ReleaseActiveSeatHolds(E, status)
    PROVE  OpStep
  <1>1. RowsInv' /\ (SeatMapRight => SeatMapRight') /\ (Closed => Closed')
    BY ReleaseKeepsRows DEF AloneInv, Rest
  <1>2. TripTyped'
    BY DEF AloneInv, TripTyped, Rest
  <1>3. HoldsAskedFor
    BY DEF ReleaseActiveSeatHolds, HoldsAskedFor
  <1> QED BY <1>1, <1>2, <1>3 DEF OpStep

(* The ends of the requests of the booking routes.                         *)
LEMMA BookingFinishStep ==
    ASSUME AloneInv, Rest, NEW r \in Requests, Finish(r)
    PROVE  OpStep
  <1>1. tx[r] # Idle /\ tx' = [tx EXCEPT ![r] = Idle] /\ UNCHANGED tripStatus
    BY SMTT(30) DEF Finish, HoldCommit, ConfirmCommit, ReleaseCommit, CancelCommit, Abort, End, Idle, tripVars
  <1>2. Serial' /\ Reading(tx[r])
    BY <1>1, EndsAlone DEF AloneInv, Serial
  <1>3. TripTyped'
    BY <1>1 DEF AloneInv, TripTyped, Rest
  <1>4. CASE HoldCommit(r)
    <2>1. tx[r].op = "hold"
      BY <1>4 DEF HoldCommit
    <2>2. /\ tx[r].b \in Bookings /\ tx[r].seats \in SUBSET Seats /\ tx[r].seats # {}
          /\ tx[r].expired \in SUBSET Bookings /\ \A e \in tx[r].expired : hold[e] = "ACTIVE"
          /\ \A s \in tx[r].seats : FreedSeats(tx[r].expired)[s] = "AVAILABLE"
          /\ SeatMapRight /\ tripStatus \in {"PUBLISHED", "BOOKING_OPEN"}
      BY <1>2, <2>1 DEF Reading
    <2>3. RowsInv' /\ SeatMapRight'
      BY <1>4, <2>2, HoldKeepsRows DEF AloneInv, Rest
    <2> QED BY <1>1, <1>2, <1>3, <2>1, <2>2, <2>3 DEF OpStep, HoldsAskedFor, InFlight
  <1>5. CASE ConfirmCommit(r)
    <2>1. tx[r].op = "confirm"
      BY <1>5 DEF ConfirmCommit
    <2>2. tx[r].b \in Bookings /\ tx[r].seats = Items(tx[r].b) /\ hold[tx[r].b] = "ACTIVE"
      BY <1>2, <2>1 DEF Reading
    <2>3. RowsInv' /\ (SeatMapRight => SeatMapRight') /\ ~Closed
      BY <1>5, <2>2, ConfirmKeepsRows DEF AloneInv, Rest
    <2>4. HoldsAskedFor
      BY <1>5, <2>2 DEF ConfirmCommit, HoldsAskedFor
    <2> QED BY <1>1, <1>2, <1>3, <2>3, <2>4 DEF OpStep
  <1>6. CASE ReleaseCommit(r)
    <2>1. tx[r].b \in Bookings
      BY <1>2, <1>6 DEF Reading, ReleaseCommit
    <2>2. CASE hold[tx[r].b] = "ACTIVE" /\ ReleaseActiveSeatHolds({tx[r].b}, "RELEASED")
      <3>1. {tx[r].b} \in SUBSET Bookings /\ \A e \in {tx[r].b} : hold[e] = "ACTIVE"
        BY <2>1, <2>2
      <3> QED BY <1>1, <1>2, <2>2, <3>1, ReleaseStep
    <2>3. CASE UNCHANGED rows
      BY <1>1, <1>2, <2>3, QuietOpStep DEF rows, readVars, Rest
    <2> QED BY <1>6, <2>2, <2>3 DEF ReleaseCommit
  <1>7. CASE CancelCommit(r)
    <2>1. tx[r].op = "cancel"
      BY <1>7 DEF CancelCommit
    <2>2. /\ tx[r].b \in Bookings /\ tx[r].to \in CancelledStatuses
          /\ tx[r].seats = SeatsOf(tx[r].b, {"HELD", "BOOKED"})
      BY <1>2, <2>1 DEF Reading
    <2>3. RowsInv' /\ (SeatMapRight => SeatMapRight') /\ (Closed => Closed')
      BY <1>7, <2>2, CancelKeepsRows DEF AloneInv, Rest
    <2>4. HoldsAskedFor
      BY <1>7, <2>2 DEF CancelCommit, HoldsAskedFor
    <2> QED BY <1>1, <1>2, <1>3, <2>3, <2>4 DEF OpStep
  <1>8. CASE Abort(r)
    BY <1>1, <1>2, <1>8, QuietOpStep DEF Abort, rows, readVars, tripVars, Rest
  <1> QED BY <1>4, <1>5, <1>6, <1>7, <1>8 DEF Finish

(* The seat map, retries, the worker and time.                             *)
LEMMA BookingOtherStep ==
    ASSUME AloneInv, Rest,
           ListSeats \/ (\E b \in Bookings : HoldReplay(b)) \/ Worker \/ Environment
    PROVE  OpStep
  <1>1. UnlockedHolds \in SUBSET Bookings /\ \A e \in UnlockedHolds : hold[e] = "ACTIVE"
    BY DEF UnlockedHolds, LapsedHolds
  <1>2. CASE ListSeats \/ (\E b \in Bookings : HoldReplay(b))
    <2>1. MayRun /\ UNCHANGED <<tx, tripStatus>> /\ ReleaseActiveSeatHolds(UnlockedHolds, "EXPIRED")
      BY <1>2 DEF ListSeats, HoldReplay, tripVars
    <2> QED BY <1>1, <2>1, AloneStep, ReleaseStep DEF AloneInv
  <1>3. ASSUME NEW b \in Bookings, WorkerExpire(b) PROVE OpStep
    <2>1. MayRun /\ UNCHANGED <<tx, tripStatus>>
      BY <1>3 DEF WorkerExpire, tripVars
    <2>2. Serial'
      BY <2>1, AloneStep DEF AloneInv
    <2>3. CASE hold[b] = "ACTIVE" /\ ReleaseActiveSeatHolds({b}, "EXPIRED")
      <3>1. {b} \in SUBSET Bookings /\ \A e \in {b} : hold[e] = "ACTIVE"
        BY <2>3
      <3> QED BY <2>1, <2>2, <2>3, <3>1, ReleaseStep
    <2>4. CASE UNCHANGED rows
      BY <2>1, <2>2, <2>4, QuietOpStep DEF rows, readVars, Rest
    <2> QED BY <1>3, <2>3, <2>4 DEF WorkerExpire
  <1>4. CASE WorkerScan \/ WorkerCrash \/ Environment
    <2>1. UNCHANGED <<tripStatus, rows, tx>>
      BY <1>4 DEF WorkerScan, WorkerCrash, Environment, LockTtlElapses, DeparturePasses,
                  HoldTtlElapses, tripVars
    <2>2. UNCHANGED readVars
      BY <2>1 DEF rows, readVars, Rest
    <2>3. Serial'
      BY <2>1, <2>2, QuietStep DEF AloneInv
    <2> QED BY <2>2, <2>3, QuietOpStep DEF Rest
  <1> QED BY <1>2, <1>3, <1>4 DEF Worker

-----------------------------------------------------------------------------
(* The trip operations.                                                    *)

(* An operation begins with what it reads.                                 *)
LEMMA OperationBeginStep ==
    ASSUME OneAtATime, AloneInv, NEW r \in Requests,
           NEW op \in TripOps, NEW b, NEW to, NEW bs, BeginOp(r, op, b, to, bs),
           op = "startBoarding" =>
               /\ bs = InStatus({"CONFIRMED"})
               /\ tripStatus \in {"PUBLISHED", "BOOKING_OPEN", "FULL", "BOARDING"},
           op = "board" => b \in Bookings /\ booking[b] = "BOARDING",
           op = "verifyPin" => b \in Bookings,
           op = "noShow" => b \in Bookings /\ booking[b] \in {"CONFIRMED", "BOARDING"},
           op = "start" => /\ bs = Bookings \/ Boarded \subseteq pinVerified
                           /\ tripStatus \in {"BOARDING", "IN_PROGRESS"},
           op = "complete" => tripStatus \in {"IN_PROGRESS", "COMPLETED"},
           op = "cancelTrip" => to \in CancelledStatuses,
           op = "noShowDriver" => to = "NO_SHOW_DRIVER"
    PROVE  OpStep
  <1>1. PICK t : t = TripTx(op, b, to, bs)
    OBVIOUS
  <1>2. t.op = op /\ t.b = b /\ t.to = to /\ t.bs = bs /\ t.from = tripStatus
    BY <1>1 DEF TripTx
  <1>3. op \in Isolated /\ op \notin SeatOps /\ op # "idle"
    BY DEF OneAtATime, TripOps, SeatOps
  <1>4. Reading(t)
    BY <1>2, <1>3 DEF Reading, SeatOps
  <1>5. MayBegin(r, op) /\ tx' = [tx EXCEPT ![r] = t]
    BY <1>1 DEF BeginOp, Begin
  <1>6. Rest /\ UNCHANGED readVars
    BY DEF BeginOp, readVars, tripVars, rows, opVars, Rest
  <1> QED BY <1>2, <1>3, <1>4, <1>5, <1>6, OpBegins

(* What an operation that ends finds.                                      *)
LEMMA OperationReads ==
    ASSUME AloneInv, NEW r \in Requests, NEW op \in TripOps, EndOp(r, op)
    PROVE  /\ tx[r].op = op /\ Reading(tx[r]) /\ Serial'
           /\ UNCHANGED <<hold, staleTrip, operations>>
           /\ tx[r].from = tripStatus
  <1>1. tx[r].op = op /\ tx[r] # Idle /\ tx' = [tx EXCEPT ![r] = Idle]
    BY DEF EndOp, End, Idle, TripOps
  <1>2. Serial' /\ Reading(tx[r])
    BY <1>1, EndsAlone DEF AloneInv, Serial
  <1> QED BY <1>1, <1>2 DEF EndOp, Reading

(* The parcels stay in their statuses.                                     *)
LEMMA ParcelsTyped ==
    ASSUME parcel \in [Parcels -> ParcelStatuses], NEW P,
           NEW action \in SenderActions \cup DriverActions \cup AdminActions \cup {"START_TRANSIT"},
           TransitionParcels(P, action)
    PROVE  parcel' \in [Parcels -> ParcelStatuses]
  <1>1. parcelTransitionTargets[action] \in ParcelStatuses
    BY DEF parcelTransitionTargets, ParcelStatuses, SenderActions, DriverActions, AdminActions
  <1> QED BY <1>1 DEF TransitionParcels

(* Boarding begins, a passenger boards, a PIN is verified, somebody does   *)
(* not come.                                                               *)
LEMMA BoardingStep ==
    ASSUME AloneInv, NEW r \in Requests,
           StartBoardingCommit(r) \/ BoardCommit(r) \/ VerifyPinCommit(r) \/ NoShowCommit(r)
    PROVE  OpStep
  <1>1. CASE StartBoardingCommit(r)
    <2>1. EndOp(r, "startBoarding") /\ "startBoarding" \in TripOps
      BY <1>1 DEF StartBoardingCommit, TripOps
    <2>2. /\ tx[r].op = "startBoarding" /\ Reading(tx[r]) /\ Serial'
          /\ UNCHANGED <<hold, staleTrip, operations>> /\ tx[r].from = tripStatus
      BY <2>1, OperationReads
    <2>3. /\ tx[r].bs = InStatus({"CONFIRMED"})
          /\ tripStatus \in {"PUBLISHED", "BOOKING_OPEN", "FULL", "BOARDING"}
      BY <2>2 DEF Reading
    <2>4. tripStatus' = "BOARDING" /\ tripVersion' \in {tripVersion, tripVersion + 1}
      BY <1>1, <2>2, TripTable DEF StartBoardingCommit, TransitionTrip
    <2>5. UNCHANGED <<seat, bookingSeat, pinVerified, overridden, parcel>>
      BY <1>1 DEF StartBoardingCommit
    <2>6. booking' = [b \in Bookings |-> IF booking[b] = "CONFIRMED" THEN "BOARDING" ELSE booking[b]]
      BY <1>1, <2>3 DEF StartBoardingCommit, SetBookings, InStatus
    <2>7. booking' \in [Bookings -> BookingStatuses]
      BY <2>6 DEF AloneInv, RowsInv, RowsTyped, BookingStatuses
    <2>8. RowsInv' /\ (SeatMapRight => SeatMapRight') /\ (Closed => Closed')
      BY <2>2, <2>5, <2>6, <2>7, StatusKeepsRows DEF AloneInv, RowsInv, RowsTyped
    <2>9. TripTyped'
      BY <2>2, <2>4, <2>5 DEF AloneInv, TripTyped, TripStatuses
    <2> QED BY <2>2, <2>3, <2>4, <2>8, <2>9 DEF OpStep, HoldsAskedFor, VehicleInUse
  <1>2. CASE BoardCommit(r)
    <2>1. EndOp(r, "board") /\ "board" \in TripOps
      BY <1>2 DEF BoardCommit, TripOps
    <2>2. /\ tx[r].op = "board" /\ Reading(tx[r]) /\ Serial'
          /\ UNCHANGED <<hold, staleTrip, operations>>
      BY <2>1, OperationReads
    <2>3. tx[r].b \in Bookings /\ booking[tx[r].b] = "BOARDING"
      BY <2>2 DEF Reading
    <2>4. UNCHANGED <<tripStatus, tripVersion, pinVerified, overridden, parcel>>
      BY <1>2 DEF BoardCommit
    <2>5. SetBookings({tx[r].b}, "BOARDING") /\ OccupySeats(tx[r].b)
      BY <1>2 DEF BoardCommit
    <2>6. RowsInv' /\ (SeatMapRight => SeatMapRight') /\ ~Closed
      BY <2>2, <2>3, <2>4, <2>5, BoardKeepsRows DEF AloneInv
    <2>7. TripTyped'
      BY <2>2, <2>4 DEF AloneInv, TripTyped
    <2> QED BY <2>2, <2>4, <2>6, <2>7 DEF OpStep, HoldsAskedFor
  <1>3. CASE VerifyPinCommit(r)
    <2>1. EndOp(r, "verifyPin") /\ "verifyPin" \in TripOps
      BY <1>3 DEF VerifyPinCommit, TripOps
    <2>2. /\ tx[r].op = "verifyPin" /\ Reading(tx[r]) /\ Serial'
          /\ UNCHANGED <<hold, staleTrip, operations>>
      BY <2>1, OperationReads
    <2>3. tx[r].b \in Bookings
      BY <2>2 DEF Reading
    <2>4. /\ UNCHANGED <<tripStatus, tripVersion, seat, booking, bookingSeat, overridden, parcel>>
          /\ pinVerified' = pinVerified \cup {tx[r].b}
      BY <1>3 DEF VerifyPinCommit
    <2>5. RowsInv' /\ (SeatMapRight => SeatMapRight') /\ (Closed => Closed')
      BY <2>2, <2>3, <2>4, StatusKeepsRows DEF AloneInv, RowsInv, RowsTyped
    <2>6. TripTyped'
      BY <2>2, <2>4 DEF AloneInv, TripTyped
    <2> QED BY <2>2, <2>4, <2>5, <2>6 DEF OpStep, HoldsAskedFor
  <1>4. CASE NoShowCommit(r)
    <2>1. EndOp(r, "noShow") /\ "noShow" \in TripOps
      BY <1>4 DEF NoShowCommit, TripOps
    <2>2. /\ tx[r].op = "noShow" /\ Reading(tx[r]) /\ Serial'
          /\ UNCHANGED <<hold, staleTrip, operations>>
      BY <2>1, OperationReads
    <2>3. PICK b0 \in Bookings : b0 = tx[r].b /\ booking[b0] \in {"CONFIRMED", "BOARDING"}
      BY <2>2 DEF Reading
    <2>4. UNCHANGED <<tripStatus, tripVersion, pinVerified, overridden, parcel>>
      BY <1>4 DEF NoShowCommit
    <2>5. /\ SetSeats(Items(b0), "AVAILABLE") /\ SetBookings({b0}, "NO_SHOW_CLIENT")
          /\ bookingSeat' = [bookingSeat EXCEPT ![b0] =
                                [s \in Seats |-> IF @[s] = "NONE" THEN "NONE" ELSE "RELEASED"]]
      BY <1>4, <2>3 DEF NoShowCommit
    <2>6. RowsInv' /\ (SeatMapRight => SeatMapRight') /\ ~Closed
      BY <2>2, <2>3, <2>4, <2>5, NoShowKeepsRows DEF AloneInv
    <2>7. TripTyped'
      BY <2>2, <2>4 DEF AloneInv, TripTyped
    <2> QED BY <2>2, <2>4, <2>6, <2>7 DEF OpStep, HoldsAskedFor
  <1> QED BY <1>1, <1>2, <1>3, <1>4

(* The trip starts and completes.                                          *)
LEMMA TravelStep ==
    ASSUME AloneInv, NEW r \in Requests, StartCommit(r) \/ CompleteCommit(r)
    PROVE  OpStep
  <1>1. CASE StartCommit(r)
    <2>1. EndOp(r, "start") /\ "start" \in TripOps
      BY <1>1 DEF StartCommit, TripOps
    <2>2. /\ tx[r].op = "start" /\ Reading(tx[r]) /\ Serial'
          /\ UNCHANGED <<hold, staleTrip, operations>> /\ tx[r].from = tripStatus
      BY <2>1, OperationReads
    <2>3. /\ tx[r].bs = Bookings \/ Boarded \subseteq pinVerified
          /\ tripStatus \in {"BOARDING", "IN_PROGRESS"}
      BY <2>2 DEF Reading
    <2>4. tripStatus' = "IN_PROGRESS" /\ tripVersion' \in {tripVersion, tripVersion + 1}
      BY <1>1, <2>2, TripTable DEF StartCommit, TransitionTrip
    <2>5. /\ UNCHANGED <<seat, bookingSeat, pinVerified>>
          /\ overridden' = (overridden \/ tx[r].bs # {})
      BY <1>1 DEF StartCommit
    <2>6. booking' = [b \in Bookings |-> IF booking[b] = "BOARDING" /\ b \in Boarded
                                         THEN "IN_PROGRESS" ELSE booking[b]]
      BY <1>1 DEF StartCommit, SetBookings, InStatus
    <2>7. booking' \in [Bookings -> BookingStatuses]
      BY <2>6 DEF AloneInv, RowsInv, RowsTyped, BookingStatuses
    <2>8. \A b \in Bookings : b \in Boarded =>
              /\ \E s \in Seats : bookingSeat[b][s] = "OCCUPIED"
              /\ b \in pinVerified' \/ overridden'
      BY <2>3, <2>5 DEF Boarded, SeatsOf
    <2>9. overridden' \in BOOLEAN /\ (overridden => overridden')
      BY <2>5
    <2>10. RowsInv' /\ (SeatMapRight => SeatMapRight') /\ (Closed => Closed')
      <3>1. \A b \in Bookings :
                /\ booking'[b] \in {"CONFIRMED", "BOARDING"} => booking[b] \in {"CONFIRMED", "BOARDING"}
                /\ booking'[b] = "IN_PROGRESS" =>
                       \/ booking[b] = "IN_PROGRESS"
                       \/ /\ booking[b] \in LiveStatuses
                          /\ \E s \in Seats : bookingSeat[b][s] = "OCCUPIED"
                          /\ b \in pinVerified' \/ overridden'
        BY <2>6, <2>8 DEF LiveStatuses
      <3>2. pinVerified \subseteq pinVerified' /\ pinVerified' \subseteq Bookings
        BY <2>5 DEF AloneInv, RowsInv, RowsTyped
      <3>3. RowsInv /\ UNCHANGED <<seat, hold, bookingSeat>>
        BY <2>2, <2>5 DEF AloneInv
      <3> QED BY <2>7, <2>9, <3>1, <3>2, <3>3, StatusKeepsRows
    <2>11. parcel' \in [Parcels -> ParcelStatuses]
      BY <1>1, ParcelsTyped DEF StartCommit, AloneInv, TripTyped
    <2>12. TripTyped'
      BY <2>2, <2>4, <2>11 DEF AloneInv, TripTyped, TripStatuses
    <2> QED BY <2>2, <2>3, <2>4, <2>10, <2>12 DEF OpStep, HoldsAskedFor, VehicleInUse
  <1>2. CASE CompleteCommit(r)
    <2>1. EndOp(r, "complete") /\ "complete" \in TripOps
      BY <1>2 DEF CompleteCommit, TripOps
    <2>2. /\ tx[r].op = "complete" /\ Reading(tx[r]) /\ Serial'
          /\ UNCHANGED <<hold, staleTrip, operations>> /\ tx[r].from = tripStatus
      BY <2>1, OperationReads
    <2>3. tripStatus \in {"IN_PROGRESS", "COMPLETED"}
      BY <2>2 DEF Reading
    <2>4. tripStatus' = "COMPLETED" /\ tripVersion' \in {tripVersion, tripVersion + 1}
      BY <1>2, <2>2, TripTable DEF CompleteCommit, TransitionTrip
    <2>5. UNCHANGED <<seat, bookingSeat, pinVerified, overridden, parcel>>
      BY <1>2 DEF CompleteCommit
    <2>6. booking' = [b \in Bookings |-> IF booking[b] \in {"IN_PROGRESS", "BOARDING"}
                                         THEN "COMPLETED" ELSE booking[b]]
      BY <1>2 DEF CompleteCommit, SetBookings, InStatus
    <2>7. booking' \in [Bookings -> BookingStatuses]
      BY <2>6 DEF AloneInv, RowsInv, RowsTyped, BookingStatuses
    <2>8. RowsInv' /\ (SeatMapRight => SeatMapRight') /\ (Closed => Closed')
      BY <2>2, <2>5, <2>6, <2>7, StatusKeepsRows DEF AloneInv, RowsInv, RowsTyped
    <2>9. TripTyped'
      BY <2>2, <2>4, <2>5 DEF AloneInv, TripTyped, TripStatuses
    <2> QED BY <2>2, <2>3, <2>4, <2>8, <2>9 DEF OpStep, HoldsAskedFor, VehicleInUse
  <1> QED BY <1>1, <1>2

(* The trip is cancelled.                                                  *)
LEMMA CancelTripStep ==
    ASSUME AloneInv, NEW r \in Requests, CancelTripCommit(r) \/ NoShowDriverCommit(r)
    PROVE  OpStep /\ Closed' /\ tripStatus' = "CANCELLED"
  <1>1. CASE CancelTripCommit(r)
    <2>1. EndOp(r, "cancelTrip") /\ "cancelTrip" \in TripOps
      BY <1>1 DEF CancelTripCommit, TripOps
    <2>2. /\ tx[r].op = "cancelTrip" /\ Reading(tx[r]) /\ Serial'
          /\ UNCHANGED <<hold, staleTrip, operations>> /\ tx[r].from = tripStatus
      BY <2>1, OperationReads
    <2>3. tx[r].to \in CancelledStatuses
      BY <2>2 DEF Reading
    <2>4. tripStatus' = "CANCELLED" /\ tripVersion' \in {tripVersion, tripVersion + 1}
      BY <1>1, <2>2, TripTable DEF CancelTripCommit, TransitionTrip
    <2>5. UNCHANGED <<bookingSeat, pinVerified, overridden>> /\ CloseBookings(tx[r].to)
      BY <1>1 DEF CancelTripCommit
    <2>6. RowsInv' /\ Closed'
      BY <2>2, <2>3, <2>5, CloseKeepsRows DEF AloneInv
    <2>7. parcel' \in [Parcels -> ParcelStatuses]
      BY <1>1, ParcelsTyped DEF CancelTripCommit, AloneInv, TripTyped, AdminActions
    <2>8. TripTyped'
      BY <2>2, <2>4, <2>7 DEF AloneInv, TripTyped, TripStatuses
    <2> QED BY <2>2, <2>4, <2>6, <2>8 DEF OpStep, HoldsAskedFor, VehicleInUse
  <1>2. CASE NoShowDriverCommit(r)
    <2>1. EndOp(r, "noShowDriver") /\ "noShowDriver" \in TripOps
      BY <1>2 DEF NoShowDriverCommit, TripOps
    <2>2. /\ tx[r].op = "noShowDriver" /\ Reading(tx[r]) /\ Serial'
          /\ UNCHANGED <<hold, staleTrip, operations>> /\ tx[r].from = tripStatus
      BY <2>1, OperationReads
    <2>3. tx[r].to = "NO_SHOW_DRIVER"
      BY <2>2 DEF Reading
    <2>4. tripStatus' = "CANCELLED" /\ tripVersion' \in {tripVersion, tripVersion + 1}
      BY <1>2, <2>2 DEF NoShowDriverCommit
    <2>5. /\ UNCHANGED <<bookingSeat, pinVerified, overridden, parcel>>
          /\ CloseBookings("NO_SHOW_DRIVER")
      BY <1>2, <2>3 DEF NoShowDriverCommit
    <2>6. RowsInv' /\ Closed'
      BY <2>2, <2>5, CloseKeepsRows DEF AloneInv
    <2>7. TripTyped'
      BY <2>2, <2>4, <2>5 DEF AloneInv, TripTyped, TripStatuses
    <2> QED BY <2>2, <2>4, <2>6, <2>7 DEF OpStep, HoldsAskedFor, VehicleInUse
  <1> QED BY <1>1, <1>2

LEMMA OperationStep ==
    ASSUME OneAtATime, AloneInv, NEW r \in Requests, TripOperation(r)
    PROVE  OpStep
  <1>1. CASE StartBoardingBegin(r)
    <2>1. /\ BeginOp(r, "startBoarding", NoBooking, "NONE", InStatus({"CONFIRMED"}))
          /\ tripStatus \in {"PUBLISHED", "BOOKING_OPEN", "FULL", "BOARDING"}
      BY <1>1, TripTable DEF StartBoardingBegin, MayTransition
    <2> QED BY <2>1, OperationBeginStep DEF TripOps
  <1>2. ASSUME NEW b \in Bookings, BoardBegin(r, b) \/ VerifyPinBegin(r, b) \/ NoShowBegin(r, b)
        PROVE  OpStep
    <2>1. CASE BoardBegin(r, b)
      BY <2>1, OperationBeginStep DEF BoardBegin, TripOps
    <2>2. CASE VerifyPinBegin(r, b)
      BY <2>2, OperationBeginStep DEF VerifyPinBegin, TripOps
    <2>3. CASE NoShowBegin(r, b)
      BY <2>3, OperationBeginStep DEF NoShowBegin, TripOps
    <2> QED BY <1>2, <2>1, <2>2, <2>3
  <1>3. ASSUME NEW override \in BOOLEAN, StartBegin(r, override) PROVE OpStep
    <2>1. tripStatus \in {"BOARDING", "IN_PROGRESS"}
      BY <1>3, TripTable DEF StartBegin, MayTransition
    <2>2. CASE override
      <3>1. BeginOp(r, "start", NoBooking, "NONE", Bookings)
        BY <1>3, <2>2 DEF StartBegin
      <3> QED BY <2>1, <3>1, OperationBeginStep DEF TripOps
    <2>3. CASE ~override
      <3>1. BeginOp(r, "start", NoBooking, "NONE", {}) /\ Boarded \subseteq pinVerified
        BY <1>3, <2>3 DEF StartBegin, PassengersResolved
      <3> QED BY <2>1, <3>1, OperationBeginStep DEF TripOps
    <2> QED BY <2>2, <2>3
  <1>4. CASE CompleteBegin(r)
    <2>1. /\ BeginOp(r, "complete", NoBooking, "NONE", {})
          /\ tripStatus \in {"IN_PROGRESS", "COMPLETED"}
      BY <1>4, TripTable DEF CompleteBegin, MayTransition
    <2> QED BY <2>1, OperationBeginStep DEF TripOps
  <1>5. ASSUME NEW actor \in {"DRIVER", "ADMIN"}, CancelTripBegin(r, actor) PROVE OpStep
    <2>1. /\ BeginOp(r, "cancelTrip", NoBooking, CancelledBy(actor), {})
          /\ CancelledBy(actor) \in CancelledStatuses
      BY <1>5 DEF CancelTripBegin, CancelledBy, CancelledStatuses
    <2> QED BY <2>1, OperationBeginStep DEF TripOps
  <1>6. CASE NoShowDriverBegin(r)
    BY <1>6, OperationBeginStep DEF NoShowDriverBegin, TripOps
  <1> QED BY <1>1, <1>2, <1>3, <1>4, <1>5, <1>6, BoardingStep, TravelStep, CancelTripStep
         DEF TripOperation

(* The worker that expires stale trips, and the parcels.                   *)
LEMMA OtherTripStep ==
    ASSUME OneAtATime, AloneInv,
           \/ WorkerFindsStaleTrip \/ WorkerExpiresTrip
           \/ \E p \in Parcels : ParcelStep(p)
    PROVE  OpStep
  <1>1. ~WorkerFindsStaleTrip
    BY DEF OneAtATime, TripOps, WorkerFindsStaleTrip
  <1>2. CASE WorkerExpiresTrip
    <2>1. /\ MayRun /\ StaleTrip /\ tripStatus' = "EXPIRED" /\ tripVersion' = tripVersion + 1
          /\ staleTrip' = FALSE
          /\ UNCHANGED <<rows, tx, pinVerified, overridden, parcel, operations>>
      BY <1>2 DEF WorkerExpiresTrip, AloneInv, TripTyped
    <2>2. Serial'
      BY <2>1, AloneStep DEF AloneInv
    <2>3. UNCHANGED <<seat, hold, booking, bookingSeat, pinVerified, overridden>>
      BY <2>1 DEF rows
    <2>4. RowsInv' /\ (SeatMapRight => SeatMapRight') /\ (Closed => Closed')
      BY <2>3 DEF AloneInv, RowsInv, RowsTyped, RowsFollow, OneOwner, Verified, SeatMapRight, Closed
    <2>5. TripTyped'
      BY <2>1 DEF AloneInv, TripTyped, TripStatuses
    <2>6. tripStatus \in {"PUBLISHED", "BOOKING_OPEN"} /\ departed
      BY <2>1, TripTable DEF StaleTrip
    <2> QED BY <2>1, <2>2, <2>3, <2>4, <2>5, <2>6 DEF OpStep, HoldsAskedFor, VehicleInUse
  <1>3. ASSUME NEW p \in Parcels, ParcelStep(p) PROVE OpStep
    <2>1. /\ MayRun /\ UNCHANGED <<tx, readVars>>
          /\ UNCHANGED <<overridden, staleTrip, operations, tripVersion>>
      BY <1>3 DEF ParcelStep, vars, tripVars, rows, readVars
    <2>2. parcel' \in [Parcels -> ParcelStatuses]
      <3>1. CASE CreateParcel(p)
        BY <3>1 DEF CreateParcel, AloneInv, TripTyped, ParcelStatuses
      <3>2. CASE ParcelRoute(p)
        BY <3>2, ParcelsTyped DEF ParcelRoute, AloneInv, TripTyped
      <3>3. CASE WorkerExpiresParcel(p)
        BY <3>3 DEF WorkerExpiresParcel, AloneInv, TripTyped, ParcelStatuses
      <3> QED BY <1>3, <3>1, <3>2, <3>3 DEF ParcelStep
    <2>3. Serial'
      BY <2>1, AloneStep DEF AloneInv
    <2>4. TripTyped'
      BY <2>1, <2>2 DEF AloneInv, TripTyped, readVars
    <2>5. RowsInv' /\ (SeatMapRight => SeatMapRight') /\ (Closed => Closed') /\ UNCHANGED tripStatus
      BY <2>1 DEF AloneInv, RowsInv, RowsTyped, RowsFollow, OneOwner, Verified, SeatMapRight,
                  Closed, readVars
    <2>6. HoldsAskedFor
      BY <2>1 DEF HoldsAskedFor, readVars
    <2> QED BY <2>3, <2>4, <2>5, <2>6 DEF OpStep
  <1> QED BY <1>1, <1>2, <1>3

(* A step of the booking routes.                                           *)
LEMMA BookingOpStep ==
    ASSUME OneAtATime, AloneInv, Bookable => SeatMapRight, BookingStep
    PROVE  OpStep
  <1>1. Rest /\ Next
    BY DEF BookingStep, BookingWrites, Rest
  <1>2. ASSUME NEW r \in Requests, Request(r) PROVE OpStep
    <2>1. ASSUME NEW b \in Bookings, NEW S \in SUBSET Seats, HoldBegin(r, b, S) PROVE OpStep
      <3>1. SeatMapRight
        BY <2>1 DEF HoldBegin
      <3> QED BY <1>1, <2>1, <3>1, HoldBeginStep
    <2>2. ASSUME NEW b \in Bookings, ConfirmBegin(r, b) \/ ReleaseBegin(r, b) PROVE OpStep
      BY <1>1, <2>2, BookingBeginStep
    <2>3. ASSUME NEW b \in Bookings, NEW actor \in Actors, CancelBegin(r, b, actor) PROVE OpStep
      BY <1>1, <2>3, BookingBeginStep
    <2>4. CASE Finish(r)
      BY <1>1, <2>4, BookingFinishStep
    <2> QED BY <1>2, <2>1, <2>2, <2>3, <2>4 DEF Request
  <1> QED BY <1>1, <1>2, BookingOtherStep DEF Next

-----------------------------------------------------------------------------
(* The trip that is edited, published, blocked and cancelled as well, one  *)
(* transaction at a time.                                                  *)

SuppliedAlone == SupplyOps \subseteq Isolated

\* What a request relies on when it writes: of the supply routes what they read
\* of the trip, of POST /bookings/holds that the trip was never cancelled.
SupplyRead(t) ==
    /\ t.op = "edit" => tripStatus \in {"DRAFT", "UNPUBLISHED"}
    /\ t.op = "publish" => tripVehicle = "APPROVED" /\ tripStatus # "EXPIRED"
    /\ t.op = "unpublish" => tripStatus = "PUBLISHED"
    /\ t.op = "unblock" => tripStatus = "BLOCKED" /\ t.to \in {"UNPUBLISHED", "DRAFT"}
    /\ t.op = "archive" => tripStatus \notin VehicleInUse
    /\ t.op = "hold" => ~cancelled

FlagsTyped ==
    /\ {published, blocked, cancelled, started, calledOff} \subseteq BOOLEAN
    /\ tripVehicle \in {"APPROVED", "SUSPENDED", "ARCHIVED"}

\* What the trip remembers of its end.
EndKept ==
    /\ tripStatus = "CANCELLED" => cancelled
    /\ tripStatus = "EXPIRED" => departed
    /\ calledOff => cancelled /\ Closed

SupplyInv ==
    /\ AloneInv
    /\ FlagsTyped
    /\ ~cancelled => SeatMapRight
    /\ EndKept
    /\ \A r \in Requests : SupplyRead(tx[r])
    /\ ArchivedVehicleIsIdle

LEMMA NoBookingsAlone ==
    ASSUME NoBookings, NoOperations, tripStatus \in TripStatuses
    PROVE  AloneInv /\ SeatMapRight
  <1>1. TripTyped
    BY DEF TripTyped, NoOperations, ParcelStatuses
  <1>2. RowsInv
    BY DEF NoBookings, NoOperations, RowsInv, RowsTyped, RowsFollow, OneOwner, Verified, SeatStatuses,
           HoldStatuses, BookingStatuses, BookingSeatStatuses, Owning
  <1>3. Serial
    BY DEF NoBookings, Serial, TxOK
  <1>4. SeatMapRight
    BY DEF NoBookings, SeatMapRight, Owning
  <1> QED BY <1>1, <1>2, <1>3, <1>4 DEF AloneInv

LEMMA SupplyStart == SupplyInit => SupplyInv
  <1> SUFFICES ASSUME SupplyInit PROVE SupplyInv
    OBVIOUS
  <1>1. AloneInv /\ SeatMapRight
    BY NoBookingsAlone DEF SupplyInit, CreateTrip, TripStatuses
  <1>2. \A r \in Requests : SupplyRead(tx[r])
    BY DEF SupplyInit, NoBookings, SupplyRead, Idle
  <1> QED BY <1>1, <1>2 DEF SupplyInit, CreateTrip, SupplyInv, FlagsTyped, EndKept, ArchivedVehicleIsIdle

(* Neither a supply request nor one for a hold is in flight after a step   *)
(* of the trip operations.                                                 *)
LEMMA TripLeavesSupply ==
    ASSUME OneAtATime, Serial, NEW r \in Requests, TripOperation(r)
    PROVE  \A q \in Requests : tx'[q].op \notin SupplyOps \cup {"hold"}
  <1>1. ASSUME NEW op \in TripOps, NEW b, NEW to, NEW bs, BeginOp(r, op, b, to, bs)
        PROVE  \A q \in Requests : tx'[q].op \notin SupplyOps \cup {"hold"}
    <2>1. PICK t : t = TripTx(op, b, to, bs)
      OBVIOUS
    <2>2. t.op = op /\ tx' = [tx EXCEPT ![r] = t] /\ MayBegin(r, op)
      BY <1>1, <2>1 DEF TripTx, BeginOp, Begin
    <2>3. \A q \in Requests : tx[q] = Idle
      BY <1>1, <2>2 DEF MayBegin, OneAtATime
    <2>4. \A q \in Requests : tx'[q] = IF q = r THEN t ELSE tx[q]
      BY <2>2, OneRequest DEF Serial
    <2> QED BY <2>2, <2>3, <2>4 DEF Idle, TripOps, SupplyOps
  <1>2. ASSUME NEW op \in TripOps, EndOp(r, op)
        PROVE  \A q \in Requests : tx'[q].op \notin SupplyOps \cup {"hold"}
    <2>1. tx[r] # Idle /\ tx' = [tx EXCEPT ![r] = Idle]
      BY <1>2 DEF EndOp, End, Idle, TripOps
    <2>2. \A q \in Requests : tx'[q] = IF q = r THEN Idle ELSE tx[q]
      BY <2>1, OneRequest DEF Serial
    <2>3. \A q \in Requests : tx'[q] = Idle
      BY <2>1, <2>2 DEF Serial
    <2> QED BY <2>3 DEF Idle, SupplyOps
  <1>3. ASSUME NEW b \in Bookings, BoardBegin(r, b) \/ VerifyPinBegin(r, b) \/ NoShowBegin(r, b)
        PROVE  \A q \in Requests : tx'[q].op \notin SupplyOps \cup {"hold"}
    BY <1>1, <1>3 DEF BoardBegin, VerifyPinBegin, NoShowBegin, TripOps
  <1>4. CASE StartBoardingBegin(r) \/ CompleteBegin(r) \/ NoShowDriverBegin(r)
    BY <1>1, <1>4 DEF StartBoardingBegin, CompleteBegin, NoShowDriverBegin, TripOps
  <1>5. ASSUME NEW override \in BOOLEAN, StartBegin(r, override)
        PROVE  \A q \in Requests : tx'[q].op \notin SupplyOps \cup {"hold"}
    BY <1>1, <1>5 DEF StartBegin, TripOps
  <1>6. ASSUME NEW actor \in {"DRIVER", "ADMIN"}, CancelTripBegin(r, actor)
        PROVE  \A q \in Requests : tx'[q].op \notin SupplyOps \cup {"hold"}
    BY <1>1, <1>6 DEF CancelTripBegin, TripOps
  <1>7. CASE StartBoardingCommit(r) \/ BoardCommit(r) \/ VerifyPinCommit(r) \/ NoShowCommit(r)
    BY <1>2, <1>7 DEF StartBoardingCommit, BoardCommit, VerifyPinCommit, NoShowCommit, TripOps
  <1>8. CASE StartCommit(r) \/ CompleteCommit(r) \/ CancelTripCommit(r) \/ NoShowDriverCommit(r)
    BY <1>2, <1>8 DEF StartCommit, CompleteCommit, CancelTripCommit, NoShowDriverCommit, TripOps
  <1> QED BY <1>3, <1>4, <1>5, <1>6, <1>7, <1>8 DEF TripOperation

(* A departure that has passed has passed, unless the trip is edited.      *)
LEMMA TripKeepsDeparture ==
    ASSUME TripStep, departed
    PROVE  departed'
  <1>1. CASE BookingStep
    <2>1. CASE \E r \in Requests : Request(r)
      BY <2>1 DEF Request, HoldBegin, ConfirmBegin, ReleaseBegin, CancelBegin, Finish, HoldCommit,
            ConfirmCommit, ReleaseCommit, CancelCommit, Abort, tripVars
    <2>2. CASE ListSeats \/ (\E b \in Bookings : HoldReplay(b)) \/ Worker \/ Environment
      BY <2>2 DEF ListSeats, HoldReplay, Worker, WorkerScan, WorkerExpire, WorkerCrash, Environment,
            LockTtlElapses, DeparturePasses, HoldTtlElapses, tripVars
    <2> QED BY <1>1, <2>1, <2>2 DEF BookingStep, BookingWrites, Next
  <1>2. CASE \E r \in Requests : TripOperation(r)
    BY <1>2 DEF TripOperation, StartBoardingBegin, StartBoardingCommit, BoardBegin, VerifyPinBegin,
          NoShowBegin, BoardCommit, VerifyPinCommit, NoShowCommit, StartBegin, StartCommit,
          CompleteBegin, CompleteCommit, CancelTripBegin, CancelTripCommit, NoShowDriverBegin,
          NoShowDriverCommit, BeginOp, EndOp, tripVars
  <1>3. CASE WorkerFindsStaleTrip \/ WorkerExpiresTrip \/ \E p \in Parcels : ParcelStep(p)
    BY <1>3 DEF WorkerFindsStaleTrip, WorkerExpiresTrip, ParcelStep, vars, tripVars
  <1> QED BY <1>1, <1>2, <1>3, TripStepCases

(* A step of the trip is one of the booking routes, of the operations or   *)
(* of the worker, on a seat map that is right if the trip takes bookings.  *)
LEMMA TripStepIsOp ==
    ASSUME OneAtATime, SupplyInv, TripStep
    PROVE  OpStep
  <1>1. CASE OnSale /\ BookingStep
    BY <1>1, BookingOpStep DEF OnSale, SupplyInv
  <1>2. CASE BookingWrites(OffSaleStep)
    <2>1. Rest /\ OffSaleStep
      BY <1>2 DEF BookingWrites, Rest
    <2>2. ASSUME NEW r \in Requests, NEW b \in Bookings, ConfirmBegin(r, b) \/ ReleaseBegin(r, b)
          PROVE  OpStep
      BY <2>1, <2>2, BookingBeginStep DEF SupplyInv
    <2>3. ASSUME NEW r \in Requests, NEW b \in Bookings, NEW actor \in Actors, CancelBegin(r, b, actor)
          PROVE  OpStep
      BY <2>1, <2>3, BookingBeginStep DEF SupplyInv
    <2>4. ASSUME NEW r \in Requests, Finish(r) PROVE OpStep
      BY <2>1, <2>4, BookingFinishStep DEF SupplyInv
    <2>5. CASE (\E b \in Bookings : HoldReplay(b)) \/ Worker \/ Environment
      BY <2>1, <2>5, BookingOtherStep DEF SupplyInv
    <2> QED BY <2>1, <2>2, <2>3, <2>4, <2>5 DEF OffSaleStep
  <1> QED BY <1>1, <1>2, OperationStep, OtherTripStep DEF TripStep, SupplyInv

(* What the requests in flight rely on stays so.                           *)
LEMMA TripKeepsReads ==
    ASSUME OneAtATime, SupplyInv, TripStep, NEW q \in Requests
    PROVE  SupplyRead(tx[q])'
  <1>1. PICK t : t = tx'[q]
    OBVIOUS
  <1>2. \/ t.op \notin SupplyOps \cup {"hold"}
        \/ t = tx[q] /\ UNCHANGED tripStatus
        \/ t.op = "hold" /\ OnSale /\ UNCHANGED tripStatus
    <2>1. CASE OnSale /\ BookingStep
      BY <1>1, <2>1, BookingLeavesTrip
         DEF BookingStep, BookingWrites, SupplyInv, AloneInv, Serial, BookingOps, SupplyOps
    <2>2. CASE BookingWrites(OffSaleStep)
      BY <1>1, <2>2, OffSaleLeavesTrip
         DEF BookingWrites, SupplyInv, AloneInv, Serial, BookingOps, SupplyOps
    <2>3. CASE \E r \in Requests : TripOperation(r)
      BY <1>1, <2>3, TripLeavesSupply DEF SupplyInv, AloneInv
    <2>4. CASE WorkerFindsStaleTrip
      BY <2>4 DEF OneAtATime, TripOps, WorkerFindsStaleTrip
    <2>5. CASE WorkerExpiresTrip \/ \E p \in Parcels : ParcelStep(p)
      <3>1. tx'[q] = Idle
        BY <2>5, RunsAlone DEF WorkerExpiresTrip, ParcelStep, vars, SupplyInv, AloneInv
      <3> QED BY <1>1, <3>1 DEF Idle, SupplyOps
    <2> QED BY <2>1, <2>2, <2>3, <2>4, <2>5 DEF TripStep
  <1>3. UNCHANGED tripStatus => UNCHANGED cancelled
    BY DEF TripStep, SupplyInv, FlagsTyped, EndKept
  <1>4. SupplyRead(t)'
    <2>1. CASE t.op \notin SupplyOps \cup {"hold"}
      BY <2>1 DEF SupplyRead, SupplyOps
    <2>2. CASE t = tx[q] /\ UNCHANGED tripStatus
      <3>1. SupplyRead(t)
        BY <2>2, Zenon DEF SupplyInv
      <3> QED BY <1>3, <2>2, <3>1 DEF SupplyRead, TripStep
    <2>3. CASE t.op = "hold" /\ OnSale /\ UNCHANGED tripStatus
      BY <1>3, <2>3 DEF SupplyRead, OnSale
    <2> QED BY <1>2, <2>1, <2>2, <2>3
  <1> QED BY <1>1, <1>4, Zenon DEF SupplyRead

(* The booking routes, the trip operations and the worker.                 *)
LEMMA TripStepKeeps ==
    ASSUME OneAtATime, SupplyInv, TripStep
    PROVE  SupplyInv'
  <1>1. OpStep
    BY TripStepIsOp
  <1>2. InFlight("hold") => ~cancelled
    BY DEF InFlight, SupplyInv, SupplyRead
  <1>3. calledOff' => calledOff \/ (Closed' /\ tripStatus' = "CANCELLED")
    BY CancelTripStep DEF TripStep, SupplyInv
  <1>4. AloneInv'
    BY <1>1 DEF OpStep, SupplyInv, AloneInv
  <1>5. (~cancelled => SeatMapRight)'
    BY <1>1 DEF OpStep, SupplyInv, FlagsTyped, TripStep
  <1>6. FlagsTyped'
    BY DEF TripStep, SupplyInv, FlagsTyped
  <1>7. EndKept'
    <2>1. cancelled' = (cancelled \/ tripStatus' = "CANCELLED")
      BY DEF TripStep
    <2>2. calledOff => Closed'
      BY <1>1, <1>2 DEF OpStep, SupplyInv, EndKept
    <2>3. tripStatus' = "EXPIRED" => departed
      BY <1>1 DEF OpStep, SupplyInv, EndKept
    <2>4. departed => departed'
      BY TripKeepsDeparture
    <2> QED BY <1>3, <2>1, <2>2, <2>3, <2>4 DEF SupplyInv, EndKept
  <1>8. ArchivedVehicleIsIdle'
    BY <1>1 DEF OpStep, SupplyInv, TripStep, ArchivedVehicleIsIdle, VehicleInUse
  <1> QED BY <1>4, <1>5, <1>6, <1>7, <1>8, TripKeepsReads DEF SupplyInv

(* A supply request begins: it is alone and has just read the trip.        *)
LEMMA SupplyBegins ==
    ASSUME SuppliedAlone, SupplyInv, NEW r \in Requests, NEW op \in SupplyOps, BeginSupply(r, op),
           op = "edit" => tripStatus \in {"DRAFT", "UNPUBLISHED"},
           op = "publish" => tripVehicle = "APPROVED" /\ tripStatus # "EXPIRED",
           op = "unpublish" => tripStatus = "PUBLISHED",
           op = "unblock" => tripStatus = "BLOCKED",
           op = "archive" => tripStatus \notin VehicleInUse
    PROVE  SupplyInv'
  <1>1. PICK t : t = TripTx(op, NoBooking, IF published THEN "UNPUBLISHED" ELSE "DRAFT", {})
    OBVIOUS
  <1>2. t.op = op /\ t.to \in {"UNPUBLISHED", "DRAFT"} /\ t.op # "idle" /\ t.op # "hold"
    BY <1>1 DEF TripTx, SupplyOps
  <1>3. op \in Isolated /\ MayBegin(r, op) /\ tx' = [tx EXCEPT ![r] = t]
    BY <1>1 DEF BeginSupply, Begin, SuppliedAlone
  <1>4. Rest /\ UNCHANGED readVars /\ UNCHANGED supplyVars /\ UNCHANGED departed
    BY DEF BeginSupply, readVars, tripVars, rows, opVars, Rest
  <1>5. Reading(t)
    BY <1>2, <1>3 DEF Reading, TripOps, SupplyOps
  <1>6. OpStep
    BY <1>2, <1>3, <1>4, <1>5, OpBegins DEF SupplyInv
  <1>7. ASSUME NEW q \in Requests PROVE SupplyRead(tx[q])'
    <2>1. PICK u : u = tx'[q]
      OBVIOUS
    <2>2. u = t \/ u = tx[q]
      BY <1>3, <2>1, OneRequest DEF SupplyInv, AloneInv, Serial
    <2>3. SupplyRead(t)
      BY <1>2 DEF SupplyRead
    <2>4. SupplyRead(u)
      <3>1. CASE u = t
        BY <2>3, <3>1, Zenon
      <3>2. CASE u = tx[q]
        BY <3>2, Zenon DEF SupplyInv
      <3> QED BY <2>2, <3>1, <3>2
    <2>5. SupplyRead(u)'
      BY <1>4, <2>4 DEF SupplyRead, supplyVars, readVars
    <2> QED BY <2>1, <2>5, Zenon DEF SupplyRead
  <1>8. UNCHANGED <<supplyVars, tripStatus, departed>> /\ (SeatMapRight => SeatMapRight') /\ (Closed => Closed')
    BY <1>4 DEF readVars, SeatMapRight, Closed
  <1>9. AloneInv'
    BY <1>4, <1>6 DEF OpStep, SupplyInv, AloneInv, readVars, SeatMapRight, Closed
  <1> QED BY <1>7, <1>8, <1>9 DEF SupplyInv, FlagsTyped, EndKept, supplyVars, ArchivedVehicleIsIdle

(* A supply request ends: the rows of the bookings and seats stay.         *)
LEMMA SupplyEnds ==
    ASSUME SupplyInv, NEW r \in Requests, tx[r] # Idle, End(r),
           UNCHANGED <<seat, hold, booking, bookingSeat, pinVerified, overridden, staleTrip, parcel,
                       operations, calledOff>>,
           tripStatus' \in TripStatuses, tripVersion' \in {tripVersion, tripVersion + 1},
           FlagsTyped', cancelled => cancelled', tripStatus' = "CANCELLED" => cancelled',
           tripStatus' = "EXPIRED" => departed',
           ArchivedVehicleIsIdle'
    PROVE  SupplyInv'
  <1>1. tx' = [tx EXCEPT ![r] = Idle]
    BY DEF End
  <1>2. Serial'
    BY <1>1, EndsAlone DEF SupplyInv, AloneInv
  <1>3. TripTyped'
    BY DEF SupplyInv, AloneInv, TripTyped
  <1>4. RowsInv' /\ (SeatMapRight => SeatMapRight') /\ (Closed => Closed')
    BY DEF SupplyInv, AloneInv, RowsInv, RowsTyped, RowsFollow, OneOwner, Verified, SeatMapRight, Closed
  <1>5. \A q \in Requests : tx'[q] = IF q = r THEN Idle ELSE tx[q]
    BY <1>1, OneRequest DEF SupplyInv, AloneInv, Serial
  <1>6. \A q \in Requests : tx'[q] = Idle
    BY <1>5 DEF SupplyInv, AloneInv, Serial
  <1>7. \A q \in Requests : SupplyRead(tx[q])'
    BY <1>6 DEF SupplyRead, Idle
  <1>8. EndKept'
    BY <1>4 DEF SupplyInv, EndKept
  <1> QED BY <1>2, <1>3, <1>4, <1>7, <1>8 DEF SupplyInv, AloneInv, FlagsTyped

(* How a step of a supply route moves the trip on.                         *)
SupplyMove ==
    /\ UNCHANGED hold
    /\ tripStatus = "CANCELLED" => tripStatus' = "CANCELLED" \/ Committing({"publish", "block"})
    /\ tripStatus = "EXPIRED" => tripStatus' \in {"EXPIRED", "CANCELLED"} \/ Committing({"block"})

LEMMA SupplyStepKeeps ==
    ASSUME SuppliedAlone, SupplyInv, NEW r \in Requests, SupplyStep(r)
    PROVE  SupplyInv' /\ SupplyMove
  <1>1. CASE EditBegin(r) \/ PublishBegin(r) \/ UnpublishBegin(r) \/ SupplyCancelBegin(r)
             \/ BlockBegin(r) \/ UnblockBegin(r) \/ ArchiveTripVehicleBegin(r)
    <2>1. ASSUME NEW op, BeginSupply(r, op) PROVE SupplyMove
      BY <2>1 DEF BeginSupply, tripVars, rows, SupplyMove
    <2>2. canPublish => tripVehicle = "APPROVED" /\ tripStatus # "EXPIRED"
      BY DEF canPublish, SupplyInv, EndKept
    <2>3. SupplyInv'
      BY <1>1, <2>2, SupplyBegins DEF EditBegin, PublishBegin, UnpublishBegin, SupplyCancelBegin,
            BlockBegin, UnblockBegin, ArchiveTripVehicleBegin, SupplyOps
    <2> QED BY <1>1, <2>1, <2>3 DEF EditBegin, PublishBegin, UnpublishBegin, SupplyCancelBegin,
          BlockBegin, UnblockBegin, ArchiveTripVehicleBegin
  <1>2. tripStatus \in TripStatuses /\ SupplyRead(tx[r]) /\ FlagsTyped /\ EndKept /\ TxOK
    BY DEF SupplyInv, AloneInv, TripTyped, Serial
  <1>3. ASSUME NEW op \in SupplyOps, NEW status \in TripStatuses, EndSupply(r, op, status),
               UNCHANGED seat, published' \in BOOLEAN, blocked' \in BOOLEAN,
               status # "EXPIRED",
               status \in VehicleInUse => (tripStatus \in VehicleInUse \/ tripVehicle = "APPROVED")
        PROVE  SupplyInv'
    <2>1. /\ tx[r] # Idle /\ End(r) /\ tripStatus' = status /\ tripVersion' = tripVersion + 1
          /\ UNCHANGED <<seat, hold, booking, bookingSeat, pinVerified, overridden, staleTrip, parcel,
                         operations, tripVehicle, started, calledOff>>
          /\ cancelled' = (cancelled \/ status = "CANCELLED")
      BY <1>3 DEF EndSupply, Idle, SupplyOps
    <2>2. ArchivedVehicleIsIdle'
      BY <1>3, <2>1 DEF SupplyInv, ArchivedVehicleIsIdle, VehicleInUse
    <2>3. FlagsTyped'
      BY <1>2, <1>3, <2>1 DEF FlagsTyped
    <2>4. (cancelled => cancelled') /\ (tripStatus' = "CANCELLED" => cancelled')
      BY <2>1
    <2>5. /\ UNCHANGED <<seat, hold, booking, bookingSeat, pinVerified, overridden, staleTrip, parcel,
                         operations, calledOff>>
          /\ tripStatus' \in TripStatuses /\ tripVersion' \in {tripVersion, tripVersion + 1}
          /\ tripStatus' = "EXPIRED" => departed'
      BY <1>3, <2>1
    <2> QED BY <2>1, <2>2, <2>3, <2>4, <2>5, SupplyEnds, Zenon
  <1>4. ASSUME NEW op, NEW status, EndSupply(r, op, status)
        PROVE  tx[r].op = op /\ UNCHANGED hold /\ tripStatus' = status /\ tx'[r] = Idle
    <2>1. tx[r].op = op /\ tx' = [tx EXCEPT ![r] = Idle] /\ UNCHANGED hold /\ tripStatus' = status
      BY <1>4 DEF EndSupply, End
    <2>2. \A q \in Requests : tx'[q] = IF q = r THEN Idle ELSE tx[q]
      BY <1>2, <2>1, OneRequest
    <2> QED BY <2>1, <2>2
  <1>5. CASE EditCommit(r)
    <2>1. EndSupply(r, "edit", tripStatus) /\ UNCHANGED <<seat, published, blocked>>
      BY <1>5 DEF EditCommit
    <2>2. tripStatus \in {"DRAFT", "UNPUBLISHED"}
      BY <1>2, <1>4, <2>1 DEF SupplyRead
    <2> QED BY <1>2, <1>3, <1>4, <2>1, <2>2 DEF FlagsTyped, SupplyOps, SupplyMove
  <1>6. CASE PublishCommit(r)
    <2>1. EndSupply(r, "publish", "PUBLISHED") /\ UNCHANGED <<seat, blocked>> /\ published' = TRUE
      BY <1>6 DEF PublishCommit, ensureTripSeats
    <2>2. tripVehicle = "APPROVED" /\ tripStatus # "EXPIRED"
      BY <1>2, <1>4, <2>1 DEF SupplyRead
    <2>3. SupplyMove
      BY <1>4, <2>1, <2>2 DEF SupplyMove, Committing
    <2> QED BY <1>2, <1>3, <2>1, <2>2, <2>3 DEF FlagsTyped, SupplyOps, TripStatuses
  <1>7. CASE UnpublishCommit(r)
    <2>1. EndSupply(r, "unpublish", "UNPUBLISHED") /\ UNCHANGED <<seat, published, blocked>>
      BY <1>7 DEF UnpublishCommit
    <2>2. tripStatus = "PUBLISHED"
      BY <1>2, <1>4, <2>1 DEF SupplyRead
    <2>3. SupplyMove
      BY <1>4, <2>1, <2>2 DEF SupplyMove
    <2> QED BY <1>2, <1>3, <2>1, <2>3 DEF FlagsTyped, SupplyOps, TripStatuses, VehicleInUse
  <1>8. CASE SupplyCancelCommit(r)
    <2>1. EndSupply(r, "supplyCancel", "CANCELLED") /\ UNCHANGED <<seat, published, blocked>>
      BY <1>8 DEF SupplyCancelCommit
    <2>2. SupplyMove
      BY <1>4, <2>1 DEF SupplyMove
    <2> QED BY <1>2, <1>3, <2>1, <2>2 DEF FlagsTyped, SupplyOps, TripStatuses, VehicleInUse
  <1>9. CASE BlockCommit(r)
    <2>1. EndSupply(r, "block", "BLOCKED") /\ UNCHANGED <<seat, published>> /\ blocked' = TRUE
      BY <1>9 DEF BlockCommit
    <2>2. SupplyMove
      BY <1>4, <2>1 DEF SupplyMove, Committing
    <2> QED BY <1>2, <1>3, <2>1, <2>2 DEF FlagsTyped, SupplyOps, TripStatuses, VehicleInUse
  <1>10. CASE UnblockCommit(r)
    <2>1. /\ EndSupply(r, "unblock", tx[r].to) /\ tx[r].op = "unblock"
          /\ UNCHANGED <<seat, published>> /\ blocked' = FALSE
      BY <1>10 DEF UnblockCommit, EndSupply
    <2>2. tx[r].to \in {"UNPUBLISHED", "DRAFT"} /\ tripStatus = "BLOCKED"
      BY <1>2, <2>1 DEF SupplyRead
    <2>3. SupplyMove
      BY <1>4, <2>1, <2>2 DEF SupplyMove
    <2> QED BY <1>2, <1>3, <2>1, <2>2, <2>3 DEF FlagsTyped, SupplyOps, TripStatuses, VehicleInUse
  <1>11. CASE ArchiveTripVehicleCommit(r)
    <2>1. /\ tx[r] # Idle /\ End(r) /\ tripStatus \notin VehicleInUse
          /\ UNCHANGED <<seat, hold, booking, bookingSeat, pinVerified, overridden, staleTrip, parcel,
                         operations, tripStatus, departed, tripVersion, published, blocked, cancelled,
                         started, calledOff>>
          /\ tripVehicle' = "ARCHIVED"
      BY <1>2, <1>11 DEF ArchiveTripVehicleCommit, SupplyRead, tripVars, rows, opVars, Idle
    <2>2. ArchivedVehicleIsIdle' /\ FlagsTyped' /\ SupplyMove
      BY <1>2, <2>1 DEF ArchivedVehicleIsIdle, VehicleInUse, FlagsTyped, SupplyMove
    <2>3. /\ tripStatus' = "CANCELLED" => cancelled'
          /\ tripStatus' = "EXPIRED" => departed'
      BY <1>2, <2>1 DEF EndKept
    <2> QED BY <1>2, <2>1, <2>2, <2>3, SupplyEnds
  <1> QED BY <1>1, <1>5, <1>6, <1>7, <1>8, <1>9, <1>10, <1>11 DEF SupplyStep

(* The vehicle is reviewed, or nothing happens.                            *)
LEMMA ReviewKeeps ==
    ASSUME SupplyInv, ReviewTripVehicle \/ UNCHANGED tripSupplyVars
    PROVE  SupplyInv' /\ SupplyMove
  <1>1. UNCHANGED <<vars, opVars, published, blocked, cancelled, started, calledOff>>
    BY DEF ReviewTripVehicle, tripSupplyVars, tripOpVars, supplyVars
  <1>2. /\ UNCHANGED <<tx, departed, readVars>>
        /\ UNCHANGED <<overridden, staleTrip, parcel, operations, tripVersion>>
    BY <1>1 DEF vars, opVars, tripVars, rows, readVars
  <1>3. Serial'
    BY <1>2, QuietStep DEF SupplyInv, AloneInv
  <1>4. OpStep
    BY <1>2, <1>3, QuietOpStep DEF SupplyInv
  <1>5. AloneInv' /\ (SeatMapRight => SeatMapRight') /\ (Closed => Closed')
    BY <1>2, <1>4 DEF OpStep, SupplyInv, AloneInv, readVars, SeatMapRight, Closed
  <1>6. ASSUME NEW q \in Requests PROVE SupplyRead(tx[q])'
    <2>1. CASE ReviewTripVehicle
      <3>1. tx'[q] = Idle
        BY <1>2, <2>1, RunsAlone DEF ReviewTripVehicle, SupplyInv, AloneInv
      <3> QED BY <3>1 DEF SupplyRead, Idle
    <2>2. CASE UNCHANGED tripSupplyVars
      BY <1>2, <2>2 DEF SupplyInv, SupplyRead, tripSupplyVars, supplyVars, readVars
    <2> QED BY <2>1, <2>2
  <1>7. ArchivedVehicleIsIdle'
    BY <1>2 DEF ReviewTripVehicle, tripSupplyVars, supplyVars, readVars, SupplyInv, ArchivedVehicleIsIdle
  <1>8. FlagsTyped'
    BY <1>1 DEF ReviewTripVehicle, tripSupplyVars, supplyVars, SupplyInv, FlagsTyped
  <1>9. EndKept' /\ SupplyMove
    BY <1>1, <1>2, <1>5 DEF readVars, SupplyInv, EndKept, SupplyMove
  <1> QED BY <1>1, <1>5, <1>6, <1>7, <1>8, <1>9 DEF SupplyInv

LEMMA SupplyInvariant ==
    ASSUME OneAtATime, SuppliedAlone
    PROVE  SupplySpec => []SupplyInv
  <1>1. SupplyInv /\ [SupplyNext]_tripSupplyVars => SupplyInv'
    BY TripStepKeeps, SupplyStepKeeps, ReviewKeeps DEF SupplyNext
  <1> QED BY <1>1, SupplyStart, PTL DEF SupplySpec

(* When the booking routes, the trip operations and the supply routes run  *)
(* one at a time, the seat map is what the bookings' rows say until the    *)
(* trip is cancelled.                                                      *)
THEOREM StateAgreesAlone ==
    ASSUME OneAtATime, SuppliedAlone
    PROVE  SupplySpec => []TripStateAgrees
  <1>1. SupplyInv => TripStateAgrees
    <2> SUFFICES ASSUME SupplyInv PROVE TripStateAgrees
      OBVIOUS
    <2>1. SupplyTypeOK
      BY DEF SupplyInv, AloneInv, TripTyped, RowsInv, RowsTyped, FlagsTyped, TripTypeOK, SupplyTypeOK
    <2>2. SeatMapRight => SeatMapAgrees
      <3> SUFFICES ASSUME SeatMapRight, NEW s \in Seats, NEW status \in {"HELD", "BOOKED", "OCCUPIED"}
                   PROVE  seat[s] = status <=> \E b \in Bookings : bookingSeat[b][s] = status
        BY DEF SeatMapAgrees
      <3> QED BY DEF SeatMapRight, Owning
    <2> QED BY <2>1, <2>2 DEF SupplyInv, TripStateAgrees, SeatMapAgrees
  <1> QED BY <1>1, SupplyInvariant, PTL

(* And nobody has a live booking on a trip that an operation called off,   *)
(* however the supply routes bring it back, nor travels unverified.        *)
THEOREM PassengersFollowAlone ==
    ASSUME OneAtATime, SuppliedAlone
    PROVE  SupplySpec => []PassengersFollowTrip
  <1>1. SupplyInv => PassengersFollowTrip
    <2> SUFFICES ASSUME SupplyInv PROVE PassengersFollowTrip
      OBVIOUS
    <2>1. calledOff => activeBookingWhere = {}
      BY DEF SupplyInv, EndKept, Closed, LiveStatuses, activeBookingWhere, InStatus
    <2>2. PassengersVerified
      BY DEF SupplyInv, AloneInv, RowsInv, Verified, PassengersVerified, InStatus, Boarded, SeatsOf
    <2> QED BY <2>1, <2>2 DEF PassengersFollowTrip
  <1> QED BY <1>1, SupplyInvariant, PTL

(* And a trip that has ended is not sold: only publication and blocking    *)
(* lead out of a cancelled trip, and never to a new hold.                  *)
THEOREM EndedTripIsNotSoldAlone ==
    ASSUME OneAtATime, SuppliedAlone
    PROVE  SupplySpec => EndedTripIsNotSold
  <1>1. ASSUME SupplyInv, [SupplyNext]_tripSupplyVars
        PROVE  /\ tripStatus = "CANCELLED" =>
                      tripStatus' = "CANCELLED" \/ Committing({"publish", "block"})
               /\ tripStatus = "EXPIRED" =>
                      tripStatus' \in {"EXPIRED", "CANCELLED"} \/ Committing({"block"})
               /\ cancelled => \A b \in Bookings : hold[b] = "NONE" => hold'[b] = "NONE"
    <2>1. CASE TripStep
      <3>1. InFlight("hold") => ~cancelled
        BY <1>1 DEF InFlight, SupplyInv, SupplyRead
      <3> QED BY <1>1, <2>1, <3>1, TripStepIsOp DEF OpStep, HoldsAskedFor
    <2>2. CASE (\E r \in Requests : SupplyStep(r)) \/ ReviewTripVehicle \/ UNCHANGED tripSupplyVars
      BY <1>1, <2>2, SupplyStepKeeps, ReviewKeeps DEF SupplyMove
    <2> QED BY <1>1, <2>1, <2>2 DEF SupplyNext
  <1>2. SupplyInv /\ [SupplyNext]_tripSupplyVars =>
            [/\ tripStatus = "CANCELLED" =>
                   tripStatus' = "CANCELLED" \/ Committing({"publish", "block"})
             /\ tripStatus = "EXPIRED" =>
                   tripStatus' \in {"EXPIRED", "CANCELLED"} \/ Committing({"block"})
             /\ cancelled => \A b \in Bookings : hold[b] = "NONE" => hold'[b] = "NONE"]_tripSupplyVars
    BY <1>1
  <1> QED BY <1>2, SupplyInvariant, PTL DEF SupplySpec, EndedTripIsNotSold

(* A passenger who was sold a seat keeps it whatever becomes of the offer, *)
(* and no vehicle is archived under a trip that is on sale or under way.   *)
THEOREM SupplyKeepsItsWord ==
    ASSUME OneAtATime, SuppliedAlone
    PROVE  SupplySpec => []SupplyKeepsPromises
  <1>1. SupplyInv => SupplyKeepsPromises
    <2> SUFFICES ASSUME SupplyInv PROVE SoldSeatsStayTaken
      BY DEF SupplyInv, SupplyKeepsPromises
    <2>1. CASE SeatMapRight
      <3> SUFFICES ASSUME NEW b \in activeBookingWhere, NEW s \in SeatsOf(b, {"BOOKED", "OCCUPIED"})
                   PROVE  seat[s] = bookingSeat[b][s]
        BY DEF SoldSeatsStayTaken
      <3>1. b \in Bookings /\ s \in Seats /\ bookingSeat[b][s] \in Owning
        BY DEF activeBookingWhere, InStatus, SeatsOf, Owning
      <3> QED BY <2>1, <3>1 DEF SeatMapRight
    <2>2. CASE Closed
      BY <2>2 DEF Closed, LiveStatuses, SoldSeatsStayTaken, activeBookingWhere, InStatus
    <2> QED BY <2>1, <2>2 DEF SupplyInv, AloneInv
  <1> QED BY <1>1, SupplyInvariant, PTL
=============================================================================
