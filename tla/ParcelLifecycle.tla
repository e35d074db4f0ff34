-------------------------- MODULE ParcelLifecycle --------------------------
(***************************************************************************)
(* Parcel orders that travel with the trip: the transition table of        *)
(* packages/validation/src/index.ts and the routes of apps/api/src/main.ts *)
(* that apply it.  transitionParcel updates the row only if its version is *)
(* the one it read, so a route that commits changed the status it saw, and *)
(* a route is one step.  The secret codes that guard handover and delivery *)
(* are in OneTimeCodes; here a driver has the right code or does nothing.  *)
(***************************************************************************)
EXTENDS FiniteSets

CONSTANT Parcels

VARIABLE parcel     \* ParcelOrder.status by parcel, "NONE" before it exists

ParcelStatuses == {"NONE", "DRAFT", "CREATED", "PENDING_DRIVER_ACCEPTANCE", "ACCEPTED",
    "HANDED_TO_DRIVER", "IN_TRANSIT", "READY_FOR_PICKUP", "DELIVERED",
    "CANCELLED_BY_SENDER", "CANCELLED_BY_DRIVER", "CANCELLED_BY_ADMIN", "REJECTED",
    "LOST", "DAMAGED", "DISPUTED", "EXPIRED"}

parcelTransitionTargets ==
    [SUBMIT |-> "ACCEPTED", DRIVER_ACCEPT |-> "ACCEPTED", DRIVER_REJECT |-> "REJECTED",
     HANDOVER |-> "HANDED_TO_DRIVER", START_TRANSIT |-> "IN_TRANSIT",
     READY_FOR_PICKUP |-> "READY_FOR_PICKUP", DELIVER |-> "DELIVERED",
     CANCEL_SENDER |-> "CANCELLED_BY_SENDER", CANCEL_ADMIN |-> "CANCELLED_BY_ADMIN",
     MARK_LOST |-> "LOST", MARK_DAMAGED |-> "DAMAGED", DISPUTE |-> "DISPUTED"]

Carried == {"HANDED_TO_DRIVER", "IN_TRANSIT", "READY_FOR_PICKUP"}
Unaccepted == {"DRAFT", "CREATED", "PENDING_DRIVER_ACCEPTANCE"}

parcelAllowedTransitions ==
    [SUBMIT |-> {"DRAFT", "CREATED"},
     DRIVER_ACCEPT |-> {"PENDING_DRIVER_ACCEPTANCE"},
     DRIVER_REJECT |-> {"PENDING_DRIVER_ACCEPTANCE", "CREATED"},
     HANDOVER |-> {"ACCEPTED"},
     START_TRANSIT |-> {"HANDED_TO_DRIVER"},
     READY_FOR_PICKUP |-> {"IN_TRANSIT"},
     DELIVER |-> {"READY_FOR_PICKUP"},
     CANCEL_SENDER |-> Unaccepted \cup {"ACCEPTED"},
     CANCEL_ADMIN |-> Unaccepted \cup {"ACCEPTED"} \cup Carried,
     MARK_LOST |-> Carried,
     MARK_DAMAGED |-> Carried,
     DISPUTE |-> {"READY_FOR_PICKUP", "DELIVERED", "DAMAGED", "LOST"}]

\* transitionParcel for every parcel of P.  A parcel that already has the target
\* status is an idempotent success and stays as it is.
\* (mutant) the table is not consulted
TransitionUnchecked(P, action) ==
    parcel' = [p \in Parcels |-> IF p \in P THEN parcelTransitionTargets[action]
                                 ELSE parcel[p]]

TransitionParcels(P, action) ==
    /\ \A p \in P : parcel[p] \in parcelAllowedTransitions[action]
    /\ parcel' = [p \in Parcels |-> IF p \in P THEN parcelTransitionTargets[action]
                                    ELSE parcel[p]]

SenderActions == {"SUBMIT", "CANCEL_SENDER"}
DriverActions == {"DRIVER_ACCEPT", "DRIVER_REJECT", "HANDOVER", "READY_FOR_PICKUP", "DELIVER"}
AdminActions == {"CANCEL_ADMIN", "MARK_LOST", "MARK_DAMAGED", "DISPUTE"}

\* The parcels cancelActiveParcelsForTrip cancels.
ActiveParcels == {p \in Parcels : parcel[p] \in
    (Unaccepted \ {"DRAFT"}) \cup {"ACCEPTED"} \cup Carried}
=============================================================================
