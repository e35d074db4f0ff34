------------------------------ MODULE Vehicles ------------------------------
(***************************************************************************)
(* The vehicles of a driver: drafts, review, primary vehicle and archive   *)
(* (apps/api/src/main.ts), with the partial unique index on plates of the  *)
(* phase 3 migration.  A route reads the vehicle and later updates it by   *)
(* id; a decision may commit after the vehicle was archived.               *)
(***************************************************************************)
EXTENDS FiniteSets

CONSTANTS
    VehicleIds,         \* the vehicles the driver may create
    Plates,             \* normalized plates, those given to drafts included
    VehicleRequests     \* requests that may be in flight together

ASSUME PlatesAssumption == "NONE" \notin Plates

VARIABLES
    vehicle,            \* the row of each vehicle
    vehicleTx,          \* what each request has read
    vehiclesAlone       \* assumption: no two requests overlap

vehicleVars == <<vehicle, vehicleTx, vehiclesAlone>>

VehicleStatuses == {"DRAFT", "SUBMITTED", "UNDER_REVIEW", "CHANGES_REQUESTED",
                    "APPROVED", "REJECTED", "SUSPENDED", "ARCHIVED"}
NoPlate == "NONE"
NoVehicleTx == [op |-> "idle", id |-> "NONE", to |-> "NONE"]

\* complete: calculateVehicleCompletion finds nothing missing;
\* archived: archivedAt is set.  suspendedAt is left out: every update to APPROVED
\* clears it, and only the query for trips looks at it, together with the status.
NoVehicle == [status |-> "NONE", plate |-> NoPlate, complete |-> FALSE,
              primary |-> FALSE, archived |-> FALSE]

VehiclesInit ==
    /\ vehicle = [v \in VehicleIds |-> NoVehicle]
    /\ vehicleTx = [r \in VehicleRequests |-> NoVehicleTx]
    /\ vehiclesAlone \in BOOLEAN

isEditableVehicleStatus(s) == s \in {"DRAFT", "CHANGES_REQUESTED", "REJECTED"}

\* The unique index "Vehicle_active_normalizedPlate_key".
Indexed(v) == ~vehicle[v].archived /\ vehicle[v].status \notin {"NONE", "ARCHIVED"}

\* (mutant) nothing but the earlier query for duplicates keeps plates apart
PlateUnchecked(v, p) == TRUE
PlateFree(v, p) == \A w \in VehicleIds \ {v} : Indexed(w) => vehicle[w].plate # p

BeginVehicle(r, op, v, to) ==
    /\ vehicleTx[r].op = "idle"
    /\ vehiclesAlone => \A q \in VehicleRequests : vehicleTx[q].op = "idle"
    /\ vehicleTx' = [vehicleTx EXCEPT ![r] = [op |-> op, id |-> v, to |-> to]]
    /\ UNCHANGED <<vehicle, vehiclesAlone>>

EndVehicle(r, ops) ==
    /\ vehicleTx[r].op \in ops
    /\ vehicleTx' = [vehicleTx EXCEPT ![r] = NoVehicleTx]
    /\ UNCHANGED vehiclesAlone

-----------------------------------------------------------------------------
(* The driver's routes.                                                    *)

CreateVehicleBegin(r, v, p) ==
    /\ vehicle[v].status = "NONE" /\ PlateFree(v, p)
    /\ BeginVehicle(r, "create", v, p)

CreateVehicle(r) ==
    LET t == vehicleTx[r]
    IN  /\ EndVehicle(r, {"create"})
        /\ vehicle[t.id].status = "NONE" /\ PlateFree(t.id, t.to)
        /\ vehicle' = [vehicle EXCEPT ![t.id] = [NoVehicle EXCEPT !.status = "DRAFT", !.plate = t.to]]

\* PATCH: the details that are changed make the vehicle complete or not.
EditVehicleBegin(r, v, p) ==
    /\ isEditableVehicleStatus(vehicle[v].status)
    /\ p = vehicle[v].plate \/ PlateFree(v, p)
    /\ BeginVehicle(r, "edit", v, p)

EditVehicle(r) ==
    LET t == vehicleTx[r]
    IN  /\ EndVehicle(r, {"edit"})
        /\ Indexed(t.id) => PlateFree(t.id, t.to)
        /\ \E c \in BOOLEAN :
               vehicle' = [vehicle EXCEPT ![t.id].plate = t.to, ![t.id].complete = c]

\* Documents and photos that are added or removed make it complete or not.
AssetsBegin(r, v) ==
    /\ isEditableVehicleStatus(vehicle[v].status)
    /\ BeginVehicle(r, "assets", v, "NONE")

ChangeAssets(r) ==
    /\ EndVehicle(r, {"assets"})
    /\ \E c \in BOOLEAN : vehicle' = [vehicle EXCEPT ![vehicleTx[r].id].complete = c]

\* (mutant) an incomplete vehicle is submitted
EditableOnly(v) == isEditableVehicleStatus(vehicle[v].status)
Submittable(v) == isEditableVehicleStatus(vehicle[v].status) /\ vehicle[v].complete

\* The driver must be approved, too, which may come and go at any time.
SubmitBegin(r, v) ==
    /\ Submittable(v)
    /\ BeginVehicle(r, "submit", v, "SUBMITTED")

SubmitVehicle(r) ==
    /\ EndVehicle(r, {"submit"})
    /\ vehicle' = [vehicle EXCEPT ![vehicleTx[r].id].status = "SUBMITTED"]

SetPrimaryBegin(r, v) ==
    /\ vehicle[v].status = "APPROVED"
    /\ BeginVehicle(r, "setPrimary", v, "NONE")

SetPrimary(r) ==
    /\ EndVehicle(r, {"setPrimary"})
    /\ vehicle' = [v \in VehicleIds |-> [vehicle[v] EXCEPT !.primary = v = vehicleTx[r].id]]

\* Active trips, which stop the archive, are the subject of TripSupply.
ArchiveBegin(r, v) ==
    /\ vehicle[v].status # "NONE"
    /\ BeginVehicle(r, "archive", v, "ARCHIVED")

ArchiveVehicle(r) ==
    /\ EndVehicle(r, {"archive"})
    /\ vehicle' = [vehicle EXCEPT ![vehicleTx[r].id].status = "ARCHIVED",
                      ![vehicleTx[r].id].archived = TRUE, ![vehicleTx[r].id].primary = FALSE]

-----------------------------------------------------------------------------
(* adminVehicleDecision                                                    *)

VehicleActions ==
    [startReview |-> [from |-> {"SUBMITTED"}, to |-> "UNDER_REVIEW"],
     approve |-> [from |-> {"UNDER_REVIEW", "SUSPENDED"}, to |-> "APPROVED"],
     reject |-> [from |-> {"UNDER_REVIEW"}, to |-> "REJECTED"],
     requestChanges |-> [from |-> {"UNDER_REVIEW"}, to |-> "CHANGES_REQUESTED"],
     suspend |-> [from |-> {"APPROVED"}, to |-> "SUSPENDED"],
     restore |-> [from |-> {"SUSPENDED"}, to |-> "UNDER_REVIEW"]]

VehicleDecisionBegin(r, v) ==
    \E a \in DOMAIN VehicleActions :
        /\ vehicle[v].status \in VehicleActions[a].from
        /\ BeginVehicle(r, a, v, VehicleActions[a].to)

Decided(row, a) ==
    [row EXCEPT !.status = VehicleActions[a].to,
                !.primary = @ /\ a # "suspend"]

VehicleDecision(r) ==
    LET t == vehicleTx[r]
    IN  /\ EndVehicle(r, DOMAIN VehicleActions)
        /\ Indexed(t.id) => PlateFree(t.id, vehicle[t.id].plate)
        /\ vehicle' = [vehicle EXCEPT ![t.id] = Decided(@, t.op)]

\* Any exception; the unique index is one.
VehicleRequestFails(r) ==
    /\ EndVehicle(r, {vehicleTx[r].op} \ {"idle"})
    /\ UNCHANGED vehicle

VehicleBegins(r, v) ==
    \/ \E p \in Plates : CreateVehicleBegin(r, v, p) \/ EditVehicleBegin(r, v, p)
    \/ AssetsBegin(r, v) \/ SubmitBegin(r, v) \/ SetPrimaryBegin(r, v) \/ ArchiveBegin(r, v)
    \/ VehicleDecisionBegin(r, v)

VehiclesNext ==
    \/ \E r \in VehicleRequests, v \in VehicleIds : VehicleBegins(r, v)
    \/ \E r \in VehicleRequests :
           \/ CreateVehicle(r) \/ EditVehicle(r) \/ ChangeAssets(r)
           \/ SubmitVehicle(r) \/ SetPrimary(r) \/ ArchiveVehicle(r)
           \/ VehicleDecision(r) \/ VehicleRequestFails(r)

VehiclesSpec == VehiclesInit /\ [][VehiclesNext]_vehicleVars

-----------------------------------------------------------------------------
(* What a trip may be published with.                                      *)
Usable(v) == vehicle[v].status = "APPROVED" /\ ~vehicle[v].archived

(* Two vehicles a trip may be published with never have one plate, even    *)
(* though duplicates are looked for before the write, archived vehicles    *)
(* give their plate up, and a late decision overwrites the archive.        *)
UsablePlatesDiffer ==
    \A v, w \in VehicleIds : Usable(v) /\ Usable(w) /\ v # w => vehicle[v].plate # vehicle[w].plate

(* One vehicle at most is primary.  While requests do not overlap it is an *)
(* approved and complete one: suspending and archiving take the mark away, *)
(* and nothing is removed from a vehicle that was submitted.               *)
PrimaryIsUsable ==
    /\ \A v, w \in VehicleIds : vehicle[v].primary /\ vehicle[w].primary => v = w
    /\ vehiclesAlone => \A v \in VehicleIds :
           vehicle[v].primary => Usable(v) /\ vehicle[v].complete

(* While requests do not overlap, an archived vehicle stays archived, and  *)
(* its plate can be given to another vehicle for good.                     *)
ArchivedForGood == vehiclesAlone => \A v \in VehicleIds :
    vehicle[v].archived => vehicle[v].status = "ARCHIVED" /\ ~vehicle[v].primary

(* A trip is published with a vehicle that is one of a kind, reviewed and  *)
(* not archived, and the primary vehicle is such a one.                    *)
VehiclesAreVetted == UsablePlatesDiffer /\ PrimaryIsUsable /\ ArchivedForGood
=============================================================================
