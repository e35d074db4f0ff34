-------------------------------- MODULE Safety --------------------------------
(***************************************************************************)
(* Safety reports and what goes with them (apps/api/src/main.ts): a report *)
(* and its review by admins, the block a user puts on another, and a       *)
(* user's trusted contacts.  But for the creation of a report nothing runs *)
(* in a transaction: each route reads, and later writes by id.             *)
(***************************************************************************)
EXTENDS Naturals, FiniteSets

CONSTANTS
    MaxContacts,        \* the limit, 5 in the code
    BlockRows,          \* UserBlock rows of the pair of users
    SafetyRequests      \* requests that may be in flight together

ASSUME MaxContactsAssumption == MaxContacts \in Nat
ASSUME SafetyRequestsAssumption == IsFiniteSet(SafetyRequests) /\ SafetyRequests # {}

VARIABLES
    report,             \* status and resolvedAt of the SafetyReport with one key
    reports,            \* SafetyReport rows created with that key, and alerts
    blockRow,           \* the rows without removedAt
    contacts,           \* TrustedContact rows without deletedAt
    safetyTx,           \* what each request has read
    safetyAlone         \* assumption: no two requests overlap

safetyVars == <<report, reports, blockRow, contacts, safetyTx, safetyAlone>>

NoReport == [status |-> "NONE", resolved |-> FALSE]
NoSafetyTx == [op |-> "idle", row |-> NoReport, block |-> "NONE"]

SafetyInit ==
    /\ report = NoReport
    /\ reports = 0
    /\ blockRow = {}
    /\ contacts = 0
    /\ safetyTx = [r \in SafetyRequests |-> NoSafetyTx]
    /\ safetyAlone \in BOOLEAN

BeginSafety(r, op, row, block) ==
    /\ safetyTx[r].op = "idle"
    /\ safetyAlone => \A q \in SafetyRequests : safetyTx[q].op = "idle"
    /\ safetyTx' = [safetyTx EXCEPT ![r] = [op |-> op, row |-> row, block |-> block]]
    /\ UNCHANGED <<report, reports, blockRow, contacts, safetyAlone>>

EndSafety(r, op) ==
    /\ safetyTx[r].op = op
    /\ safetyTx' = [safetyTx EXCEPT ![r] = NoSafetyTx]
    /\ UNCHANGED safetyAlone

-----------------------------------------------------------------------------
(* POST /safety/reports, with ensureIdempotency: the report, its first     *)
(* event, its moderation case and the alert of a severe one.               *)
SafetyReportBegin(r) == report = NoReport /\ BeginSafety(r, "report", NoReport, "NONE")

\* The unique index on the scope and the key of IdempotencyRecord.
ReportUnused == reports = 0

ReportCreated(r) ==
    /\ EndSafety(r, "report") /\ ReportUnused
    /\ report' = [status |-> "SUBMITTED", resolved |-> FALSE]
    /\ reports' = reports + 1
    /\ UNCHANGED <<blockRow, contacts>>

safetyTransitionTargets ==
    [TRIAGE |-> "TRIAGED", START_REVIEW |-> "UNDER_REVIEW", REQUEST_ACTION |-> "ACTION_REQUIRED",
     RESOLVE |-> "RESOLVED", REJECT |-> "REJECTED", DUPLICATE |-> "DUPLICATE", CLOSE |-> "CLOSED"]

\* REOPEN is in the table, too, but the route never asks for it.
safetyAllowedTransitions ==
    [TRIAGE |-> {"SUBMITTED"},
     START_REVIEW |-> {"SUBMITTED", "TRIAGED", "ACTION_REQUIRED"},
     REQUEST_ACTION |-> {"TRIAGED", "UNDER_REVIEW"},
     RESOLVE |-> {"TRIAGED", "UNDER_REVIEW", "ACTION_REQUIRED"},
     REJECT |-> {"TRIAGED", "UNDER_REVIEW"},
     DUPLICATE |-> {"SUBMITTED", "TRIAGED", "UNDER_REVIEW"},
     CLOSE |-> {"RESOLVED", "REJECTED", "DUPLICATE"}]

\* evaluateSafetyTransition
MayMoveReport(s, a) == s = safetyTransitionTargets[a] \/ s \in safetyAllowedTransitions[a]

\* The statuses the route gives resolvedAt.  (mutant) a duplicate is forgotten
SettledUnlessDuplicate == {"RESOLVED", "REJECTED", "CLOSED"}
Settled == {"RESOLVED", "REJECTED", "DUPLICATE", "CLOSED"}

\* POST /admin/safety/reports/:reportId/status
StatusRead(r) == \E a \in DOMAIN safetyTransitionTargets :
    /\ MayMoveReport(report.status, a)
    /\ LET to == safetyTransitionTargets[a]
       IN  BeginSafety(r, "status",
               [status |-> to, resolved |-> to \in Settled \/ report.resolved], "NONE")

StatusWritten(r) ==
    /\ EndSafety(r, "status")
    /\ report' = safetyTx[r].row
    /\ UNCHANGED <<reports, blockRow, contacts>>

-----------------------------------------------------------------------------
(* POST and DELETE /users/:userId/block.  The unique index contains        *)
(* removedAt, which is null in the rows that matter, and never applies.    *)

\* (mutant) a block that exists is not looked for
BlockNotSought == TRUE
NotBlocked == blockRow = {}

BlockRead(r) == NotBlocked /\ BeginSafety(r, "block", NoReport, "NONE")

\* A row no request knows of stands for a new one.
BlockCreated(r) ==
    /\ EndSafety(r, "block")
    /\ \E b \in BlockRows \ blockRow :
           /\ \A q \in SafetyRequests : safetyTx[q].block # b
           /\ blockRow' = blockRow \cup {b}
    /\ UNCHANGED <<report, reports, contacts>>

UnblockRead(r) == \E b \in blockRow : BeginSafety(r, "unblock", NoReport, b)

BlockRemoved(r) ==
    /\ EndSafety(r, "unblock")
    /\ blockRow' = blockRow \ {safetyTx[r].block}
    /\ UNCHANGED <<report, reports, contacts>>

-----------------------------------------------------------------------------
(* POST and DELETE /trusted-contacts                                       *)

ContactsBelow == contacts < MaxContacts

ContactRead(r) == ContactsBelow /\ BeginSafety(r, "contact", NoReport, "NONE")

ContactCreated(r) ==
    /\ EndSafety(r, "contact")
    /\ contacts' = contacts + 1
    /\ UNCHANGED <<report, reports, blockRow>>

ContactDeleted ==
    /\ contacts > 0
    /\ contacts' = contacts - 1
    /\ UNCHANGED <<report, reports, blockRow, safetyTx, safetyAlone>>

SafetyRequestFails(r) ==
    /\ safetyTx[r].op # "idle"
    /\ safetyTx' = [safetyTx EXCEPT ![r] = NoSafetyTx]
    /\ UNCHANGED <<report, reports, blockRow, contacts, safetyAlone>>

SafetyStep(r) ==
    \/ SafetyReportBegin(r) \/ ReportCreated(r) \/ StatusRead(r) \/ StatusWritten(r)
    \/ BlockRead(r) \/ BlockCreated(r) \/ UnblockRead(r) \/ BlockRemoved(r)
    \/ ContactRead(r) \/ ContactCreated(r) \/ SafetyRequestFails(r)

SafetyNext == ContactDeleted \/ \E r \in SafetyRequests : SafetyStep(r)

SafetySpec == SafetyInit /\ [][SafetyNext]_safetyVars

-----------------------------------------------------------------------------
(* One report, one moderation case and one alert for one key, although the *)
(* report is sent again while the first request is in flight.              *)
ReportedOnce == reports <= 1

(* resolvedAt is set exactly while the report is settled: an overlapping   *)
(* decision may unsettle it, but then writes back the null it had read.    *)
ResolvedIfSettled == report.resolved <=> report.status \in {"RESOLVED", "REJECTED", "DUPLICATE", "CLOSED"}

(* Counting before creating exceeds the limit of contacts by no more than  *)
(* the other requests in flight, and not at all if there are none; and     *)
(* then there is one block at most, which one DELETE removes.              *)
LimitsKept ==
    /\ contacts < MaxContacts + Cardinality(SafetyRequests)
    /\ safetyAlone => contacts <= MaxContacts /\ Cardinality(blockRow) <= 1

(* What a user reports, blocks and stores is there once, within its limit, *)
(* and is settled exactly if it says so.                                   *)
SafetyRecordsHold == ReportedOnce /\ ResolvedIfSettled /\ LimitsKept
=============================================================================
