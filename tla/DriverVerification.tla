------------------------- MODULE DriverVerification -------------------------
(***************************************************************************)
(* The application of one driver (DriverVerificationApplication) and the   *)
(* status it gives the driver's profile, which vehicles and trips look at  *)
(* (apps/api/src/main.ts).  Every route reads the application and later    *)
(* updates it by id.  An admin decides from a page loaded earlier and may  *)
(* send the version that page showed.                                      *)
(***************************************************************************)
EXTENDS FiniteSets

CONSTANTS
    ApplicationSections,    \* what calculateCompletion asks for
    VerificationRequests    \* requests that may be in flight together

ASSUME ApplicationSectionsAssumption == ApplicationSections # {}

VARIABLES
    application,        \* DriverVerificationApplication.status
    sections,           \* the sections that are complete
    verification,       \* DriverProfile.verificationStatus
    verificationTx,     \* what each request has read
    verificationAlone,  \* assumption: no two requests overlap
    approvedUnseen      \* history: an approval found something else than its page showed

verificationVars == <<application, sections, verification, verificationTx,
                      verificationAlone, approvedUnseen>>

ApplicationStatuses == {"DRAFT", "SUBMITTED", "UNDER_REVIEW", "CHANGES_REQUESTED",
                        "APPROVED", "REJECTED", "SUSPENDED", "WITHDRAWN"}

\* page: what the admin saw; fresh: Application.version is still the one seen;
\* sent: the decision names that version, which admin-web does not do
NoVerificationTx == [op |-> "idle", status |-> "DRAFT", page |-> {},
                     fresh |-> FALSE, sent |-> FALSE]

DriverVerificationInit ==
    /\ application = "DRAFT"
    /\ sections = {}
    /\ verification = "NOT_SUBMITTED"
    /\ verificationTx = [r \in VerificationRequests |-> NoVerificationTx]
    /\ verificationAlone \in BOOLEAN
    /\ approvedUnseen = FALSE

isEditableVerificationStatus(s) == s \in {"DRAFT", "CHANGES_REQUESTED"}
canSubmit(S) == S = ApplicationSections

verificationStatusForProfile(s) ==
    IF s \in {"APPROVED", "REJECTED", "SUSPENDED"} THEN s
    ELSE IF s \in {"DRAFT", "WITHDRAWN"} THEN "NOT_SUBMITTED" ELSE "PENDING"

\* The status each action leads to from the statuses that allow it.
VerificationActions ==
    [startReview |-> [from |-> {"SUBMITTED"}, to |-> "UNDER_REVIEW"],
     approve |-> [from |-> {"UNDER_REVIEW", "SUSPENDED"}, to |-> "APPROVED"],
     reject |-> [from |-> {"UNDER_REVIEW"}, to |-> "REJECTED"],
     requestChanges |-> [from |-> {"UNDER_REVIEW"}, to |-> "CHANGES_REQUESTED"],
     suspend |-> [from |-> {"APPROVED"}, to |-> "SUSPENDED"],
     restore |-> [from |-> {"SUSPENDED"}, to |-> "UNDER_REVIEW"]]

VerificationIdle(r) ==
    verificationAlone => \A q \in VerificationRequests \ {r} :
                             verificationTx[q].op \in {"idle", "page"}

ReadApplication(r, op) ==
    /\ VerificationIdle(r)
    /\ verificationTx' = [verificationTx EXCEPT ![r].op = op, ![r].status = application]
    /\ UNCHANGED <<application, sections, verification, verificationAlone, approvedUnseen>>

\* A write that increments the version makes every page stale.
VersionRaised(r) ==
    verificationTx' = [q \in VerificationRequests |->
        IF q = r THEN NoVerificationTx ELSE [verificationTx[q] EXCEPT !.fresh = FALSE]]
VersionKept(r) == verificationTx' = [verificationTx EXCEPT ![r] = NoVerificationTx]

-----------------------------------------------------------------------------
(* The driver's routes.                                                    *)

DriverBegins(r) ==
    /\ verificationTx[r].op = "idle"
    /\ \/ \E op \in {"edit", "upload", "delete"} :
              isEditableVerificationStatus(application) /\ ReadApplication(r, op)
       \/ /\ isEditableVerificationStatus(application) /\ canSubmit(sections)
          /\ ReadApplication(r, "submit")
       \/ application = "SUBMITTED" /\ ReadApplication(r, "withdraw")

\* PATCH overwrites all fields at once; a field left out becomes null.
EditApplication(r) ==
    /\ verificationTx[r].op = "edit"
    /\ VersionRaised(r)
    /\ sections' \in SUBSET ApplicationSections
    /\ UNCHANGED <<application, verification, verificationAlone, approvedUnseen>>

CompleteDocument(r) ==
    /\ verificationTx[r].op = "upload"
    /\ VersionKept(r)
    /\ \E s \in ApplicationSections : sections' = sections \cup {s}
    /\ UNCHANGED <<application, verification, verificationAlone, approvedUnseen>>

DeleteDocument(r) ==
    /\ verificationTx[r].op = "delete"
    /\ VersionKept(r)
    /\ \E s \in sections : sections' = sections \ {s}
    /\ UNCHANGED <<application, verification, verificationAlone, approvedUnseen>>

SubmitApplication(r) ==
    /\ verificationTx[r].op = "submit"
    /\ VersionRaised(r)
    /\ application' = "SUBMITTED"
    /\ verification' = "PENDING"
    /\ UNCHANGED <<sections, verificationAlone, approvedUnseen>>

WithdrawApplication(r) ==
    /\ verificationTx[r].op = "withdraw"
    /\ VersionRaised(r)
    /\ application' = "WITHDRAWN"
    /\ verification' = "NOT_SUBMITTED"
    /\ UNCHANGED <<sections, verificationAlone, approvedUnseen>>

-----------------------------------------------------------------------------
(* The admin's routes.                                                     *)

AdminOpensApplication(r) ==
    /\ verificationTx[r].op = "idle"
    /\ \E v \in BOOLEAN :
           verificationTx' = [verificationTx EXCEPT
               ![r] = [op |-> "page", status |-> application, page |-> sections,
                       fresh |-> TRUE, sent |-> v]]
    /\ UNCHANGED <<application, sections, verification, verificationAlone, approvedUnseen>>

\* (mutant) the version is not compared
AnyVersion(r) == TRUE
SameVersion(r) == verificationTx[r].sent => verificationTx[r].fresh

AdminDecisionBegin(r) ==
    /\ verificationTx[r].op = "page"
    /\ SameVersion(r)
    /\ \E a \in DOMAIN VerificationActions :
           application \in VerificationActions[a].from /\ ReadApplication(r, a)

AdminDecision(r) ==
    LET t == verificationTx[r]
    IN  /\ t.op \in DOMAIN VerificationActions
        /\ VersionRaised(r)
        /\ application' = VerificationActions[t.op].to
        /\ verification' = verificationStatusForProfile(VerificationActions[t.op].to)
        /\ approvedUnseen' = (approvedUnseen \/ (t.op = "approve" /\ t.sent /\ t.page # sections))
        /\ UNCHANGED <<sections, verificationAlone>>

VerificationFails(r) ==
    /\ verificationTx[r].op # "idle"
    /\ VersionKept(r)
    /\ UNCHANGED <<application, sections, verification, verificationAlone, approvedUnseen>>

DriverVerificationNext == \E r \in VerificationRequests :
    \/ DriverBegins(r) \/ EditApplication(r) \/ CompleteDocument(r) \/ DeleteDocument(r)
    \/ SubmitApplication(r) \/ WithdrawApplication(r)
    \/ AdminOpensApplication(r) \/ AdminDecisionBegin(r) \/ AdminDecision(r)
    \/ VerificationFails(r)

DriverVerificationSpec == DriverVerificationInit /\ [][DriverVerificationNext]_verificationVars

-----------------------------------------------------------------------------
(* The status on the profile, which decides whether the driver may submit  *)
(* vehicles and publish trips, follows the application, although every     *)
(* route writes the two rows one after the other and decisions overlap.    *)
ProfileFollowsApplication == verification = verificationStatusForProfile(application)

(* Requests that do not overlap never leave an incomplete application      *)
(* under review or approved: documents are removed only while it is        *)
(* editable, and submitting checks them again.                             *)
ReviewedIsComplete ==
    verificationAlone /\ ~isEditableVerificationStatus(application)
        => canSubmit(sections)

(* Requests that do not overlap, and name the version they saw, approve    *)
(* nothing but what was on the page: uploads leave the version alone, so   *)
(* this rests on the status changes that come before and after them.       *)
ApprovedAsSeen == verificationAlone => ~approvedUnseen

(* An approval means what it says: the profile has it, the application was *)
(* complete, and the admin had seen what was approved.                     *)
DriverIsVetted == ProfileFollowsApplication /\ ReviewedIsComplete /\ ApprovedAsSeen
=============================================================================
