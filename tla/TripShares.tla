------------------------------ MODULE TripShares ------------------------------
(***************************************************************************)
(* Links to a trip that its driver or a passenger gives away               *)
(* (apps/api/src/main.ts).  Each route is a few statements without a       *)
(* transaction: a view reads the share, records the access, and reads the  *)
(* trip last.                                                              *)
(***************************************************************************)
EXTENDS Naturals, FiniteSets

CONSTANTS
    Shares,         \* TripShare rows of one owner
    MaxViews,       \* bound: views of each share
    Viewers         \* requests that may be in flight together

ASSUME ViewersAssumption == IsFiniteSet(Viewers)

VARIABLES
    mayShare,       \* the owner drives the trip, or has a booking in it
    shared,         \* rows that exist
    revoked,        \* rows with revokedAt
    shareLapsed,    \* rows whose expiresAt has passed
    accessEvents,   \* TripShareAccessEvent rows of each share
    shareTx,        \* what each request has read
    shareAlone,     \* assumption: no two requests overlap
    views,          \* history: answers that showed the trip, by share
    shownLate       \* history: shares shown after they were revoked or had lapsed

shareVars == <<mayShare, shared, revoked, shareLapsed, accessEvents, shareTx, shareAlone,
               views, shownLate>>

NoView == [op |-> "idle", share |-> "NONE"]

TripSharesInit ==
    /\ mayShare = FALSE
    /\ shared = {} /\ revoked = {} /\ shareLapsed = {}
    /\ accessEvents = [s \in Shares |-> 0]
    /\ shareTx = [r \in Viewers |-> NoView]
    /\ shareAlone \in BOOLEAN
    /\ views = [s \in Shares |-> 0]
    /\ shownLate = {}

ShareIdle == \A q \in Viewers : shareTx[q] = NoView
SharesAlone == shareAlone => ShareIdle

-----------------------------------------------------------------------------
\* The booking may have any status: whoever may share once may always share.
BecomesTraveller ==
    /\ ~mayShare
    /\ mayShare' = TRUE
    /\ UNCHANGED <<shared, revoked, shareLapsed, accessEvents, shareTx, shareAlone, views, shownLate>>

\* POST /trips/:tripId/shares
CreateShare(s) ==
    /\ SharesAlone /\ mayShare /\ s \notin shared
    /\ shared' = shared \cup {s}
    /\ UNCHANGED <<mayShare, revoked, shareLapsed, accessEvents, shareTx, shareAlone, views, shownLate>>

\* DELETE /trip-shares/:shareId is one conditional update.
RevokeShare(s) ==
    /\ SharesAlone /\ s \in shared \ revoked
    /\ revoked' = revoked \cup {s}
    /\ UNCHANGED <<mayShare, shared, shareLapsed, accessEvents, shareTx, shareAlone, views, shownLate>>

ShareLapses(s) ==
    /\ SharesAlone /\ s \in shared \ shareLapsed
    /\ shareLapsed' = shareLapsed \cup {s}
    /\ UNCHANGED <<mayShare, shared, revoked, accessEvents, shareTx, shareAlone, views, shownLate>>

-----------------------------------------------------------------------------
(* GET /public/trip-shares/:token                                          *)

\* (mutant) only the expiry is looked at
Unexpired(s) == s \in shared \ shareLapsed
Visible(s) == s \in shared \ (revoked \cup shareLapsed)

ViewBegin(r, s) ==
    /\ shareTx[r] = NoView /\ SharesAlone
    /\ Visible(s) /\ accessEvents[s] < MaxViews
    /\ shareTx' = [shareTx EXCEPT ![r] = [op |-> "found", share |-> s]]
    /\ UNCHANGED <<mayShare, shared, revoked, shareLapsed, accessEvents, shareAlone, views, shownLate>>

RecordAccess(r) ==
    LET s == shareTx[r].share
    IN  /\ shareTx[r].op = "found"
        /\ accessEvents' = [accessEvents EXCEPT ![s] = @ + 1]
        /\ shareTx' = [shareTx EXCEPT ![r].op = "recorded"]
        /\ UNCHANGED <<mayShare, shared, revoked, shareLapsed, shareAlone, views, shownLate>>

ShowTrip(r) ==
    LET s == shareTx[r].share
    IN  /\ shareTx[r].op = "recorded"
        /\ views' = [views EXCEPT ![s] = @ + 1]
        /\ shownLate' = shownLate \cup ({s} \cap (revoked \cup shareLapsed))
        /\ shareTx' = [shareTx EXCEPT ![r] = NoView]
        /\ UNCHANGED <<mayShare, shared, revoked, shareLapsed, accessEvents, shareAlone>>

ViewFails(r) ==
    /\ shareTx[r] # NoView
    /\ shareTx' = [shareTx EXCEPT ![r] = NoView]
    /\ UNCHANGED <<mayShare, shared, revoked, shareLapsed, accessEvents, shareAlone, views, shownLate>>

TripSharesNext ==
    \/ BecomesTraveller
    \/ \E s \in Shares : CreateShare(s) \/ RevokeShare(s) \/ ShareLapses(s)
    \/ \E r \in Viewers :
           \/ \E s \in Shares : ViewBegin(r, s)
           \/ RecordAccess(r) \/ ShowTrip(r) \/ ViewFails(r)

TripSharesSpec == TripSharesInit /\ [][TripSharesNext]_shareVars

-----------------------------------------------------------------------------
(* A share that was revoked, or has lapsed, shows the trip no more, but to *)
(* a view in flight; and whoever has seen the trip is on record, although  *)
(* a view may fail after its access was recorded.                          *)
SharesEnd ==
    /\ shareAlone => shownLate = {}
    /\ \A s \in Shares : views[s] <= accessEvents[s]
=============================================================================
