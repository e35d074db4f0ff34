------------------------------ MODULE Favourites ------------------------------
(***************************************************************************)
(* A client's favourite driver and saved routes, and the alert that a trip *)
(* of this driver is published on such a route; the driver may prepare the *)
(* return trip of one (apps/api/src/main.ts).  The alerts are written by   *)
(* the transaction that publishes the trip, which read the trip before.    *)
(***************************************************************************)
EXTENDS Naturals

CONSTANTS
    Journeys,       \* trips of the driver
    FollowRequests  \* publications that may be in flight together

VARIABLES
    favourite,      \* FavoriteDriver: "NONE", or its notificationsEnabled
    savedRoutes,    \* SavedRoute rows, by direction
    silenced,       \* UserPreference.notificationsEnabled = false
    journey,        \* Trip.status and direction of each trip
    tripAlerts,     \* Notification rows of each trip
    publishing,     \* what each publication has read
    followAlone,    \* assumption: no two requests overlap
    unwanted        \* history: an alert was written that the client did not want

followVars == <<favourite, savedRoutes, silenced, journey, tripAlerts, publishing, followAlone, unwanted>>

Directions == {"there", "back"}
Opposite == [there |-> "back", back |-> "there"]
NoTrip == [status |-> "NONE", towards |-> "there"]
NotPublishing == [op |-> "idle", trip |-> "NONE", follows |-> FALSE]

FavouritesInit ==
    /\ favourite = "NONE"
    /\ savedRoutes = {}
    /\ silenced = FALSE
    /\ journey = [j \in Journeys |-> NoTrip]
    /\ tripAlerts = [j \in Journeys |-> 0]
    /\ publishing = [r \in FollowRequests |-> NotPublishing]
    /\ followAlone \in BOOLEAN
    /\ unwanted = FALSE

FollowAlone == followAlone => \A q \in FollowRequests : publishing[q] = NotPublishing

-----------------------------------------------------------------------------
(* The client: each route is one upsert or deleteMany.                     *)

\* A new favourite is enabled, whatever the body says.
SetFavourite(enabled) ==
    /\ FollowAlone
    /\ favourite' = IF favourite = "NONE" \/ enabled THEN "ON" ELSE "OFF"
    /\ UNCHANGED <<savedRoutes, silenced, journey, tripAlerts, publishing, followAlone, unwanted>>

DropFavourite ==
    /\ FollowAlone /\ favourite # "NONE"
    /\ favourite' = "NONE"
    /\ UNCHANGED <<savedRoutes, silenced, journey, tripAlerts, publishing, followAlone, unwanted>>

SaveRoute(d) ==
    /\ FollowAlone /\ d \notin savedRoutes
    /\ savedRoutes' = savedRoutes \cup {d}
    /\ UNCHANGED <<favourite, silenced, journey, tripAlerts, publishing, followAlone, unwanted>>

DropRoute(d) ==
    /\ FollowAlone /\ d \in savedRoutes
    /\ savedRoutes' = savedRoutes \ {d}
    /\ UNCHANGED <<favourite, silenced, journey, tripAlerts, publishing, followAlone, unwanted>>

Silence(off) ==
    /\ FollowAlone /\ silenced # off
    /\ silenced' = off
    /\ UNCHANGED <<favourite, savedRoutes, journey, tripAlerts, publishing, followAlone, unwanted>>

-----------------------------------------------------------------------------
(* The driver                                                              *)

DraftTrip(j, towards) ==
    /\ FollowAlone /\ journey[j] = NoTrip
    /\ journey' = [journey EXCEPT ![j] = [status |-> "DRAFT", towards |-> towards]]
    /\ UNCHANGED <<favourite, savedRoutes, silenced, tripAlerts, publishing, followAlone, unwanted>>

NewTrip(j) == DraftTrip(j, "there")

\* createReturnTripDraft, which may be repeated, and from a trip in any status.
ReturnDraft(j) == \E of \in Journeys \ {j} :
    journey[of] # NoTrip /\ DraftTrip(j, Opposite[journey[of].towards])

UnpublishTrip(j) ==
    /\ FollowAlone /\ journey[j].status = "PUBLISHED"
    /\ journey' = [journey EXCEPT ![j].status = "UNPUBLISHED"]
    /\ UNCHANGED <<favourite, savedRoutes, silenced, tripAlerts, publishing, followAlone, unwanted>>

\* POST /trips/:tripId/publish reads the trip; its transaction updates the trip,
\* which locks it, and lists the favourites; the rest is notifyFavoriteDriversForTrip.
ReadTrip(r, j) ==
    /\ publishing[r] = NotPublishing /\ FollowAlone
    /\ journey[j].status \in {"DRAFT", "UNPUBLISHED"}
    /\ publishing' = [publishing EXCEPT ![r] = [op |-> "read", trip |-> j, follows |-> FALSE]]
    /\ UNCHANGED <<favourite, savedRoutes, silenced, journey, tripAlerts, followAlone, unwanted>>

ListFavourites(r) ==
    /\ publishing[r].op = "read"
    /\ \A q \in FollowRequests : publishing[q].op = "locked" => publishing[q].trip # publishing[r].trip
    /\ publishing' = [publishing EXCEPT ![r].op = "locked",
                                        ![r].follows = favourite = "ON" /\ ~silenced]
    /\ UNCHANGED <<favourite, savedRoutes, silenced, journey, tripAlerts, followAlone, unwanted>>

Interested(j) == journey[j].towards \in savedRoutes

\* ensureNotification: the deduplicationKey names client and trip.
\* (mutant) the key is new each time
NotifyAgain(rows) == rows + 1
EnsureNotification(rows) == 1

PublishAndNotify(r) ==
    LET t == publishing[r]
        notify == t.follows /\ Interested(t.trip)
    IN  /\ t.op = "locked"
        /\ journey' = [journey EXCEPT ![t.trip].status = "PUBLISHED"]
        /\ tripAlerts' = IF notify THEN [tripAlerts EXCEPT ![t.trip] = EnsureNotification(@)] ELSE tripAlerts
        /\ unwanted' = (unwanted \/ (notify /\ (silenced \/ favourite # "ON")))
        /\ publishing' = [publishing EXCEPT ![r] = NotPublishing]
        /\ UNCHANGED <<favourite, savedRoutes, silenced, followAlone>>

PublishingFails(r) ==
    /\ publishing[r] # NotPublishing
    /\ publishing' = [publishing EXCEPT ![r] = NotPublishing]
    /\ UNCHANGED <<favourite, savedRoutes, silenced, journey, tripAlerts, followAlone, unwanted>>

FavouritesNext ==
    \/ \E on \in BOOLEAN : SetFavourite(on) \/ Silence(on)
    \/ DropFavourite
    \/ \E d \in Directions : SaveRoute(d) \/ DropRoute(d)
    \/ \E j \in Journeys : NewTrip(j) \/ ReturnDraft(j) \/ UnpublishTrip(j)
    \/ \E r \in FollowRequests :
           \/ \E j \in Journeys : ReadTrip(r, j)
           \/ ListFavourites(r) \/ PublishAndNotify(r) \/ PublishingFails(r)

FavouritesSpec == FavouritesInit /\ [][FavouritesNext]_followVars

-----------------------------------------------------------------------------
(* A client is told of a trip once, although it is unpublished and         *)
(* published again, or published by two requests; and only while it        *)
(* follows the driver and wants to be told, unless it changes its mind     *)
(* while the publication is in flight.                                     *)
FavouritesAreWanted ==
    /\ \A j \in Journeys : tripAlerts[j] <= 1
    /\ followAlone => ~unwanted
=============================================================================
