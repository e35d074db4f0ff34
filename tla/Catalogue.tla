------------------------------- MODULE Catalogue -------------------------------
(***************************************************************************)
(* The cities and the routes that admins keep, and a trip that a driver    *)
(* drafts and publishes on them (apps/api/src/main.ts).  Admins update any *)
(* part of a row, and switch rows off instead of deleting them.  The trip  *)
(* copies the cities of its route once; drafting reads them in its         *)
(* transaction, publishing looks at them before it.  Regions and pickup    *)
(* points, which decide nothing, are left out.                             *)
(***************************************************************************)
EXTENDS Naturals

CONSTANTS CityIds, RouteIds     \* rows that may be created

ASSUME IdsAssumption == "NONE" \notin CityIds /\ "NONE" \notin RouteIds

VARIABLES
    city,           \* City.isActive, or NONE
    route,          \* Route by id
    journeyTrip,    \* the trip of the driver
    drafting,       \* the driver's request: what it has read, and does
    closed,         \* history: a row was switched off since a publication looked
    rerouted           \* history: the route of the trip was moved since it was copied

catalogueVars == <<city, route, journeyTrip, drafting, closed, rerouted>>

NoRoute == [from |-> "NONE", to |-> "NONE", isActive |-> FALSE]
Undrafted == [status |-> "NONE", route |-> "NONE", from |-> "NONE", to |-> "NONE"]
NoDraft == [op |-> "idle", trip |-> Undrafted]

CatalogueInit ==
    /\ city = [c \in CityIds |-> "NONE"]
    /\ route = [i \in RouteIds |-> NoRoute]
    /\ journeyTrip = Undrafted
    /\ drafting = NoDraft
    /\ closed = FALSE /\ rerouted = FALSE

ExistingCities == {c \in CityIds : city[c] # "NONE"}
ExistingRoutes == {i \in RouteIds : route[i] # NoRoute}
Connecting(from, to) == {i \in ExistingRoutes : route[i].from = from /\ route[i].to = to}

-----------------------------------------------------------------------------
(* Admins                                                                  *)

\* POST /admin/cities
CreateCity(c) ==
    /\ city[c] = "NONE"
    /\ city' = [city EXCEPT ![c] = "ACTIVE"]
    /\ UNCHANGED <<route, journeyTrip, drafting, closed, rerouted>>

\* PATCH /admin/cities/:cityId
SwitchCity(c) ==
    /\ city[c] # "NONE"
    /\ city' = [city EXCEPT ![c] = IF @ = "ACTIVE" THEN "INACTIVE" ELSE "ACTIVE"]
    /\ closed' = (closed \/ city[c] = "ACTIVE")
    /\ UNCHANGED <<route, journeyTrip, drafting, rerouted>>

\* POST /admin/routes
CreateRoute(i) == \E from, to \in ExistingCities :
    /\ from # to
    /\ i \notin ExistingRoutes /\ Connecting(from, to) = {}
    /\ route' = [route EXCEPT ![i] = [from |-> from, to |-> to, isActive |-> TRUE]]
    /\ UNCHANGED <<city, journeyTrip, drafting, closed, rerouted>>

\* PATCH /admin/routes/:routeId does not ask for two cities.
UpdateRoute(i) == \E from, to \in ExistingCities, isActive \in BOOLEAN :
    /\ i \in ExistingRoutes /\ Connecting(from, to) \subseteq {i}
    /\ route' = [route EXCEPT ![i] = [from |-> from, to |-> to, isActive |-> isActive]]
    /\ closed' = (closed \/ (route[i].isActive /\ ~isActive))
    /\ LET bent == <<from, to>> # <<route[i].from, route[i].to>>
       IN  rerouted' = (rerouted \/ (bent /\ i \in {journeyTrip.route, drafting.trip.route}))
    /\ UNCHANGED <<city, journeyTrip, drafting>>

-----------------------------------------------------------------------------
(* The driver                                                              *)

BeginDraft(op, trip) == drafting.op = "idle" /\ drafting' = [op |-> op, trip |-> trip]

\* POST /trips: the route that is named, or the one between the cities that are.
RouteOf(named, from, to) ==
    IF named # "NONE" THEN {named}
    ELSE IF Connecting(from, to) # {} THEN Connecting(from, to) ELSE {"NONE"}

DraftBegin ==
    \E named \in ExistingRoutes \cup {"NONE"}, from, to \in ExistingCities \cup {"NONE"} :
        \E i \in RouteOf(named, from, to) :
            /\ journeyTrip = Undrafted
            /\ BeginDraft("draft", [status |-> "DRAFT", route |-> i,
                   from |-> IF i = "NONE" THEN from ELSE route[i].from,
                   to |-> IF i = "NONE" THEN to ELSE route[i].to])
            /\ rerouted' = FALSE
            /\ UNCHANGED <<city, route, journeyTrip, closed>>

\* validateTripPublication, as far as it looks at the catalogue.
\* (mutant) the cities are compared in the route
RouteConnects(t) ==
    /\ t.route # "NONE" /\ route[t.route].isActive
    /\ {t.from, t.to} \subseteq CityIds /\ \A c \in {t.from, t.to} : city[c] = "ACTIVE"
    /\ route[t.route].from # route[t.route].to
TripConnects(t) ==
    /\ t.route # "NONE" /\ route[t.route].isActive
    /\ {t.from, t.to} \subseteq CityIds /\ \A c \in {t.from, t.to} : city[c] = "ACTIVE"
    /\ t.from # t.to

PublishDraftBegin ==
    /\ journeyTrip.status \in {"DRAFT", "UNPUBLISHED"} /\ TripConnects(journeyTrip)
    /\ BeginDraft("publish", [journeyTrip EXCEPT !.status = "PUBLISHED"])
    /\ closed' = FALSE
    /\ UNCHANGED <<city, route, journeyTrip, rerouted>>

UnpublishTripBegin ==
    /\ journeyTrip.status = "PUBLISHED"
    /\ BeginDraft("unpublish", [journeyTrip EXCEPT !.status = "UNPUBLISHED"])
    /\ UNCHANGED <<city, route, journeyTrip, closed, rerouted>>

DraftCommit ==
    /\ drafting # NoDraft
    /\ journeyTrip' = drafting.trip
    /\ drafting' = NoDraft
    /\ UNCHANGED <<city, route, closed, rerouted>>

CatalogueNext ==
    \/ \E c \in CityIds : CreateCity(c) \/ SwitchCity(c)
    \/ \E i \in RouteIds : CreateRoute(i) \/ UpdateRoute(i)
    \/ DraftBegin \/ PublishDraftBegin \/ UnpublishTripBegin \/ DraftCommit

CatalogueSpec == CatalogueInit /\ [][CatalogueNext]_catalogueVars

-----------------------------------------------------------------------------
\* GET /cities and GET /routes
ListedCities == {c \in CityIds : city[c] = "ACTIVE"}
ListedRoutes(from, to) == {i \in Connecting(from, to) : route[i].isActive}

(* A trip that is on sale goes to another city, although an admin may have *)
(* bent its route into a loop; and clients who choose from the list of     *)
(* cities can search for it, unless a row was switched off after the       *)
(* publication had looked.                                                 *)
TripCanBeFound == journeyTrip.status = "PUBLISHED" =>
    /\ journeyTrip.from # journeyTrip.to
    /\ ~closed => {journeyTrip.from, journeyTrip.to} \subseteq ListedCities

(* The route of a trip that is on sale is the one that clients are shown   *)
(* between its cities, unless an admin moved it or switched it off.        *)
RouteIsListed == journeyTrip.status = "PUBLISHED" /\ ~closed /\ ~rerouted =>
    journeyTrip.route \in ListedRoutes(journeyTrip.from, journeyTrip.to)

TripsConnectCities == TripCanBeFound /\ RouteIsListed
===============================================================================
