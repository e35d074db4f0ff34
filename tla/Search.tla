-------------------------------- MODULE Search --------------------------------
(***************************************************************************)
(* Search for trips, page by page (searchPublicTrips, apps/api/src/main.ts)*)
(* Every page is one query, in any order, then filtered, sorted and cut;   *)
(* trips are published, booked, edited and withdrawn between the pages.    *)
(* The SearchEvent row that each page leaves is never read.                *)
(***************************************************************************)
EXTENDS Integers, FiniteSets, Sequences, SequencesExt

CONSTANTS
    Offers,         \* trips of the day, by id
    Departures,     \* hours after the start of the day before, UTC
    Prices, PriceLimits,
    PageSize,
    MaxChanges      \* bound: changes between the first page and the last

ASSUME SearchAssumption ==
    /\ Offers \subseteq Nat /\ IsFiniteSet(Offers)
    /\ Departures \subseteq 19..42 /\ Prices \cup PriceLimits \subseteq Nat
    /\ PageSize \in Nat \ {0} /\ MaxChanges \in Nat

VARIABLES
    offers,         \* trip rows
    query,          \* tripSearchQuerySchema, one passenger
    found,          \* the trips that the pages showed, as they were shown
    nextPage,
    hasMore,        \* of the last page
    changes,        \* history: changes since the first page
    steady          \* history: trips that match and have not changed since then

searchVars == <<offers, query, found, nextPage, hasMore, changes, steady>>

Sorts == {"departure_asc", "price_asc", "price_desc", "available_seats_desc"}
Unset == -1

SearchInit ==
    /\ \E price \in [Offers -> Prices], departs \in [Offers -> Departures] :
           offers = [t \in Offers |-> [open |-> TRUE, price |-> price[t], seats |-> 1,
                                       departs |-> departs[t]]]
    /\ \E sort \in Sorts, w \in {"none", "night"}, lo, hi \in {Unset} \cup PriceLimits :
           query = [sort |-> sort, departureWindow |-> w, minPriceMinor |-> lo, maxPriceMinor |-> hi]
    /\ found = <<>>
    /\ nextPage = 1 /\ hasMore = TRUE
    /\ changes = 0 /\ steady = {}

-----------------------------------------------------------------------------
(* The query                                                               *)

\* The departures of a day have Tashkent time 0 to 24; the window of the night
\* ends at 29.
localHour(departs) == ((departs % 24) + 5) % 24

departureWindowRange ==
    [morning |-> <<5, 12>>, afternoon |-> <<12, 17>>, evening |-> <<17, 22>>, night |-> <<22, 29>>]

InWindow(w, departs) == w # "none" =>
    LET from == departureWindowRange[w][1]
        expandedHour == localHour(departs) + (IF localHour(departs) < from THEN 24 ELSE 0)
    IN  from <= expandedHour /\ expandedHour < departureWindowRange[w][2]

\* Of two limits only the upper one is left: both set the same property.
PriceFits(price) == IF query.maxPriceMinor # Unset THEN price <= query.maxPriceMinor
                                                   ELSE price >= query.minPriceMinor

\* open: PUBLISHED or BOOKING_OPEN, neither cancelled nor blocked, in the future,
\* of an approved driver and vehicle.
Matches == {t \in Offers :
    /\ offers[t].open /\ offers[t].seats > 0
    /\ PriceFits(offers[t].price)
    /\ InWindow(query.departureWindow, offers[t].departs)}

SortKey(row) == CASE query.sort = "price_asc" -> row.price
                  [] query.sort = "price_desc" -> - row.price
                  [] query.sort = "available_seats_desc" -> - row.seats
                  [] OTHER -> row.departs

\* (mutant) trips of one key keep the order of the query's result
UnstableSort(s, t) == SortKey(offers[s]) <= SortKey(offers[t])
stableTripSort(s, t) ==
    LET a == offers[s]  b == offers[t]
    IN  \/ SortKey(a) < SortKey(b)
        \/ SortKey(a) = SortKey(b) /\ a.departs < b.departs
        \/ SortKey(a) = SortKey(b) /\ a.departs = b.departs /\ s <= t

Sorted(rows) == {order \in SetToSeqs(rows) :
    \A i, j \in DOMAIN order : i < j => stableTripSort(order[i], order[j])}

publicTripDto(t) == [id |-> t, departureAtUtc |-> offers[t].departs,
    availableSeatCount |-> offers[t].seats, pricePerSeatMinor |-> offers[t].price]

\* GET /trips/search
Page(sorted, from) == SubSeq(sorted, from + 1, Min({from + PageSize, Len(sorted)}))

searchPublicTrips == \E sorted \in Sorted(Matches) :
    LET startIndex == (nextPage - 1) * PageSize
        pageTrips == Page(sorted, startIndex)
    IN  /\ found' = found \o [i \in DOMAIN pageTrips |-> publicTripDto(pageTrips[i])]
        /\ hasMore' = (startIndex + PageSize < Len(sorted))

NextPage ==
    /\ hasMore
    /\ searchPublicTrips
    /\ nextPage' = nextPage + 1
    /\ steady' = IF nextPage = 1 THEN Matches ELSE steady
    /\ UNCHANGED <<offers, query, changes>>

-----------------------------------------------------------------------------
(* What happens to the trips between the pages                             *)

ChangeOffer(t, row) ==
    /\ nextPage > 1 /\ hasMore /\ changes < MaxChanges
    /\ offers[t] # row
    /\ offers' = [offers EXCEPT ![t] = row]
    /\ changes' = changes + 1
    /\ steady' = steady \ {t}
    /\ UNCHANGED <<query, found, nextPage, hasMore>>

\* Published, unblocked, or of a driver who is approved again; and the reverse,
\* or the trip has left.
ListOrWithdraw(t) == ChangeOffer(t, [offers[t] EXCEPT !.open = ~@])
BookOrFreeSeat(t) == \E n \in 0..2 : ChangeOffer(t, [offers[t] EXCEPT !.seats = n])
EditOffer(t) == \E p \in Prices : ChangeOffer(t, [offers[t] EXCEPT !.price = p])

SearchNext ==
    \/ NextPage
    \/ \E t \in Offers : ListOrWithdraw(t) \/ BookOrFreeSeat(t) \/ EditOffer(t)

SearchSpec == SearchInit /\ [][SearchNext]_searchVars

-----------------------------------------------------------------------------
Shown(t) == {i \in DOMAIN found : found[i].id = t}

(* Pages that are read to the end show every trip that matches all the     *)
(* time once, but for as many as changes were made to other trips: no page *)
(* changes places with another while nothing happens.                      *)
PagesCover ==
    /\ ~hasMore => Cardinality({t \in steady : Shown(t) = {}}) <= changes
    /\ Cardinality({t \in steady : Cardinality(Shown(t)) > 1}) <= changes

(* Within the pages that nothing disturbed, the trips are in the order     *)
(* that was asked for, within the hours of Tashkent that were asked for,   *)
(* and not above the price that was asked for.                             *)
PagesAreOrdered ==
    /\ changes = 0 => \A i, j \in DOMAIN found : i < j =>
           CASE query.sort = "price_asc" -> found[i].pricePerSeatMinor <= found[j].pricePerSeatMinor
             [] query.sort = "price_desc" -> found[i].pricePerSeatMinor >= found[j].pricePerSeatMinor
             [] query.sort = "available_seats_desc" ->
                    found[i].availableSeatCount >= found[j].availableSeatCount
             [] OTHER -> found[i].departureAtUtc <= found[j].departureAtUtc
    /\ \A i \in DOMAIN found :
           /\ query.departureWindow = "night" =>
                  (found[i].departureAtUtc + 5) % 24 \in {22, 23} \cup (0..4)
           /\ query.maxPriceMinor # Unset => found[i].pricePerSeatMinor <= query.maxPriceMinor

SearchHolds == PagesCover /\ PagesAreOrdered
=============================================================================
