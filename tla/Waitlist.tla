------------------------------ MODULE Waitlist ------------------------------
(***************************************************************************)
(* The waitlist of one route and day, and its matching with the trips that *)
(* are published for it (apps/api/src/main.ts).  Matching runs in the      *)
(* transaction that publishes a trip, and in a transaction of its own      *)
(* after an entry was created; a transaction reads the entries (Begin) and *)
(* writes matches, entries and notifications later (Commit).               *)
(***************************************************************************)
EXTENDS Naturals, FiniteSets

CONSTANTS
    Entries,            \* WaitlistEntry, one per client
    RouteTrips,         \* trips of the route and day
    MatchRequests       \* requests that may be in flight together

VARIABLES
    entry,          \* WaitlistEntry.status, "NONE" before it exists
    entryExpired,   \* WaitlistEntry.expiresAt has passed
    routeTrip,      \* each trip: a "DRAFT", "PUBLISHED" with seats, or "GONE"
    matches,        \* the WaitlistMatch rows, by entry: the trips matched
    muted,          \* clients with notificationsEnabled = false
    waitAlerts,     \* notifications by entry and trip
    matchTx,        \* what each request has read
    matchingAlone,  \* assumption: no two requests overlap
    withdrawn       \* history: entries that were cancelled

waitVars == <<entry, entryExpired, routeTrip, matches, muted, waitAlerts, matchTx,
              matchingAlone, withdrawn>>

NoMatchTx == [op |-> "idle", trips |-> {}, entries |-> {}]

WaitlistInit ==
    /\ entry = [e \in Entries |-> "NONE"]
    /\ entryExpired = {}
    /\ routeTrip = [t \in RouteTrips |-> "DRAFT"]
    /\ matches = [e \in Entries |-> {}]
    /\ muted \in SUBSET Entries
    /\ waitAlerts = [e \in Entries |-> {}]
    /\ matchTx = [r \in MatchRequests |-> NoMatchTx]
    /\ matchingAlone \in BOOLEAN
    /\ withdrawn = {}

\* evaluateWaitlistMatchesForTrip: the entries it finds.
WaitingEntries == {e \in Entries : entry[e] = "ACTIVE" /\ e \notin entryExpired}
PublishedTrips == {t \in RouteTrips : routeTrip[t] = "PUBLISHED"}

MatchingAlone == matchingAlone => \A q \in MatchRequests : matchTx[q].op = "idle"

BeginMatching(r, op, trips) ==
    /\ matchTx[r].op = "idle" /\ MatchingAlone
    /\ matchTx' = [matchTx EXCEPT ![r] = [op |-> op, trips |-> trips, entries |-> WaitingEntries]]
    /\ UNCHANGED <<entryExpired, matches, muted, waitAlerts, matchingAlone, withdrawn>>

-----------------------------------------------------------------------------
\* POST /waitlist commits the entry; its matching may fail, or come later.
CreateEntry(e) ==
    /\ entry[e] = "NONE" /\ MatchingAlone
    /\ entry' = [entry EXCEPT ![e] = "ACTIVE"]
    /\ UNCHANGED <<entryExpired, routeTrip, matches, muted, waitAlerts, matchTx, matchingAlone, withdrawn>>

MatchNewEntry(r) ==
    /\ PublishedTrips # {} /\ WaitingEntries # {}
    /\ BeginMatching(r, "match", PublishedTrips)
    /\ UNCHANGED <<entry, routeTrip>>

\* POST /trips/:tripId/publish.
PublishTrip(r, t) ==
    /\ routeTrip[t] = "DRAFT" /\ WaitingEntries # {}
    /\ BeginMatching(r, "publish", {t})
    /\ UNCHANGED <<entry, routeTrip>>

\* Trips are taken one after the other, and each looks for ACTIVE entries: an
\* entry goes to the first trip that serves it (canTripServeWaitlist).
Assignments(t) ==
    {f \in [t.entries -> t.trips \cup {"NONE"}] : \E e \in t.entries : f[e] # "NONE"}

\* updateMany looks at the status once more.  (mutant) the entry is updated by id
MatchedById(e) == "MATCHED"
Matched(e) == IF entry[e] = "ACTIVE" THEN "MATCHED" ELSE entry[e]

Notified(found) == found \ muted

\* The notification's deduplicationKey names entry and trip.
MatchCommit(r) ==
    LET t == matchTx[r]
    IN  /\ t.op \in {"match", "publish"}
        /\ \E f \in Assignments(t) :
               LET found == {e \in t.entries : f[e] # "NONE"}
               IN  /\ matches' = [e \in Entries |->
                          IF e \in found THEN matches[e] \cup {f[e]} ELSE matches[e]]
                   /\ entry' = [e \in Entries |-> IF e \in found THEN Matched(e) ELSE entry[e]]
                   /\ waitAlerts' = [e \in Entries |->
                          IF e \in Notified(found) THEN waitAlerts[e] \cup {f[e]} ELSE waitAlerts[e]]
        /\ routeTrip' = [p \in RouteTrips |->
               IF t.op = "publish" /\ p \in t.trips THEN "PUBLISHED" ELSE routeTrip[p]]
        /\ matchTx' = [matchTx EXCEPT ![r] = NoMatchTx]
        /\ UNCHANGED <<entryExpired, muted, matchingAlone, withdrawn>>

\* No entry is served by the trip, or none waits.
PublishUnmatched(t) ==
    /\ routeTrip[t] = "DRAFT" /\ MatchingAlone
    /\ routeTrip' = [routeTrip EXCEPT ![t] = "PUBLISHED"]
    /\ UNCHANGED <<entry, entryExpired, matches, muted, waitAlerts, matchTx, matchingAlone, withdrawn>>

MatchingFails(r) ==
    /\ matchTx[r].op # "idle"
    /\ matchTx' = [matchTx EXCEPT ![r] = NoMatchTx]
    /\ UNCHANGED <<entry, entryExpired, routeTrip, matches, muted, waitAlerts, matchingAlone, withdrawn>>

-----------------------------------------------------------------------------
\* The trip is sold out, cancelled, or leaves.
TripGone(t) ==
    /\ routeTrip[t] = "PUBLISHED"
    /\ routeTrip' = [routeTrip EXCEPT ![t] = "GONE"]
    /\ UNCHANGED <<entry, entryExpired, matches, muted, waitAlerts, matchTx, matchingAlone, withdrawn>>

\* The client's booking of the trip is confirmed: entries that are MATCHED and
\* have a match with the trip.
EntryBooked(e, t) ==
    /\ routeTrip[t] = "PUBLISHED" /\ MatchingAlone
    /\ entry[e] = "MATCHED" /\ t \in matches[e]
    /\ entry' = [entry EXCEPT ![e] = "BOOKED"]
    /\ UNCHANGED <<entryExpired, routeTrip, matches, muted, waitAlerts, matchTx, matchingAlone, withdrawn>>

\* DELETE /waitlist/:entryId, whatever the status is.
CancelEntry(e) ==
    /\ entry[e] # "NONE" /\ MatchingAlone
    /\ entry' = [entry EXCEPT ![e] = "CANCELLED"]
    /\ withdrawn' = withdrawn \cup {e}
    /\ UNCHANGED <<entryExpired, routeTrip, matches, muted, waitAlerts, matchTx, matchingAlone>>

EntryExpires(e) ==
    /\ entry[e] # "NONE" /\ e \notin entryExpired
    /\ entryExpired' = entryExpired \cup {e}
    /\ UNCHANGED <<entry, routeTrip, matches, muted, waitAlerts, matchTx, matchingAlone, withdrawn>>

WaitlistNext ==
    \/ \E r \in MatchRequests :
           \/ MatchNewEntry(r) \/ MatchCommit(r) \/ MatchingFails(r)
           \/ \E t \in RouteTrips : PublishTrip(r, t)
    \/ \E t \in RouteTrips : PublishUnmatched(t) \/ TripGone(t)
    \/ \E e \in Entries : CreateEntry(e) \/ CancelEntry(e) \/ EntryExpires(e)
    \/ \E e \in Entries, t \in RouteTrips : EntryBooked(e, t)

WaitlistSpec == WaitlistInit /\ [][WaitlistNext]_waitVars

-----------------------------------------------------------------------------
(* An entry its client has cancelled stays cancelled, although a matching  *)
(* that read it before, or a booking, may commit later.                    *)
CancelledEntryStays == \A e \in withdrawn : entry[e] = "CANCELLED"

(* An entry that is MATCHED or BOOKED has a match, and its client was told *)
(* of every match unless the notifications are off; nobody else was.       *)
MatchesAreAnnounced == \A e \in Entries :
    /\ entry[e] \in {"MATCHED", "BOOKED"} => matches[e] # {}
    /\ waitAlerts[e] = (IF e \in muted THEN {} ELSE matches[e])

(* While requests do not overlap, an entry is matched with one trip: the   *)
(* later trips are offered to those who still wait.                        *)
OneMatchPerEntry ==
    matchingAlone => \A e \in Entries : Cardinality(matches[e]) <= 1

(* Who waits is matched once and told so; who has cancelled is left alone. *)
WaitlistIsServed == CancelledEntryStays /\ MatchesAreAnnounced /\ OneMatchPerEntry
=============================================================================
