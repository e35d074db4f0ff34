--------------------------- MODULE SeatHolds_proofs ---------------------------
(***************************************************************************)
(* What is proved of SeatHolds for any number of seats, bookings and       *)
(* requests and for every value of Isolated, {} (the code as it is)        *)
(* included.                                                               *)
(***************************************************************************)
EXTENDS SeatHolds, FiniteSetTheorems, TLAPS

-----------------------------------------------------------------------------
(* Type correctness.                                                       *)

(* A request reads a well-formed record into tx[r] (Begin, End).           *)
LEMMA BeginType ==
    ASSUME TypeOK, NEW r \in Requests, NEW op \in {"hold", "confirm", "release", "cancel"},
           NEW b \in Bookings, NEW to \in BookingStatuses, NEW S \in SUBSET Seats,
           NEW K \in SUBSET Seats, NEW E \in SUBSET Bookings,
           Begin(r, [Idle EXCEPT !.op = op, !.b = b, !.to = to, !.seats = S,
                                 !.booked = K, !.expired = E])
    PROVE  tx' \in [Requests -> Transactions]
  BY DEF TypeOK, Begin, Idle, Transactions, BookingStatuses

(* The end of a request leaves well-formed records (End).                  *)
LEMMA EndType ==
    ASSUME TypeOK, NEW r \in Requests, End(r)
    PROVE  tx' \in [Requests -> Transactions]
  BY DEF TypeOK, End, Idle, Transactions, BookingStatuses

(* releaseActiveSeatHold writes values of the columns' types.              *)
LEMMA ReleaseType ==
    ASSUME TypeOK, NEW E, NEW status \in {"RELEASED", "EXPIRED"},
           ReleaseActiveSeatHolds(E, status)
    PROVE  /\ availableSeatCount' \in Int
           /\ seat' \in [Seats -> SeatStatuses]
           /\ hold' \in [Bookings -> HoldStatuses]
           /\ booking' \in [Bookings -> BookingStatuses]
           /\ bookingSeat' \in [Bookings -> [Seats -> BookingSeatStatuses]]
  <1>1. seat' \in [Seats -> SeatStatuses]
    BY DEF TypeOK, ReleaseActiveSeatHolds, FreedSeats, SeatStatuses
  <1>2. hold' \in [Bookings -> HoldStatuses]
    BY DEF TypeOK, ReleaseActiveSeatHolds, HoldStatuses
  <1>3. booking' \in [Bookings -> BookingStatuses]
    BY DEF TypeOK, ReleaseActiveSeatHolds, BookingStatuses
  <1>4. bookingSeat' \in [Bookings -> [Seats -> BookingSeatStatuses]]
    BY DEF TypeOK, ReleaseActiveSeatHolds, ReleasedRows, BookingSeatStatuses
  <1> QED BY <1>1, <1>2, <1>3, <1>4 DEF TypeOK, ReleaseActiveSeatHolds

(* The lock is dropped, orphaned or left alone (withBookingLock).          *)
LEMMA ReleaseLockType ==
    ASSUME TypeOK, NEW r \in Requests, ReleaseLock(r)
    PROVE  lock' \in Requests \cup {Free, Orphan}
  BY DEF TypeOK, ReleaseLock

(* A number of seats of the trip is a number.                              *)
LEMMA SeatCount ==
    ASSUME NEW S \in SUBSET Seats
    PROVE  Cardinality(S) \in Nat
  BY SeatsAssumption, FS_Subset, FS_CardinalityType

LEMMA TypeInit == Init => TypeOK
  <1> SUFFICES ASSUME Init PROVE TypeOK  OBVIOUS
  <1>1. Cardinality(Seats) \in Int
    BY SeatCount
  <1>2. Idle \in Transactions
    BY DEF Idle, Transactions, BookingStatuses
  <1>3. [b \in Bookings |-> [s \in Seats |-> "NONE"]] \in [Bookings -> [Seats -> BookingSeatStatuses]]
    BY DEF BookingSeatStatuses
  <1> QED
    BY <1>1, <1>2, <1>3 DEF Init, NoBookings, TypeOK, TripStatuses, SeatStatuses, HoldStatuses, BookingStatuses

LEMMA TypeStep == TypeOK /\ [Next]_vars => TypeOK'
  <1> SUFFICES ASSUME TypeOK, [Next]_vars PROVE TypeOK'  OBVIOUS
  <1>1. ASSUME NEW r \in Requests, NEW b \in Bookings, NEW S \in SUBSET Seats, HoldBegin(r, b, S)
        PROVE TypeOK'
    <2>1. UnlockedHolds \in SUBSET Bookings
      BY DEF UnlockedHolds, LapsedHolds
    <2>2. tx' \in [Requests -> Transactions]
      BY <1>1, <2>1 DEF HoldBegin, TypeOK, Begin, Idle, Transactions, BookingStatuses
    <2> QED BY <1>1, <2>2 DEF HoldBegin, TypeOK, tripVars, rows
  <1>2. ASSUME NEW r \in Requests, NEW b \in Bookings, ConfirmBegin(r, b)
        PROVE TypeOK'
    <2>1. tx' \in [Requests -> Transactions]
      BY <1>2 DEF ConfirmBegin, TypeOK, Begin, Idle, Items, Transactions, BookingStatuses
    <2> QED BY <1>2, <2>1 DEF ConfirmBegin, TypeOK, tripVars, rows
  <1>3. ASSUME NEW r \in Requests, NEW b \in Bookings, ReleaseBegin(r, b)
        PROVE TypeOK'
    <2>1. tx' \in [Requests -> Transactions]
      BY <1>3 DEF ReleaseBegin, TypeOK, Begin, Idle, Items, Transactions, BookingStatuses
    <2> QED BY <1>3, <2>1 DEF ReleaseBegin, TypeOK, tripVars, rows
  <1>4. ASSUME NEW r \in Requests, NEW b \in Bookings, NEW actor \in Actors, CancelBegin(r, b, actor)
        PROVE TypeOK'
    <2>1. CancelledBy(actor) \in BookingStatuses
      BY DEF CancelledBy, BookingStatuses, CancelledStatuses
    <2>2. tx' \in [Requests -> Transactions]
      BY <1>4, <2>1 DEF CancelBegin, TypeOK, Begin, Idle, SeatsOf, BookedSeats, Transactions
    <2> QED BY <1>4, <2>2 DEF CancelBegin, TypeOK, tripVars, rows
  <1>5. ASSUME NEW r \in Requests, HoldCommit(r)
        PROVE TypeOK'
    <2> DEFINE t == tx[r]
    <2>1. tx' \in [Requests -> Transactions]
      BY <1>5, EndType DEF HoldCommit
    <2>2. lock' \in Requests \cup {Free, Orphan}
      BY <1>5, ReleaseLockType DEF HoldCommit
    <2>3. seat' \in [Seats -> SeatStatuses]
      BY <1>5 DEF HoldCommit, FreedSeats, TypeOK, SeatStatuses
    <2>4. hold' \in [Bookings -> HoldStatuses]
      BY <1>5 DEF HoldCommit, TypeOK, HoldStatuses
    <2>5. booking' \in [Bookings -> BookingStatuses]
      BY <1>5 DEF HoldCommit, TypeOK, BookingStatuses
    <2>6. ReleasedRows(t.expired) \in [Bookings -> [Seats -> BookingSeatStatuses]]
      BY DEF ReleasedRows, TypeOK, BookingSeatStatuses
    <2>7. bookingSeat' \in [Bookings -> [Seats -> BookingSeatStatuses]]
      BY <1>5, <2>6 DEF HoldCommit, BookingSeatStatuses
    <2> QED BY <1>5, <2>1, <2>2, <2>3, <2>4, <2>5, <2>7 DEF HoldCommit, TypeOK, tripVars
  <1>6. ASSUME NEW r \in Requests, ConfirmCommit(r)
        PROVE TypeOK'
    <2>1. tx' \in [Requests -> Transactions]
      BY <1>6, EndType DEF ConfirmCommit
    <2>2. availableSeatCount' \in Int
      <3>1. tx[r].seats \in SUBSET Seats
        BY DEF TypeOK, Transactions
      <3> QED BY <1>6, <3>1, SeatCount DEF ConfirmCommit, TypeOK
    <2>3. seat' \in [Seats -> SeatStatuses]
      BY <1>6 DEF ConfirmCommit, TypeOK, SeatStatuses
    <2>4. hold' \in [Bookings -> HoldStatuses] /\ booking' \in [Bookings -> BookingStatuses]
      BY <1>6 DEF ConfirmCommit, TypeOK, HoldStatuses, BookingStatuses
    <2>5. bookingSeat' \in [Bookings -> [Seats -> BookingSeatStatuses]]
      BY <1>6 DEF ConfirmCommit, TypeOK, BookingSeatStatuses
    <2> QED BY <1>6, <2>1, <2>2, <2>3, <2>4, <2>5 DEF ConfirmCommit, TypeOK, tripVars
  <1>7. ASSUME NEW r \in Requests, ReleaseCommit(r)
        PROVE TypeOK'
    <2>1. tx' \in [Requests -> Transactions]
      BY <1>7, EndType DEF ReleaseCommit
    <2>2. CASE UNCHANGED rows
      BY <1>7, <2>1, <2>2 DEF ReleaseCommit, TypeOK, tripVars, rows
    <2>3. CASE hold[tx[r].b] = "ACTIVE" /\ ReleaseActiveSeatHolds({tx[r].b}, "RELEASED")
      BY <1>7, <2>1, <2>3, ReleaseType DEF ReleaseCommit, TypeOK, tripVars
    <2> QED BY <1>7, <2>2, <2>3 DEF ReleaseCommit
  <1>8. ASSUME NEW r \in Requests, CancelCommit(r)
        PROVE TypeOK'
    <2>1. tx' \in [Requests -> Transactions]
      BY <1>8, EndType DEF CancelCommit
    <2>2. tx[r].booked \in SUBSET Seats /\ tx[r].to \in BookingStatuses
      BY DEF TypeOK, Transactions
    <2>3. availableSeatCount' \in Int
      BY <1>8, <2>2, SeatCount DEF CancelCommit, TypeOK
    <2>4. seat' \in [Seats -> SeatStatuses]
      BY <1>8 DEF CancelCommit, TypeOK, SeatStatuses
    <2>5. hold' \in [Bookings -> HoldStatuses] /\ booking' \in [Bookings -> BookingStatuses]
      BY <1>8, <2>2 DEF CancelCommit, TypeOK, HoldStatuses
    <2>6. bookingSeat' \in [Bookings -> [Seats -> BookingSeatStatuses]]
      BY <1>8 DEF CancelCommit, TypeOK, BookingSeatStatuses
    <2> QED BY <1>8, <2>1, <2>3, <2>4, <2>5, <2>6 DEF CancelCommit, TypeOK, tripVars
  <1>9. ASSUME NEW r \in Requests, Abort(r)
        PROVE TypeOK'
    BY <1>9, EndType, ReleaseLockType DEF Abort, TypeOK, tripVars, rows
  <1>10. CASE ListSeats
    BY <1>10, ReleaseType DEF ListSeats, TypeOK, tripVars
  <1>11. ASSUME NEW b \in Bookings, HoldReplay(b)
         PROVE TypeOK'
    BY <1>11, ReleaseType DEF HoldReplay, TypeOK, tripVars
  <1>12. CASE WorkerScan
    BY <1>12 DEF WorkerScan, LapsedHolds, TypeOK, tripVars, rows
  <1>13. ASSUME NEW b \in Bookings, WorkerExpire(b)
         PROVE TypeOK'
    <2>1. batch' \in SUBSET Bookings
      BY <1>13 DEF WorkerExpire, TypeOK
    <2>2. CASE UNCHANGED rows
      BY <1>13, <2>1, <2>2 DEF WorkerExpire, TypeOK, tripVars, rows
    <2>3. CASE ReleaseActiveSeatHolds({b}, "EXPIRED")
      BY <1>13, <2>1, <2>3, ReleaseType DEF WorkerExpire, TypeOK, tripVars
    <2> QED BY <1>13, <2>2, <2>3 DEF WorkerExpire
  <1>14. CASE WorkerCrash
    BY <1>14 DEF WorkerCrash, TypeOK, tripVars, rows
  <1>15. CASE Environment
    BY <1>15 DEF Environment, LockTtlElapses, DeparturePasses, HoldTtlElapses, TypeOK, tripVars, rows
  <1>16. CASE UNCHANGED vars
    BY <1>16 DEF vars, TypeOK, tripVars, rows
  <1> QED
    BY <1>1, <1>2, <1>3, <1>4, <1>5, <1>6, <1>7, <1>8, <1>9, <1>10, <1>11, <1>12, <1>13, <1>14,
       <1>15, <1>16 DEF Next, Request, Finish, Worker

(* Every state the code can reach is well typed, whatever overlaps.        *)
THEOREM TypeCorrect == Spec => []TypeOK
  <1>1. Init => TypeOK
    BY TypeInit
  <1>2. TypeOK /\ [Next]_vars => TypeOK'
    BY TypeStep
  <1> QED BY <1>1, <1>2, PTL DEF Spec

-----------------------------------------------------------------------------
(* The inductive invariant.  HoldMatchesRows alone is not inductive: a     *)
(* commit writes rows its Begin step chose, so what it read has to have    *)
(* kept its meaning.                                                       *)

\* HoldMatchesRows, row by row.
RowsOK ==
    \A b \in Bookings :
        /\ hold[b] = "NONE" => \A s \in Seats : bookingSeat[b][s] = "NONE"
        /\ hold[b] # "NONE" => \E s \in Seats : bookingSeat[b][s] # "NONE"
        /\ hold[b] = "ACTIVE" => \A s \in Seats : bookingSeat[b][s] \in {"NONE", "HELD"}
        /\ \A s \in Seats : bookingSeat[b][s] = "HELD" => hold[b] = "ACTIVE"
        /\ hold[b] = "CONFIRMED" => \A s \in Seats : bookingSeat[b][s] # "RELEASED"

\* What a request in flight has read about holds is still so: only hold requests
\* claim expired holds, and these stay ACTIVE until they commit.
TxOK ==
    \A r \in Requests :
        /\ tx[r].op # "idle" => tx[r].b \in Bookings
        /\ tx[r].op = "hold" => tx[r].seats # {}
        /\ tx[r].op # "hold" => tx[r].expired = {}
        /\ \A e \in tx[r].expired : hold[e] = "ACTIVE"
        /\ tx[r].op \in {"confirm", "release", "cancel"} => hold[tx[r].b] # "NONE"
        /\ tx[r].op \in {"confirm", "release"} => tx[r].seats = Items(tx[r].b)
        /\ tx[r].op = "cancel" => tx[r].to # "NONE"

\* A booking and its hold are created together.
Started == \A b \in Bookings : booking[b] = "NONE" <=> hold[b] = "NONE"

\* ReadSeatsStayFree, row by row: a seat a hold request chose is free, or held by
\* a hold that the same request has claimed.
ChosenFree ==
    \A r \in Requests : tx[r].op = "hold" =>
        \A s \in tx[r].seats :
            \/ seat[s] = "AVAILABLE"
            \/ seat[s] = "HELD" /\ \E e \in tx[r].expired : bookingSeat[e][s] # "NONE"

HoldInv == TypeOK /\ LockedWhileHolding /\ TxOK /\ RowsOK /\ Started /\ ChosenFree

(* The row-by-row form says what HoldMatchesRows says.                     *)
LEMMA RowsImplyMatch == RowsOK => HoldMatchesRows
  <1> SUFFICES ASSUME RowsOK, NEW b \in Bookings
               PROVE  /\ hold[b] = "NONE" <=> Items(b) = {}
                      /\ hold[b] = "ACTIVE" => SeatsOf(b, {"HELD"}) = Items(b)
                      /\ hold[b] # "ACTIVE" => SeatsOf(b, {"HELD"}) = {}
                      /\ hold[b] = "CONFIRMED" => SeatsOf(b, {"RELEASED"}) = {}
    BY DEF HoldMatchesRows
  <1> QED BY DEF RowsOK, Items, SeatsOf

(* The same for ReadSeatsStayFree.                                         *)
LEMMA ChosenImplyStay == TypeOK /\ ChosenFree => ReadSeatsStayFree
  <1> SUFFICES ASSUME TypeOK, ChosenFree, NEW r \in Requests, tx[r].op = "hold", NEW s \in tx[r].seats
               PROVE  FreedSeats(tx[r].expired)[s] = "AVAILABLE"
    BY DEF ReadSeatsStayFree
  <1>1. s \in Seats
    BY DEF TypeOK, Transactions
  <1> QED BY <1>1 DEF ChosenFree, FreedSeats, Items

(* A booking whose seats are not claimed by another request is not itself  *)
(* among the claimed ones (releaseActiveSeatHold's row locks).             *)
LEMMA UnclaimedBooking ==
    ASSUME HoldInv, NEW r \in Requests, tx[r].op # "hold", tx[r].op # "idle", hold[tx[r].b] # "NONE",
           Unlocked(r, Items(tx[r].b))
    PROVE  \A q \in Requests : tx[r].b \notin tx[q].expired
  <1> SUFFICES ASSUME NEW q \in Requests, tx[r].b \in tx[q].expired PROVE FALSE
    OBVIOUS
  <1>1. q # r
    BY DEF HoldInv, TxOK
  <1>2. tx[r].b \in LockedBy(Requests \ {r})
    BY <1>1 DEF LockedBy
  <1>3. Items(tx[r].b) = {}
    BY <1>2 DEF Unlocked
  <1>4. tx[r].b \in Bookings
    BY DEF HoldInv, TxOK
  <1> QED BY <1>3, <1>4 DEF HoldInv, RowsOK, Items

(* What a request has read survives a step that leaves its claims ACTIVE   *)
(* and keeps the items of the holds that exist.                            *)
LEMMA TxKept ==
    ASSUME HoldInv,
           \A q \in Requests : tx'[q] = tx[q] \/ tx'[q] = Idle,
           \A q \in Requests : tx'[q] = tx[q] => \A e \in tx[q].expired : hold'[e] = "ACTIVE",
           \A b \in Bookings : hold[b] # "NONE" => hold'[b] # "NONE" /\ Items(b)' = Items(b)
    PROVE  TxOK'
  <1> SUFFICES ASSUME NEW q \in Requests
               PROVE /\ tx'[q].op # "idle" => tx'[q].b \in Bookings
                     /\ tx'[q].op = "hold" => tx'[q].seats # {}
                     /\ tx'[q].op # "hold" => tx'[q].expired = {}
                     /\ \A e \in tx'[q].expired : hold'[e] = "ACTIVE"
                     /\ tx'[q].op \in {"confirm", "release", "cancel"} => hold'[tx'[q].b] # "NONE"
                     /\ tx'[q].op \in {"confirm", "release"} => tx'[q].seats = {s \in Seats : bookingSeat'[tx'[q].b][s] # "NONE"}
                     /\ tx'[q].op = "cancel" => tx'[q].to # "NONE"
    BY DEF TxOK, Items
  <1>1. CASE tx'[q] = Idle
    BY <1>1 DEF Idle
  <1>2. CASE tx'[q] = tx[q]
    <2>1. tx[q].op \in {"confirm", "release", "cancel"} => tx[q].b \in Bookings /\ hold[tx[q].b] # "NONE"
      BY DEF HoldInv, TxOK
    <2>2. tx[q].op \in {"confirm", "release"} => tx[q].seats = {s \in Seats : bookingSeat'[tx[q].b][s] # "NONE"}
      BY <2>1 DEF HoldInv, TxOK, Items
    <2> QED BY <1>2, <2>1, <2>2 DEF HoldInv, TxOK
  <1> QED BY <1>1, <1>2

(* The lock is still owned by the hold request in flight after a step that *)
(* leaves the lock alone.                                                  *)
LEMMA LockKept ==
    ASSUME LockedWhileHolding, lock' = lock,
           \A q \in Requests : tx'[q] = tx[q] \/ tx'[q] = Idle
    PROVE  LockedWhileHolding'
  BY DEF LockedWhileHolding, Idle

(* releaseActiveSeatHold: ending ACTIVE holds that no other transaction    *)
(* has claimed keeps the tables together and the claims valid.             *)
LEMMA ReleaseKeeps ==
    ASSUME HoldInv, NEW E \in SUBSET Bookings, NEW status \in {"RELEASED", "EXPIRED"},
           \A e \in E : hold[e] = "ACTIVE",
           ReleaseActiveSeatHolds(E, status),
           \A q \in Requests : tx'[q] = tx[q] \/ tx'[q] = Idle,
           \A q \in Requests : tx'[q] = tx[q] => E \cap tx[q].expired = {}
    PROVE  TxOK' /\ RowsOK' /\ Started' /\ ChosenFree'
  <1>1. \A b \in Bookings : hold'[b] = IF b \in E THEN status ELSE hold[b]
    BY DEF ReleaseActiveSeatHolds
  <1>2. \A b \in Bookings, s \in Seats :
            bookingSeat'[b][s] = IF b \in E /\ bookingSeat[b][s] = "HELD" THEN "RELEASED"
                                 ELSE bookingSeat[b][s]
    BY DEF ReleaseActiveSeatHolds, ReleasedRows
  <1>3. \A b \in Bookings : Items(b)' = Items(b)
    BY <1>2 DEF Items
  <1>4. TxOK'
    <2>1. \A q \in Requests : tx'[q] = tx[q] => \A e \in tx[q].expired : hold'[e] = "ACTIVE"
      BY <1>1 DEF HoldInv, TypeOK, Transactions, TxOK
    <2>2. \A b \in Bookings : hold[b] # "NONE" => hold'[b] # "NONE" /\ Items(b)' = Items(b)
      BY <1>1, <1>3
    <2> QED BY <2>1, <2>2, TxKept
  <1>5. RowsOK'
    BY <1>1, <1>2 DEF HoldInv, RowsOK
  <1>6. Started'
    BY <1>1 DEF HoldInv, Started, ReleaseActiveSeatHolds
  <1>7. ChosenFree'
    <2> SUFFICES ASSUME NEW q \in Requests, tx'[q].op = "hold", NEW s \in tx'[q].seats
                 PROVE  \/ seat'[s] = "AVAILABLE"
                        \/ seat'[s] = "HELD" /\ \E e \in tx'[q].expired : bookingSeat'[e][s] # "NONE"
      BY DEF ChosenFree
    <2>1. tx'[q] = tx[q]
      BY DEF Idle
    <2>2. s \in Seats /\ tx[q].expired \subseteq Bookings
      BY <2>1 DEF HoldInv, TypeOK, Transactions
    <2>3. seat'[s] = seat[s] \/ seat'[s] = "AVAILABLE"
      BY <2>2 DEF ReleaseActiveSeatHolds, FreedSeats
    <2> QED BY <1>2, <2>1, <2>2, <2>3 DEF HoldInv, ChosenFree
  <1> QED BY <1>4, <1>5, <1>6, <1>7

(* A step that leaves the tables alone, and the requests or ends some.     *)
LEMMA IdleKeeps ==
    ASSUME HoldInv, UNCHANGED rows, \A q \in Requests : tx'[q] = tx[q] \/ tx'[q] = Idle
    PROVE  TxOK' /\ RowsOK' /\ Started' /\ ChosenFree'
  <1>1. TxOK'
    <2>1. \A q \in Requests : \A e \in tx[q].expired : hold'[e] = "ACTIVE"
      BY DEF HoldInv, TxOK, rows
    <2>2. \A b \in Bookings : hold[b] # "NONE" => hold'[b] # "NONE" /\ Items(b)' = Items(b)
      BY DEF rows, Items
    <2> QED BY <2>1, <2>2, TxKept
  <1>2. RowsOK' /\ Started'
    BY DEF HoldInv, RowsOK, Started, rows
  <1>3. ChosenFree'
    BY DEF HoldInv, ChosenFree, rows, Idle
  <1> QED BY <1>1, <1>2, <1>3

(* A request that begins has read what TxOK says.                          *)
LEMMA BeginKeeps ==
    ASSUME HoldInv, UNCHANGED rows, NEW r \in Requests, NEW t, Begin(r, t),
           t.b \in Bookings,
           t.op \in {"confirm", "release", "cancel"},
           t.expired = {},
           hold[t.b] # "NONE",
           t.op \in {"confirm", "release"} => t.seats = Items(t.b),
           t.op = "cancel" => t.to # "NONE"
    PROVE  TxOK' /\ RowsOK' /\ Started' /\ ChosenFree'
  <1>1. \A q \in Requests : tx'[q] = IF q = r THEN t ELSE tx[q]
    BY DEF HoldInv, TypeOK, Begin
  <1>2. TxOK'
    BY <1>1 DEF HoldInv, TxOK, rows, Items
  <1>3. RowsOK' /\ Started'
    BY DEF HoldInv, RowsOK, Started, rows
  <1>4. ChosenFree'
    BY <1>1 DEF HoldInv, ChosenFree, rows
  <1> QED BY <1>2, <1>3, <1>4

(* POST /bookings/holds, the reads.                                        *)
LEMMA HoldBeginKeeps ==
    ASSUME HoldInv, NEW r \in Requests, NEW b \in Bookings, NEW S \in SUBSET Seats,
           HoldBegin(r, b, S)
    PROVE  LockedWhileHolding' /\ TxOK' /\ RowsOK' /\ Started' /\ ChosenFree'
  <1> DEFINE t == [Idle EXCEPT !.op = "hold", !.b = b, !.seats = S, !.expired = UnlockedHolds]
  <1>1. \A q \in Requests : tx'[q] = IF q = r THEN t ELSE tx[q]
    BY DEF HoldInv, TypeOK, HoldBegin, Begin
  <1>2. /\ t.op = "hold" /\ t.b = b /\ t.seats = S /\ S # {} /\ t.expired = UnlockedHolds
        /\ \A e \in UnlockedHolds : e \in Bookings /\ hold[e] = "ACTIVE"
    BY DEF HoldBegin, Idle, UnlockedHolds, LapsedHolds
  <1>3. UNCHANGED rows
    BY DEF HoldBegin
  <1> HIDE DEF t
  <1>4. LockedWhileHolding'
    <2>1. \A q \in Requests : tx[q].op # "hold"
      BY LockAssumption DEF HoldInv, LockedWhileHolding, HoldBegin, LockAcquired
    <2> QED BY <1>1, <2>1 DEF LockedWhileHolding, HoldBegin
  <1>5. TxOK'
    BY <1>1, <1>2, <1>3 DEF HoldInv, TxOK, rows, Items
  <1>6. RowsOK' /\ Started'
    BY <1>3 DEF HoldInv, RowsOK, Started, rows
  <1>7. \A s \in S : \/ seat[s] = "AVAILABLE"
                     \/ seat[s] = "HELD" /\ \E e \in UnlockedHolds : bookingSeat[e][s] # "NONE"
    BY DEF HoldBegin, FreedSeats, Items
  <1>8. ChosenFree'
    BY <1>1, <1>2, <1>3, <1>7 DEF HoldInv, ChosenFree, rows
  <1> QED BY <1>4, <1>5, <1>6, <1>8

(* POST /bookings/holds, the writes.                                       *)
LEMMA HoldCommitKeeps ==
    ASSUME HoldInv, NEW r \in Requests, HoldCommit(r)
    PROVE  LockedWhileHolding' /\ TxOK' /\ RowsOK' /\ Started' /\ ChosenFree'
  <1> DEFINE t == tx[r]
  <1>1. /\ t.op = "hold" /\ hold[t.b] = "NONE"
        /\ t.b \in Bookings /\ t.seats # {} /\ t.seats \subseteq Seats /\ t.expired \subseteq Bookings
        /\ \A e \in t.expired : hold[e] = "ACTIVE"
    BY DEF HoldInv, HoldCommit, TxOK, TypeOK, Transactions
  <1>2. \A q \in Requests : tx'[q] = IF q = r THEN Idle ELSE tx[q]
    BY DEF HoldInv, TypeOK, HoldCommit, End
  <1>3. \A q \in Requests : q # r => tx[q].op # "hold" /\ tx[q].expired = {}
    BY <1>1 DEF HoldInv, LockedWhileHolding, TxOK
  <1>4. \A b \in Bookings : hold'[b] = IF b = t.b THEN "ACTIVE"
                                       ELSE IF b \in t.expired THEN "EXPIRED" ELSE hold[b]
    BY DEF HoldCommit
  <1>5. \A b \in Bookings : booking'[b] = IF b = t.b THEN "HOLD"
                                          ELSE IF b \in t.expired THEN "EXPIRED" ELSE booking[b]
    BY DEF HoldCommit
  <1>6. \A b \in Bookings, s \in Seats :
            bookingSeat'[b][s] = IF b = t.b THEN (IF s \in t.seats THEN "HELD" ELSE "NONE")
                                 ELSE IF b \in t.expired /\ bookingSeat[b][s] = "HELD" THEN "RELEASED"
                                 ELSE bookingSeat[b][s]
    BY DEF HoldCommit, ReleasedRows
  <1> HIDE DEF t
  <1>7. LockedWhileHolding'
    BY <1>2, <1>3 DEF LockedWhileHolding, Idle
  <1>8. TxOK'
    <2>1. \A q \in Requests : tx'[q] = tx[q] => \A e \in tx[q].expired : hold'[e] = "ACTIVE"
      BY <1>2, <1>3, <1>1 DEF t, Idle
    <2>2. \A b \in Bookings : hold[b] # "NONE" => hold'[b] # "NONE" /\ Items(b)' = Items(b)
      BY <1>1, <1>4, <1>6 DEF Items
    <2> QED BY <1>2, <2>1, <2>2, TxKept
  <1>9. RowsOK'
    BY <1>1, <1>4, <1>6 DEF HoldInv, RowsOK
  <1>10. Started'
    BY <1>1, <1>4, <1>5 DEF HoldInv, Started
  <1>11. ChosenFree'
    BY <1>2, <1>3 DEF ChosenFree, Idle
  <1> QED BY <1>7, <1>8, <1>9, <1>10, <1>11

(* POST /bookings/holds/:holdId/confirm, the writes.                       *)
LEMMA ConfirmCommitKeeps ==
    ASSUME HoldInv, NEW r \in Requests, ConfirmCommit(r)
    PROVE  TxOK' /\ RowsOK' /\ Started' /\ ChosenFree'
  <1> DEFINE t == tx[r]
  <1>1. /\ t.op = "confirm" /\ t.b \in Bookings /\ t.seats = Items(t.b) /\ hold[t.b] # "NONE"
        /\ Unlocked(r, t.seats)
    BY DEF HoldInv, ConfirmCommit, TxOK
  <1>2. \A s \in t.seats : s \in Seats /\ seat[s] = "HELD" /\ bookingSeat[t.b][s] = "HELD"
    BY <1>1 DEF ConfirmCommit, StillHeld, Items
  <1>3. \A q \in Requests : t.b \notin tx[q].expired
    BY <1>1, UnclaimedBooking
  <1>4. hold[t.b] = "ACTIVE"
    BY <1>1, <1>2 DEF HoldInv, RowsOK, Items
  <1>5. \A q \in Requests : tx'[q] = IF q = r THEN Idle ELSE tx[q]
    BY DEF HoldInv, TypeOK, ConfirmCommit, End
  <1>6. /\ \A b \in Bookings : hold'[b] = IF b = t.b THEN "CONFIRMED" ELSE hold[b]
        /\ \A b \in Bookings : booking'[b] = IF b = t.b THEN "CONFIRMED" ELSE booking[b]
    BY DEF HoldInv, TypeOK, ConfirmCommit
  <1>7. \A b \in Bookings, s \in Seats :
            bookingSeat'[b][s] = IF b = t.b /\ s \in t.seats THEN "BOOKED" ELSE bookingSeat[b][s]
    BY DEF HoldInv, TypeOK, ConfirmCommit
  <1>8. \A s \in Seats : seat'[s] = IF s \in t.seats THEN "BOOKED" ELSE seat[s]
    BY DEF ConfirmCommit
  <1> HIDE DEF t
  <1>9. TxOK'
    <2>1. \A q \in Requests : tx'[q] = tx[q] => \A e \in tx[q].expired : hold'[e] = "ACTIVE"
      BY <1>3, <1>6 DEF HoldInv, TypeOK, Transactions, TxOK
    <2>2. \A b \in Bookings : hold[b] # "NONE" => hold'[b] # "NONE" /\ Items(b)' = Items(b)
      BY <1>1, <1>6, <1>7 DEF Items
    <2> QED BY <1>5, <2>1, <2>2, TxKept
  <1>10. RowsOK'
    BY <1>1, <1>2, <1>4, <1>6, <1>7 DEF HoldInv, RowsOK, Items
  <1>11. Started'
    BY <1>1, <1>4, <1>6 DEF HoldInv, Started
  <1>12. ChosenFree'
    <2> SUFFICES ASSUME NEW q \in Requests, tx'[q].op = "hold", NEW s \in tx'[q].seats
                 PROVE  \/ seat'[s] = "AVAILABLE"
                        \/ seat'[s] = "HELD" /\ \E e \in tx'[q].expired : bookingSeat'[e][s] # "NONE"
      BY DEF ChosenFree
    <2>1. q # r /\ tx'[q] = tx[q]
      BY <1>5 DEF Idle
    <2>2. s \in Seats /\ tx[q].expired \subseteq Bookings
      BY <2>1 DEF HoldInv, TypeOK, Transactions
    <2>3. ASSUME NEW e \in tx[q].expired, bookingSeat[e][s] # "NONE" PROVE s \notin t.seats
      <3>1. e \in LockedBy(Requests \ {r})
        BY <2>1 DEF LockedBy
      <3> QED BY <1>1, <2>2, <2>3, <3>1 DEF Unlocked, Items
    <2>4. s \notin t.seats
      BY <1>2, <2>1, <2>3 DEF HoldInv, ChosenFree
    <2> QED BY <1>7, <1>8, <2>1, <2>2, <2>4 DEF HoldInv, ChosenFree
  <1> QED BY <1>9, <1>10, <1>11, <1>12

(* DELETE /bookings/holds/:holdId, the writes.                             *)
LEMMA ReleaseCommitKeeps ==
    ASSUME HoldInv, NEW r \in Requests, ReleaseCommit(r)
    PROVE  TxOK' /\ RowsOK' /\ Started' /\ ChosenFree'
  <1> DEFINE t == tx[r]
  <1>1. /\ t.op = "release" /\ t.b \in Bookings /\ t.seats = Items(t.b) /\ hold[t.b] # "NONE"
        /\ Unlocked(r, t.seats)
    BY DEF HoldInv, ReleaseCommit, TxOK
  <1>2. \A q \in Requests : t.b \notin tx[q].expired
    BY <1>1, UnclaimedBooking
  <1>3. \A q \in Requests : tx'[q] = tx[q] \/ tx'[q] = Idle
    BY DEF HoldInv, TypeOK, ReleaseCommit, End
  <1>4. CASE UNCHANGED rows
    BY <1>3, <1>4, IdleKeeps
  <1>5. CASE hold[t.b] = "ACTIVE" /\ ReleaseActiveSeatHolds({t.b}, "RELEASED")
    BY <1>1, <1>2, <1>3, <1>5, ReleaseKeeps
  <1> QED BY <1>4, <1>5 DEF ReleaseCommit

(* cancelBooking, the writes.                                              *)
LEMMA CancelCommitKeeps ==
    ASSUME HoldInv, NEW r \in Requests, CancelCommit(r)
    PROVE  TxOK' /\ RowsOK' /\ Started' /\ ChosenFree'
  <1> DEFINE t == tx[r]
  <1>1. /\ t.op = "cancel" /\ t.b \in Bookings /\ hold[t.b] # "NONE" /\ t.to # "NONE"
        /\ Unlocked(r, Items(t.b))
    BY DEF HoldInv, CancelCommit, TxOK
  <1>2. \A q \in Requests : t.b \notin tx[q].expired
    BY <1>1, UnclaimedBooking
  <1>3. \A q \in Requests : tx'[q] = IF q = r THEN Idle ELSE tx[q]
    BY DEF HoldInv, TypeOK, CancelCommit, End
  <1>4. \A b \in Bookings : hold'[b] = IF b = t.b /\ hold[b] = "ACTIVE" THEN "CANCELLED" ELSE hold[b]
    BY DEF HoldInv, TypeOK, CancelCommit
  <1>5. \A b \in Bookings : booking'[b] = IF b = t.b THEN t.to ELSE booking[b]
    BY DEF HoldInv, TypeOK, CancelCommit
  <1>6. \A b \in Bookings, s \in Seats :
            bookingSeat'[b][s] = IF b = t.b /\ bookingSeat[b][s] \in {"HELD", "BOOKED"}
                                 THEN "CANCELLED" ELSE bookingSeat[b][s]
    BY DEF HoldInv, TypeOK, CancelCommit
  <1>7. \A s \in Seats : seat'[s] = seat[s] \/ seat'[s] = "AVAILABLE"
    BY DEF CancelCommit
  <1> HIDE DEF t
  <1>8. TxOK'
    <2>1. \A q \in Requests : tx'[q] = tx[q] => \A e \in tx[q].expired : hold'[e] = "ACTIVE"
      BY <1>2, <1>4 DEF HoldInv, TypeOK, Transactions, TxOK
    <2>2. \A b \in Bookings : hold[b] # "NONE" => hold'[b] # "NONE" /\ Items(b)' = Items(b)
      BY <1>4, <1>6 DEF Items
    <2> QED BY <1>3, <2>1, <2>2, TxKept
  <1>9. RowsOK'
    BY <1>1, <1>4, <1>6 DEF HoldInv, RowsOK
  <1>10. Started'
    BY <1>1, <1>4, <1>5 DEF HoldInv, Started
  <1>11. ChosenFree'
    <2> SUFFICES ASSUME NEW q \in Requests, tx'[q].op = "hold", NEW s \in tx'[q].seats
                 PROVE  \/ seat'[s] = "AVAILABLE"
                        \/ seat'[s] = "HELD" /\ \E e \in tx'[q].expired : bookingSeat'[e][s] # "NONE"
      BY DEF ChosenFree
    <2>1. tx'[q] = tx[q]
      BY <1>3 DEF Idle
    <2>2. s \in Seats /\ tx[q].expired \subseteq Bookings
      BY <2>1 DEF HoldInv, TypeOK, Transactions
    <2> QED BY <1>6, <1>7, <2>1, <2>2 DEF HoldInv, ChosenFree
  <1> QED BY <1>8, <1>9, <1>10, <1>11

(* Expiry claims only holds that no transaction has claimed                *)
(* (expireSeatHolds, expireActiveSeatHolds).                               *)
LEMMA ExpiryKeeps ==
    ASSUME HoldInv, NEW E \in SUBSET Bookings, ReleaseActiveSeatHolds(E, "EXPIRED"),
           \A e \in E : hold[e] = "ACTIVE" /\ e \notin LockedBy(Requests), UNCHANGED tx
    PROVE  TxOK' /\ RowsOK' /\ Started' /\ ChosenFree'
  <1>1. \A q \in Requests : E \cap tx[q].expired = {}
    BY DEF LockedBy
  <1> QED BY <1>1, ReleaseKeeps

-----------------------------------------------------------------------------
(* The invariant is inductive.                                             *)

LEMMA HoldInvInit == Init => HoldInv
  <1> SUFFICES ASSUME Init PROVE HoldInv  OBVIOUS
  <1>1. TypeOK
    BY TypeInit
  <1>2. LockedWhileHolding /\ TxOK /\ ChosenFree
    BY DEF Init, NoBookings, Idle, LockedWhileHolding, TxOK, ChosenFree
  <1>3. RowsOK /\ Started
    BY DEF Init, NoBookings, RowsOK, Started
  <1> QED BY <1>1, <1>2, <1>3 DEF HoldInv

LEMMA HoldInvStep == HoldInv /\ [Next]_vars => HoldInv'
  <1> SUFFICES ASSUME HoldInv, [Next]_vars
               PROVE  LockedWhileHolding' /\ TxOK' /\ RowsOK' /\ Started' /\ ChosenFree'
    BY TypeStep DEF HoldInv
  <1>1. ASSUME NEW r \in Requests, NEW b \in Bookings, NEW S \in SUBSET Seats, HoldBegin(r, b, S)
        PROVE  LockedWhileHolding' /\ TxOK' /\ RowsOK' /\ Started' /\ ChosenFree'
    BY <1>1, HoldBeginKeeps
  <1>2. ASSUME NEW r \in Requests, NEW b \in Bookings, ConfirmBegin(r, b)
        PROVE  LockedWhileHolding' /\ TxOK' /\ RowsOK' /\ Started' /\ ChosenFree'
    <2> DEFINE t == [Idle EXCEPT !.op = "confirm", !.b = b, !.seats = Items(b)]
    <2>1. /\ t.op = "confirm" /\ t.b = b /\ t.seats = Items(b) /\ t.expired = {}
          /\ Begin(r, t) /\ UNCHANGED rows /\ UNCHANGED lock /\ hold[b] # "NONE"
      BY <1>2 DEF ConfirmBegin, Idle
    <2>2. \A q \in Requests : tx'[q] = IF q = r THEN t ELSE tx[q]
      BY <2>1 DEF HoldInv, TypeOK, Begin
    <2> HIDE DEF t
    <2>3. LockedWhileHolding'
      BY <2>1, <2>2 DEF HoldInv, LockedWhileHolding
    <2> QED BY <2>1, <2>3, BeginKeeps
  <1>3. ASSUME NEW r \in Requests, NEW b \in Bookings, ReleaseBegin(r, b)
        PROVE  LockedWhileHolding' /\ TxOK' /\ RowsOK' /\ Started' /\ ChosenFree'
    <2> DEFINE t == [Idle EXCEPT !.op = "release", !.b = b, !.seats = Items(b)]
    <2>1. /\ t.op = "release" /\ t.b = b /\ t.seats = Items(b) /\ t.expired = {}
          /\ Begin(r, t) /\ UNCHANGED rows /\ UNCHANGED lock /\ hold[b] # "NONE"
      BY <1>3 DEF ReleaseBegin, Idle
    <2>2. \A q \in Requests : tx'[q] = IF q = r THEN t ELSE tx[q]
      BY <2>1 DEF HoldInv, TypeOK, Begin
    <2> HIDE DEF t
    <2>3. LockedWhileHolding'
      BY <2>1, <2>2 DEF HoldInv, LockedWhileHolding
    <2> QED BY <2>1, <2>3, BeginKeeps
  <1>4. ASSUME NEW r \in Requests, NEW b \in Bookings, NEW actor \in Actors, CancelBegin(r, b, actor)
        PROVE  LockedWhileHolding' /\ TxOK' /\ RowsOK' /\ Started' /\ ChosenFree'
    <2> DEFINE t == [Idle EXCEPT !.op = "cancel", !.b = b, !.to = CancelledBy(actor),
                                 !.seats = SeatsOf(b, {"HELD", "BOOKED"}),
                                 !.booked = BookedSeats(b)]
    <2>1. /\ t.op = "cancel" /\ t.b = b /\ t.to = CancelledBy(actor) /\ t.expired = {}
          /\ Begin(r, t) /\ UNCHANGED rows /\ UNCHANGED lock
      BY <1>4 DEF CancelBegin, Idle
    <2>2. hold[b] # "NONE"
      BY <1>4 DEF CancelBegin, Cancellable, HoldInv, Started
    <2>3. t.to # "NONE"
      BY <2>1 DEF CancelledBy
    <2>4. \A q \in Requests : tx'[q] = IF q = r THEN t ELSE tx[q]
      BY <2>1 DEF HoldInv, TypeOK, Begin
    <2> HIDE DEF t
    <2>5. LockedWhileHolding'
      BY <2>1, <2>4 DEF HoldInv, LockedWhileHolding
    <2> QED BY <2>1, <2>2, <2>3, <2>5, BeginKeeps
  <1>5. ASSUME NEW r \in Requests, HoldCommit(r)
        PROVE  LockedWhileHolding' /\ TxOK' /\ RowsOK' /\ Started' /\ ChosenFree'
    BY <1>5, HoldCommitKeeps
  <1>6. ASSUME NEW r \in Requests, ConfirmCommit(r) \/ ReleaseCommit(r) \/ CancelCommit(r)
        PROVE  LockedWhileHolding' /\ TxOK' /\ RowsOK' /\ Started' /\ ChosenFree'
    <2>1. lock' = lock /\ \A q \in Requests : tx'[q] = tx[q] \/ tx'[q] = Idle
      BY <1>6 DEF ConfirmCommit, ReleaseCommit, CancelCommit, End, HoldInv, TypeOK
    <2>2. LockedWhileHolding'
      BY <2>1, LockKept DEF HoldInv
    <2> QED BY <1>6, <2>2, ConfirmCommitKeeps, ReleaseCommitKeeps, CancelCommitKeeps
  <1>7. ASSUME NEW r \in Requests, Abort(r)
        PROVE  LockedWhileHolding' /\ TxOK' /\ RowsOK' /\ Started' /\ ChosenFree'
    <2>1. UNCHANGED rows /\ \A q \in Requests : tx'[q] = IF q = r THEN Idle ELSE tx[q]
      BY <1>7 DEF Abort, End, HoldInv, TypeOK
    <2>2. LockedWhileHolding'
      BY <1>7, <2>1 DEF Abort, ReleaseLock, HoldInv, LockedWhileHolding, Idle
    <2> QED BY <2>1, <2>2, IdleKeeps
  <1>8. CASE ListSeats
    <2>1. LockedWhileHolding'
      BY <1>8, LockKept DEF ListSeats, HoldInv
    <2>2. \A e \in UnlockedHolds : e \in Bookings /\ hold[e] = "ACTIVE" /\ e \notin LockedBy(Requests)
      BY DEF UnlockedHolds, LapsedHolds
    <2> QED BY <1>8, <2>1, <2>2, ExpiryKeeps DEF ListSeats
  <1>9. ASSUME NEW b \in Bookings, HoldReplay(b)
        PROVE  LockedWhileHolding' /\ TxOK' /\ RowsOK' /\ Started' /\ ChosenFree'
    <2>1. LockedWhileHolding'
      BY <1>9, LockAssumption DEF HoldReplay, LockAcquired, HoldInv, LockedWhileHolding
    <2>2. \A e \in UnlockedHolds : e \in Bookings /\ hold[e] = "ACTIVE" /\ e \notin LockedBy(Requests)
      BY DEF UnlockedHolds, LapsedHolds
    <2> QED BY <1>9, <2>1, <2>2, ExpiryKeeps DEF HoldReplay
  <1>10. ASSUME NEW b \in Bookings, WorkerExpire(b)
         PROVE  LockedWhileHolding' /\ TxOK' /\ RowsOK' /\ Started' /\ ChosenFree'
    <2>1. LockedWhileHolding'
      BY <1>10, LockKept DEF WorkerExpire, HoldInv
    <2>2. CASE UNCHANGED rows
      BY <1>10, <2>1, <2>2, IdleKeeps DEF WorkerExpire
    <2>3. CASE hold[b] = "ACTIVE" /\ ReleaseActiveSeatHolds({b}, "EXPIRED")
      BY <1>10, <2>1, <2>3, ExpiryKeeps DEF WorkerExpire
    <2> QED BY <1>10, <2>2, <2>3 DEF WorkerExpire
  <1>11. CASE WorkerScan \/ WorkerCrash \/ UNCHANGED vars \/ DeparturePasses
    <2>1. UNCHANGED <<rows, lock, tx>>
      BY <1>11 DEF WorkerScan, WorkerCrash, DeparturePasses, vars
    <2> QED BY <2>1, LockKept, IdleKeeps DEF HoldInv
  <1>12. ASSUME NEW b \in Bookings, HoldTtlElapses(b)
         PROVE  LockedWhileHolding' /\ TxOK' /\ RowsOK' /\ Started' /\ ChosenFree'
    <2>1. UNCHANGED <<rows, lock, tx>>
      BY <1>12 DEF HoldTtlElapses
    <2> QED BY <2>1, LockKept, IdleKeeps DEF HoldInv
  <1>13. CASE LockTtlElapses
    <2>1. UNCHANGED <<rows, tx>>
      BY <1>13 DEF LockTtlElapses
    <2>2. LockedWhileHolding'
      BY <1>13, LockAssumption DEF LockTtlElapses, HoldInv, LockedWhileHolding
    <2> QED BY <2>1, <2>2, IdleKeeps
  <1> QED
    BY <1>1, <1>2, <1>3, <1>4, <1>5, <1>6, <1>7, <1>8, <1>9, <1>10, <1>11, <1>12, <1>13
       DEF Next, Request, Finish, Worker, Environment

LEMMA HoldInvariant == Spec => []HoldInv
  <1> QED BY HoldInvInit, HoldInvStep, PTL DEF Spec

(* The hold of a booking and its BookingSeat rows always agree, although   *)
(* confirm, release, expiry and cancel write them in separate conditional  *)
(* updates that overlap.                                                   *)
THEOREM HoldsMatchRows == Spec => []HoldMatchesRows
  <1>1. HoldInv => HoldMatchesRows
    BY RowsImplyMatch DEF HoldInv
  <1> QED BY <1>1, HoldInvariant, PTL

(* The seats a hold request chose are still free when it writes, although  *)
(* only hold creation takes the lock and expiry, confirm, release and      *)
(* cancel run beside it.                                                   *)
THEOREM ChosenSeatsStayFree == Spec => []ReadSeatsStayFree
  <1>1. HoldInv => ReadSeatsStayFree
    BY ChosenImplyStay DEF HoldInv
  <1> QED BY <1>1, HoldInvariant, PTL

-----------------------------------------------------------------------------
(* How a hold ends.                                                        *)

(* releaseActiveSeatHold leaves the holds alone that are not ACTIVE.       *)
LEMMA ReleaseEndsActive ==
    ASSUME NEW E, NEW status, \A e \in E : hold[e] = "ACTIVE", ReleaseActiveSeatHolds(E, status)
    PROVE  \A b \in Bookings : hold[b] # "ACTIVE" => hold'[b] = hold[b]
  BY DEF ReleaseActiveSeatHolds

LEMMA EndedHoldStays ==
    HoldInv /\ [Next]_vars =>
        \A b \in Bookings : hold[b] \notin {"NONE", "ACTIVE"} => hold'[b] = hold[b]
  <1> SUFFICES ASSUME HoldInv, [Next]_vars
               PROVE  \A b \in Bookings : hold[b] \notin {"NONE", "ACTIVE"} => hold'[b] = hold[b]
    OBVIOUS
  <1>1. CASE UNCHANGED rows
    BY <1>1 DEF rows
  <1>2. ASSUME NEW r \in Requests, HoldCommit(r)
        PROVE  \A b \in Bookings : hold[b] \notin {"NONE", "ACTIVE"} => hold'[b] = hold[b]
    BY <1>2 DEF HoldCommit, HoldInv, TxOK
  <1>3. ASSUME NEW r \in Requests, ConfirmCommit(r)
        PROVE  \A b \in Bookings : hold[b] \notin {"NONE", "ACTIVE"} => hold'[b] = hold[b]
    <2>1. /\ tx[r].b \in Bookings /\ hold[tx[r].b] # "NONE" /\ tx[r].seats = Items(tx[r].b)
          /\ \A s \in tx[r].seats : bookingSeat[tx[r].b][s] = "HELD"
      BY <1>3 DEF ConfirmCommit, StillHeld, HoldInv, TxOK
    <2>2. hold[tx[r].b] = "ACTIVE"
      BY <2>1 DEF HoldInv, RowsOK, Items
    <2> QED BY <1>3, <2>2 DEF ConfirmCommit, HoldInv, TypeOK
  <1>4. ASSUME NEW r \in Requests, ReleaseCommit(r)
        PROVE  \A b \in Bookings : hold[b] \notin {"NONE", "ACTIVE"} => hold'[b] = hold[b]
    BY <1>1, <1>4, ReleaseEndsActive DEF ReleaseCommit
  <1>5. ASSUME NEW r \in Requests, CancelCommit(r)
        PROVE  \A b \in Bookings : hold[b] \notin {"NONE", "ACTIVE"} => hold'[b] = hold[b]
    BY <1>5 DEF CancelCommit, HoldInv, TypeOK
  <1>6. ASSUME ReleaseActiveSeatHolds(UnlockedHolds, "EXPIRED")
        PROVE  \A b \in Bookings : hold[b] \notin {"NONE", "ACTIVE"} => hold'[b] = hold[b]
    BY <1>6, ReleaseEndsActive DEF UnlockedHolds, LapsedHolds
  <1>7. ASSUME NEW b \in Bookings, WorkerExpire(b)
        PROVE  \A c \in Bookings : hold[c] \notin {"NONE", "ACTIVE"} => hold'[c] = hold[c]
    BY <1>1, <1>7, ReleaseEndsActive DEF WorkerExpire
  <1>8. CASE UNCHANGED vars
    BY <1>1, <1>8 DEF vars
  <1>9. ASSUME NEW r \in Requests, NEW b \in Bookings, NEW S \in SUBSET Seats, NEW actor \in Actors,
               \/ HoldBegin(r, b, S) \/ ConfirmBegin(r, b) \/ ReleaseBegin(r, b)
               \/ CancelBegin(r, b, actor) \/ Abort(r)
        PROVE  UNCHANGED rows
    BY <1>9 DEF HoldBegin, ConfirmBegin, ReleaseBegin, CancelBegin, Abort
  <1>10. ASSUME WorkerScan \/ WorkerCrash \/ Environment
         PROVE  UNCHANGED rows
    BY <1>10 DEF WorkerScan, WorkerCrash, Environment, LockTtlElapses, DeparturePasses, HoldTtlElapses
  <1> QED
    BY <1>1, <1>2, <1>3, <1>4, <1>5, <1>6, <1>7, <1>8, <1>9, <1>10
       DEF Next, Request, Finish, Worker, ListSeats, HoldReplay,
           HoldBegin, ConfirmBegin, ReleaseBegin, CancelBegin, Abort

(* No late confirm, release, expiry or cancellation changes how a hold     *)
(* ended.                                                                  *)
THEOREM HoldsEndOnce == Spec => HoldEndsOnce
  <1>1. HoldInv /\ [Next]_vars =>
            [\A b \in Bookings : hold[b] \notin {"NONE", "ACTIVE"} => hold'[b] = hold[b]]_vars
    BY EndedHoldStays
  <1> QED BY <1>1, HoldInvariant, PTL DEF Spec, HoldEndsOnce

=============================================================================
