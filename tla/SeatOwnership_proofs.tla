------------------------- MODULE SeatOwnership_proofs -------------------------
(***************************************************************************)
(* Who owns the seats, for any number of seats, bookings and requests,     *)
(* when cancellations overlap no other request.  Without that assumption   *)
(* the run SeatHolds_double_cancel refutes what is proved here.  Then, under*)
(* the same assumption: SeatHolds implements SeatAllocation.               *)
(***************************************************************************)
EXTENDS SeatHolds_proofs

Owning == {"HELD", "BOOKED"}

\* TripSeat says of a seat what the row of its owner says, and only then.
SeatsOK ==
    /\ \A s \in Seats, b \in Bookings : bookingSeat[b][s] \in Owning => seat[s] = bookingSeat[b][s]
    /\ \A s \in Seats : seat[s] \in Owning => \E b \in Bookings : bookingSeat[b][s] = seat[s]

\* What a cancellation in flight has read is still so, since it runs alone.
CancelOK ==
    \A r \in Requests : tx[r].op = "cancel" =>
        /\ tx[r].seats = SeatsOf(tx[r].b, Owning)
        /\ tx[r].booked = SeatsOf(tx[r].b, {"BOOKED"})
        /\ \A q \in Requests : q # r => tx[q] = Idle

OwnInv == HoldInv /\ SeatsOK /\ NoDoubleBooking /\ CancelOK

(* Ending ACTIVE holds frees their seats and nobody else's                 *)
(* (releaseActiveSeatHold).                                                *)
LEMMA ReleaseKeepsOwners ==
    ASSUME OwnInv, NEW E \in SUBSET Bookings, NEW status,
           \A e \in E : hold[e] = "ACTIVE", ReleaseActiveSeatHolds(E, status)
    PROVE  SeatsOK' /\ NoDoubleBooking'
  <1>1. \A b \in Bookings, s \in Seats :
            bookingSeat'[b][s] = IF b \in E /\ bookingSeat[b][s] = "HELD" THEN "RELEASED"
                                 ELSE bookingSeat[b][s]
    BY DEF ReleaseActiveSeatHolds, ReleasedRows
  <1>2. \A s \in Seats :
            seat'[s] = IF seat[s] = "HELD" /\ \E e \in E : bookingSeat[e][s] # "NONE"
                       THEN "AVAILABLE" ELSE seat[s]
    BY DEF ReleaseActiveSeatHolds, FreedSeats, Items
  <1>3. \A e \in E, s \in Seats : bookingSeat[e][s] \in {"NONE", "HELD"}
    BY DEF OwnInv, HoldInv, RowsOK
  <1>4. NoDoubleBooking'
    BY <1>1 DEF OwnInv, NoDoubleBooking
  <1>5. SeatsOK'
    BY <1>1, <1>2, <1>3 DEF OwnInv, SeatsOK, NoDoubleBooking, Owning
  <1> QED BY <1>4, <1>5

(* POST /bookings/holds gives free seats to one booking.                   *)
LEMMA HoldKeepsOwners ==
    ASSUME OwnInv, NEW r \in Requests, HoldCommit(r)
    PROVE  SeatsOK' /\ NoDoubleBooking'
  <1> DEFINE t == tx[r]
  <1>1. /\ t.op = "hold" /\ hold[t.b] = "NONE" /\ t.b \in Bookings
        /\ t.seats \subseteq Seats /\ t.expired \subseteq Bookings
        /\ \A e \in t.expired : hold[e] = "ACTIVE"
    BY DEF OwnInv, HoldInv, HoldCommit, TxOK, TypeOK, Transactions
  <1>2. \A s \in Seats : bookingSeat[t.b][s] = "NONE"
    BY <1>1 DEF OwnInv, HoldInv, RowsOK
  <1>3. \A e \in t.expired, s \in Seats : bookingSeat[e][s] \in {"NONE", "HELD"}
    BY <1>1 DEF OwnInv, HoldInv, RowsOK
  <1>4. \A b \in Bookings, s \in Seats :
            bookingSeat'[b][s] = IF b = t.b THEN (IF s \in t.seats THEN "HELD" ELSE "NONE")
                                 ELSE IF b \in t.expired /\ bookingSeat[b][s] = "HELD" THEN "RELEASED"
                                 ELSE bookingSeat[b][s]
    BY DEF HoldCommit, ReleasedRows
  <1>5. \A s \in t.seats :
            \/ seat[s] = "AVAILABLE"
            \/ seat[s] = "HELD" /\ \E e \in t.expired : bookingSeat[e][s] # "NONE"
    BY <1>1 DEF OwnInv, HoldInv, ChosenFree
  <1>6. \A s \in Seats : seat'[s] = IF s \in t.seats THEN "HELD"
                                    ELSE IF seat[s] = "HELD" /\ \E e \in t.expired : bookingSeat[e][s] # "NONE"
                                    THEN "AVAILABLE" ELSE seat[s]
    BY <1>5 DEF HoldCommit, FreedSeats, Items
  <1> HIDE DEF t
  <1>7. \A s \in t.seats, b \in Bookings : b # t.b => bookingSeat'[b][s] \notin Owning
    <2> SUFFICES ASSUME NEW s \in t.seats, NEW b \in Bookings, b # t.b, bookingSeat'[b][s] \in Owning
                 PROVE  FALSE
      OBVIOUS
    <2>1. bookingSeat[b][s] \in Owning /\ seat[s] = bookingSeat[b][s]
      BY <1>1, <1>4 DEF OwnInv, SeatsOK, Owning
    <2>2. PICK e \in t.expired : bookingSeat[e][s] # "NONE"
      BY <1>5, <2>1 DEF Owning
    <2>3. bookingSeat[e][s] = "HELD" /\ e \in Bookings
      BY <1>1, <1>3, <2>2
    <2>4. b = e
      BY <1>1, <2>1, <2>3 DEF OwnInv, NoDoubleBooking, Owning
    <2> QED BY <1>1, <1>4, <2>2, <2>3, <2>4 DEF Owning
  <1>8. NoDoubleBooking'
    <2> SUFFICES ASSUME NEW s \in Seats, NEW a \in Bookings, NEW b \in Bookings,
                        bookingSeat'[a][s] \in Owning, bookingSeat'[b][s] \in Owning
                 PROVE  a = b
      BY DEF NoDoubleBooking, Owning
    <2>1. CASE s \in t.seats
      BY <1>7, <2>1
    <2>2. CASE s \notin t.seats
      BY <1>4, <2>2 DEF OwnInv, NoDoubleBooking, Owning
    <2> QED BY <2>1, <2>2
  <1>9. SeatsOK'
    <2>1. ASSUME NEW s \in Seats, NEW b \in Bookings, bookingSeat'[b][s] \in Owning
          PROVE  seat'[s] = bookingSeat'[b][s]
      <3>1. CASE s \in t.seats
        BY <1>4, <1>6, <1>7, <2>1, <3>1
      <3>2. CASE s \notin t.seats
        BY <1>1, <1>3, <1>4, <1>6, <2>1, <3>2 DEF OwnInv, SeatsOK, NoDoubleBooking, Owning
      <3> QED BY <3>1, <3>2
    <2>2. ASSUME NEW s \in Seats, seat'[s] \in Owning
          PROVE  \E b \in Bookings : bookingSeat'[b][s] = seat'[s]
      <3>1. CASE s \in t.seats
        BY <1>1, <1>4, <1>6, <3>1
      <3>2. CASE s \notin t.seats
        <4>1. seat'[s] = seat[s]
          BY <1>6, <2>2, <3>2 DEF Owning
        <4>2. PICK b \in Bookings : bookingSeat[b][s] = seat[s]
          BY <2>2, <4>1 DEF OwnInv, SeatsOK
        <4>3. b # t.b
          BY <1>2, <2>2, <4>1, <4>2 DEF Owning
        <4>4. ~(b \in t.expired /\ bookingSeat[b][s] = "HELD")
          BY <1>6, <2>2, <3>2, <4>2 DEF Owning
        <4> QED BY <1>4, <4>1, <4>2, <4>3, <4>4
      <3> QED BY <3>1, <3>2
    <2> QED BY <2>1, <2>2 DEF SeatsOK
  <1> QED BY <1>8, <1>9

(* POST /bookings/holds/:holdId/confirm books the seats of one booking.    *)
LEMMA ConfirmKeepsOwners ==
    ASSUME OwnInv, NEW r \in Requests, ConfirmCommit(r)
    PROVE  SeatsOK' /\ NoDoubleBooking'
  <1> DEFINE t == tx[r]
  <1>1. /\ t.b \in Bookings /\ t.seats = Items(t.b)
        /\ \A s \in t.seats : seat[s] = "HELD" /\ bookingSeat[t.b][s] = "HELD"
    BY DEF OwnInv, HoldInv, ConfirmCommit, TxOK, StillHeld
  <1>2. \A b \in Bookings, s \in Seats :
            bookingSeat'[b][s] = IF b = t.b /\ s \in t.seats THEN "BOOKED" ELSE bookingSeat[b][s]
    BY DEF OwnInv, HoldInv, TypeOK, ConfirmCommit
  <1>3. \A s \in Seats : seat'[s] = IF s \in t.seats THEN "BOOKED" ELSE seat[s]
    BY DEF ConfirmCommit
  <1> HIDE DEF t
  <1>4. NoDoubleBooking'
    BY <1>1, <1>2 DEF OwnInv, NoDoubleBooking
  <1>5. SeatsOK'
    <2>1. ASSUME NEW s \in Seats, NEW b \in Bookings, bookingSeat'[b][s] \in Owning
          PROVE  seat'[s] = bookingSeat'[b][s]
      BY <1>1, <1>2, <1>3, <2>1 DEF OwnInv, SeatsOK, NoDoubleBooking, Owning
    <2>2. ASSUME NEW s \in Seats, seat'[s] \in Owning
          PROVE  \E b \in Bookings : bookingSeat'[b][s] = seat'[s]
      BY <1>1, <1>2, <1>3, <2>2 DEF OwnInv, SeatsOK
    <2> QED BY <2>1, <2>2 DEF SeatsOK
  <1> QED BY <1>4, <1>5

(* cancelBooking, alone, gives back what the booking owns.                 *)
LEMMA CancelKeepsOwners ==
    ASSUME OwnInv, NEW r \in Requests, CancelCommit(r)
    PROVE  SeatsOK' /\ NoDoubleBooking'
  <1> DEFINE t == tx[r]
  <1>1. t.b \in Bookings /\ t.seats = SeatsOf(t.b, Owning)
    BY DEF OwnInv, HoldInv, CancelCommit, TxOK, CancelOK
  <1>2. \A b \in Bookings, s \in Seats :
            bookingSeat'[b][s] = IF b = t.b /\ bookingSeat[b][s] \in Owning
                                 THEN "CANCELLED" ELSE bookingSeat[b][s]
    BY DEF OwnInv, HoldInv, TypeOK, CancelCommit, Owning
  <1>3. \A s \in Seats : seat'[s] = IF bookingSeat[t.b][s] \in Owning /\ seat[s] \in Owning
                                    THEN "AVAILABLE" ELSE seat[s]
    BY <1>1 DEF CancelCommit, SeatsOf, Owning
  <1> HIDE DEF t
  <1>4. NoDoubleBooking'
    BY <1>2 DEF OwnInv, NoDoubleBooking, Owning
  <1>5. SeatsOK'
    BY <1>1, <1>2, <1>3 DEF OwnInv, SeatsOK, NoDoubleBooking, Owning
  <1> QED BY <1>4, <1>5

-----------------------------------------------------------------------------
(* A cancellation in flight runs alone.                                    *)

(* Nothing that respects Isolated begins or expires holds beside it.       *)
LEMMA NoCancelInFlight ==
    ASSUME "cancel" \in Isolated, MayRun
    PROVE  \A q \in Requests : tx[q].op # "cancel"
  BY DEF MayRun

(* Other requests begin only when no cancellation is in flight.            *)
LEMMA BeginKeepsCancel ==
    ASSUME "cancel" \in Isolated, OwnInv, NEW r \in Requests, NEW t, MayRun, Begin(r, t),
           t.op # "cancel"
    PROVE  CancelOK'
  <1>1. \A q \in Requests : tx'[q] = IF q = r THEN t ELSE tx[q]
    BY DEF OwnInv, HoldInv, TypeOK, Begin
  <1> QED BY <1>1, NoCancelInFlight DEF CancelOK

(* A request that ends leaves no cancellation behind.                      *)
LEMMA EndKeepsCancel ==
    ASSUME OwnInv, NEW r \in Requests, tx[r] # Idle, End(r)
    PROVE  CancelOK'
  <1>1. \A q \in Requests : tx'[q] = IF q = r THEN Idle ELSE tx[q]
    BY DEF OwnInv, HoldInv, TypeOK, End
  <1>2. \A q \in Requests : q # r => tx[q].op # "cancel"
    BY DEF OwnInv, CancelOK
  <1> QED BY <1>1, <1>2 DEF CancelOK, Idle

(* A commit ends a request that was in flight.                             *)
LEMMA CommitsAreNotIdle ==
    ASSUME NEW r \in Requests,
           HoldCommit(r) \/ ConfirmCommit(r) \/ ReleaseCommit(r) \/ CancelCommit(r)
    PROVE  tx[r] # Idle /\ End(r)
  <1>1. tx[r].op \in {"hold", "confirm", "release", "cancel"} /\ End(r)
    BY DEF HoldCommit, ConfirmCommit, ReleaseCommit, CancelCommit
  <1> QED BY <1>1 DEF Idle

(* A step that leaves rows and requests alone.                             *)
LEMMA StutterKeepsOwners ==
    ASSUME OwnInv, UNCHANGED rows
    PROVE  /\ SeatsOK' /\ NoDoubleBooking'
           /\ UNCHANGED tx => CancelOK'
  BY DEF OwnInv, SeatsOK, NoDoubleBooking, CancelOK, SeatsOf, rows

LEMMA OwnInvInit == Init => OwnInv
  <1> SUFFICES ASSUME Init PROVE OwnInv  OBVIOUS
  <1>1. SeatsOK /\ NoDoubleBooking
    BY DEF Init, NoBookings, SeatsOK, NoDoubleBooking, Owning
  <1>2. CancelOK
    BY DEF Init, NoBookings, CancelOK, Idle
  <1> QED BY <1>1, <1>2, HoldInvInit DEF OwnInv

LEMMA OwnInvStep ==
    ASSUME "cancel" \in Isolated
    PROVE  OwnInv /\ [Next]_vars => OwnInv'
  <1> SUFFICES ASSUME OwnInv, [Next]_vars PROVE SeatsOK' /\ NoDoubleBooking' /\ CancelOK'
    BY HoldInvStep DEF OwnInv
  <1>1. ASSUME NEW r \in Requests, NEW b \in Bookings, NEW S \in SUBSET Seats, HoldBegin(r, b, S)
        PROVE  SeatsOK' /\ NoDoubleBooking' /\ CancelOK'
    <2> DEFINE t == [Idle EXCEPT !.op = "hold", !.b = b, !.seats = S, !.expired = UnlockedHolds]
    <2>1. MayRun /\ Begin(r, t) /\ t.op # "cancel" /\ UNCHANGED rows
      BY <1>1 DEF HoldBegin, MayBegin, Idle
    <2> QED BY <2>1, BeginKeepsCancel, StutterKeepsOwners
  <1>2. ASSUME NEW r \in Requests, NEW b \in Bookings, ConfirmBegin(r, b)
        PROVE  SeatsOK' /\ NoDoubleBooking' /\ CancelOK'
    <2> DEFINE t == [Idle EXCEPT !.op = "confirm", !.b = b, !.seats = Items(b)]
    <2>1. MayRun /\ Begin(r, t) /\ t.op # "cancel" /\ UNCHANGED rows
      BY <1>2 DEF ConfirmBegin, MayBegin, Idle
    <2> QED BY <2>1, BeginKeepsCancel, StutterKeepsOwners
  <1>3. ASSUME NEW r \in Requests, NEW b \in Bookings, ReleaseBegin(r, b)
        PROVE  SeatsOK' /\ NoDoubleBooking' /\ CancelOK'
    <2> DEFINE t == [Idle EXCEPT !.op = "release", !.b = b, !.seats = Items(b)]
    <2>1. MayRun /\ Begin(r, t) /\ t.op # "cancel" /\ UNCHANGED rows
      BY <1>3 DEF ReleaseBegin, MayBegin, Idle
    <2> QED BY <2>1, BeginKeepsCancel, StutterKeepsOwners
  <1>4. ASSUME NEW r \in Requests, NEW b \in Bookings, NEW actor \in Actors, CancelBegin(r, b, actor)
        PROVE  SeatsOK' /\ NoDoubleBooking' /\ CancelOK'
    <2>1. UNCHANGED rows /\ \A q \in Requests : tx[q] = Idle
      BY <1>4 DEF CancelBegin, MayBegin
    <2>2. \A q \in Requests : q # r => tx'[q] = Idle
      BY <1>4, <2>1 DEF CancelBegin, Begin, OwnInv, HoldInv, TypeOK
    <2>3. tx'[r].seats = SeatsOf(b, {"HELD", "BOOKED"}) /\ tx'[r].booked = BookedSeats(b) /\ tx'[r].b = b
      BY <1>4 DEF CancelBegin, Begin, OwnInv, HoldInv, TypeOK, Idle
    <2>4. \A c \in Bookings : \A S : {s \in Seats : bookingSeat'[c][s] \in S} = SeatsOf(c, S)
      BY <2>1 DEF SeatsOf, rows
    <2>5. ASSUME NEW q \in Requests, tx'[q].op = "cancel"
          PROVE  /\ tx'[q].seats = {s \in Seats : bookingSeat'[tx'[q].b][s] \in Owning}
                 /\ tx'[q].booked = {s \in Seats : bookingSeat'[tx'[q].b][s] \in {"BOOKED"}}
                 /\ \A p \in Requests : p # q => tx'[p] = Idle
      <3>1. q = r
        BY <2>2, <2>5 DEF Idle
      <3> QED BY <2>2, <2>3, <2>4, <3>1 DEF BookedSeats, Owning
    <2>6. CancelOK'
      BY <2>5 DEF CancelOK, SeatsOf
    <2> QED BY <2>1, <2>6, StutterKeepsOwners
  <1>5. ASSUME NEW r \in Requests,
               HoldCommit(r) \/ ConfirmCommit(r) \/ ReleaseCommit(r) \/ CancelCommit(r)
        PROVE  SeatsOK' /\ NoDoubleBooking' /\ CancelOK'
    <2>1. CancelOK'
      BY <1>5, CommitsAreNotIdle, EndKeepsCancel
    <2>2. CASE ReleaseCommit(r)
      <3>1. tx[r].b \in Bookings
        BY <2>2 DEF ReleaseCommit, OwnInv, HoldInv, TxOK
      <3>2. CASE UNCHANGED rows
        BY <2>1, <3>2, StutterKeepsOwners
      <3>3. CASE hold[tx[r].b] = "ACTIVE" /\ ReleaseActiveSeatHolds({tx[r].b}, "RELEASED")
        BY <2>1, <3>1, <3>3, ReleaseKeepsOwners
      <3> QED BY <2>2, <3>2, <3>3 DEF ReleaseCommit
    <2> QED BY <1>5, <2>1, <2>2, HoldKeepsOwners, ConfirmKeepsOwners, CancelKeepsOwners
  <1>6. ASSUME NEW r \in Requests, Abort(r)
        PROVE  SeatsOK' /\ NoDoubleBooking' /\ CancelOK'
    BY <1>6, EndKeepsCancel, StutterKeepsOwners DEF Abort
  <1>7. ASSUME MayRun, UNCHANGED tx, ReleaseActiveSeatHolds(UnlockedHolds, "EXPIRED")
        PROVE  SeatsOK' /\ NoDoubleBooking' /\ CancelOK'
    <2>1. UnlockedHolds \in SUBSET Bookings /\ \A e \in UnlockedHolds : hold[e] = "ACTIVE"
      BY DEF UnlockedHolds, LapsedHolds
    <2>2. CancelOK'
      BY <1>7, NoCancelInFlight DEF CancelOK
    <2> QED BY <1>7, <2>1, <2>2, ReleaseKeepsOwners
  <1>8. ASSUME NEW b \in Bookings, WorkerExpire(b)
        PROVE  SeatsOK' /\ NoDoubleBooking' /\ CancelOK'
    <2>1. CancelOK'
      BY <1>8, NoCancelInFlight DEF CancelOK, WorkerExpire
    <2>2. CASE UNCHANGED rows
      BY <2>1, <2>2, StutterKeepsOwners
    <2>3. CASE hold[b] = "ACTIVE" /\ ReleaseActiveSeatHolds({b}, "EXPIRED")
      BY <2>1, <2>3, ReleaseKeepsOwners
    <2> QED BY <1>8, <2>2, <2>3 DEF WorkerExpire
  <1>9. ASSUME WorkerScan \/ WorkerCrash \/ Environment \/ UNCHANGED vars
        PROVE  UNCHANGED rows /\ UNCHANGED tx
    BY <1>9 DEF WorkerScan, WorkerCrash, Environment, LockTtlElapses, DeparturePasses,
                HoldTtlElapses, vars
  <1>10. CASE WorkerScan \/ WorkerCrash \/ Environment \/ UNCHANGED vars
    BY <1>9, <1>10, StutterKeepsOwners
  <1> QED
    BY <1>1, <1>2, <1>3, <1>4, <1>5, <1>6, <1>7, <1>8, <1>10
       DEF Next, Request, Finish, Worker, ListSeats, HoldReplay

LEMMA OwnInvariant ==
    ASSUME "cancel" \in Isolated
    PROVE  Spec => []OwnInv
  <1> QED BY OwnInvInit, OwnInvStep, PTL DEF Spec

(* No two bookings own the same seat, as long as cancellations run alone:  *)
(* hold requests, their retries, confirmations, releases and expiries may  *)
(* overlap in any way.                                                     *)
THEOREM NobodyDoubleBooked ==
    ASSUME "cancel" \in Isolated
    PROVE  Spec => []NoDoubleBooking
  <1>1. OwnInv => NoDoubleBooking
    BY DEF OwnInv
  <1> QED BY <1>1, OwnInvariant, PTL

(* TripSeat, which the seat map shows, says who owns the seats, as long as *)
(* cancellations run alone.                                                *)
THEOREM SeatMapIsRight ==
    ASSUME "cancel" \in Isolated
    PROVE  Spec => []SeatOwnership
  <1>1. OwnInv => SeatOwnership
    BY DEF OwnInv, SeatsOK, SeatOwnership, Owning
  <1> QED BY <1>1, OwnInvariant, PTL

-----------------------------------------------------------------------------
(* The number of available seats.                                          *)

BookedNow == {s \in Seats : seat[s] = "BOOKED"}

(* A step that books no seat and unbooks none leaves the count right.      *)
LEMMA SameCount ==
    ASSUME AvailabilityCount, UNCHANGED availableSeatCount,
           \A s \in Seats : seat'[s] = "BOOKED" <=> seat[s] = "BOOKED"
    PROVE  AvailabilityCount'
  <1>1. {s \in Seats : seat'[s] = "BOOKED"} = {s \in Seats : seat[s] = "BOOKED"}
    OBVIOUS
  <1> QED BY <1>1 DEF AvailabilityCount

(* releaseActiveSeatHold touches HELD seats only.                          *)
LEMMA ReleaseKeepsCount ==
    ASSUME AvailabilityCount, NEW E, NEW status, ReleaseActiveSeatHolds(E, status)
    PROVE  AvailabilityCount'
  <1>1. \A s \in Seats : seat'[s] = "BOOKED" <=> seat[s] = "BOOKED"
    BY DEF ReleaseActiveSeatHolds, FreedSeats
  <1> QED BY <1>1, SameCount DEF ReleaseActiveSeatHolds

(* A confirmation subtracts the seats it books.                            *)
LEMMA ConfirmKeepsCount ==
    ASSUME OwnInv, AvailabilityCount, NEW r \in Requests, ConfirmCommit(r)
    PROVE  AvailabilityCount'
  <1> DEFINE S == tx[r].seats
  <1>1. S \in SUBSET Seats /\ BookedNow \in SUBSET Seats /\ availableSeatCount \in Int
    BY DEF OwnInv, HoldInv, TypeOK, Transactions, BookedNow
  <1>2. S \cap BookedNow = {}
    BY DEF ConfirmCommit, StillHeld, BookedNow
  <1>3. {s \in Seats : seat'[s] = "BOOKED"} = BookedNow \cup S
    BY <1>1 DEF ConfirmCommit, BookedNow
  <1>4. IsFiniteSet(S) /\ IsFiniteSet(BookedNow)
    BY <1>1, SeatsAssumption, FS_Subset
  <1>5. Cardinality(S) \in Nat /\ Cardinality(BookedNow) \in Nat /\ Cardinality(Seats) \in Nat
    BY <1>1, SeatCount
  <1>6. Cardinality(BookedNow \cup S) = Cardinality(BookedNow) + Cardinality(S)
    <2>1. BookedNow \cap S = {}
      BY <1>2
    <2> QED BY <1>4, <1>5, <2>1, FS_Union, FS_EmptySet
  <1>7. availableSeatCount' = availableSeatCount - Cardinality(S)
    BY DEF ConfirmCommit
  <1>8. availableSeatCount + Cardinality(BookedNow) = Cardinality(Seats)
    BY DEF AvailabilityCount, BookedNow
  <1> HIDE DEF S
  <1>9. Cardinality({s \in Seats : seat'[s] = "BOOKED"}) = Cardinality(BookedNow) + Cardinality(S)
    BY <1>3, <1>6, Zenon
  <1>10. availableSeatCount' + (Cardinality(BookedNow) + Cardinality(S)) = Cardinality(Seats)
    BY <1>1, <1>5, <1>7, <1>8
  <1> QED BY <1>9, <1>10, Zenon DEF AvailabilityCount

(* A cancellation that runs alone adds the booked seats it frees.          *)
LEMMA CancelKeepsCount ==
    ASSUME OwnInv, AvailabilityCount, NEW r \in Requests, CancelCommit(r)
    PROVE  AvailabilityCount'
  <1> DEFINE t == tx[r]
  <1> DEFINE K == tx[r].booked
  <1>1. /\ t.b \in Bookings /\ t.seats = SeatsOf(t.b, Owning) /\ K = SeatsOf(t.b, {"BOOKED"})
        /\ availableSeatCount \in Int
    BY DEF OwnInv, HoldInv, CancelCommit, TxOK, CancelOK, TypeOK
  <1>2. K \in SUBSET BookedNow
    BY <1>1 DEF OwnInv, SeatsOK, SeatsOf, BookedNow, Owning
  <1>3. {s \in Seats : seat'[s] = "BOOKED"} = BookedNow \ K
    <2>1. ASSUME NEW s \in Seats, seat[s] = "BOOKED" PROVE s \in t.seats <=> s \in K
      BY <1>1, <2>1 DEF OwnInv, SeatsOK, SeatsOf, Owning
    <2> QED BY <2>1 DEF CancelCommit, BookedNow
  <1>4. IsFiniteSet(BookedNow)
    BY SeatsAssumption, FS_Subset DEF BookedNow
  <1>5. Cardinality(K) \in Nat /\ Cardinality(BookedNow) \in Nat /\ Cardinality(Seats) \in Nat
    <2>1. K \in SUBSET Seats /\ BookedNow \in SUBSET Seats
      BY <1>2 DEF BookedNow
    <2> QED BY <2>1, SeatCount
  <1>6. Cardinality(BookedNow \ K) = Cardinality(BookedNow) - Cardinality(K)
    <2>1. BookedNow \cap K = K
      BY <1>2
    <2> QED BY <1>4, <2>1, FS_Difference
  <1>7. availableSeatCount' = availableSeatCount + Cardinality(K)
    BY DEF CancelCommit
  <1>8. availableSeatCount + Cardinality(BookedNow) = Cardinality(Seats)
    BY DEF AvailabilityCount, BookedNow
  <1> HIDE DEF K
  <1>9. Cardinality({s \in Seats : seat'[s] = "BOOKED"}) = Cardinality(BookedNow) - Cardinality(K)
    BY <1>3, <1>6, Zenon
  <1>10. availableSeatCount' + (Cardinality(BookedNow) - Cardinality(K)) = Cardinality(Seats)
    BY <1>1, <1>5, <1>7, <1>8
  <1> QED BY <1>9, <1>10, Zenon DEF AvailabilityCount

LEMMA CountStep ==
    OwnInv /\ AvailabilityCount /\ [Next]_vars => AvailabilityCount'
  <1> SUFFICES ASSUME OwnInv, AvailabilityCount, [Next]_vars PROVE AvailabilityCount'
    OBVIOUS
  <1>1. CASE UNCHANGED rows
    BY <1>1 DEF AvailabilityCount, rows
  <1>2. ASSUME NEW r \in Requests, HoldCommit(r)
        PROVE  AvailabilityCount'
    <2>1. \A s \in Seats : seat'[s] = "BOOKED" <=> seat[s] = "BOOKED"
      BY <1>2 DEF HoldCommit, FreedSeats
    <2> QED BY <1>2, <2>1, SameCount DEF HoldCommit
  <1>3. ASSUME NEW r \in Requests, ReleaseCommit(r)
        PROVE  AvailabilityCount'
    BY <1>1, <1>3, ReleaseKeepsCount DEF ReleaseCommit
  <1>4. ASSUME NEW b \in Bookings, WorkerExpire(b)
        PROVE  AvailabilityCount'
    BY <1>1, <1>4, ReleaseKeepsCount DEF WorkerExpire
  <1>5. ASSUME NEW r \in Requests, NEW b \in Bookings, NEW S \in SUBSET Seats, NEW actor \in Actors,
               \/ HoldBegin(r, b, S) \/ ConfirmBegin(r, b) \/ ReleaseBegin(r, b)
               \/ CancelBegin(r, b, actor) \/ Abort(r)
        PROVE  UNCHANGED rows
    BY <1>5 DEF HoldBegin, ConfirmBegin, ReleaseBegin, CancelBegin, Abort
  <1>6. ASSUME WorkerScan \/ WorkerCrash \/ Environment \/ UNCHANGED vars
        PROVE  UNCHANGED rows
    BY <1>6 DEF WorkerScan, WorkerCrash, Environment, LockTtlElapses, DeparturePasses,
                HoldTtlElapses, vars
  <1> QED
    BY <1>1, <1>2, <1>3, <1>4, <1>5, <1>6, ConfirmKeepsCount, CancelKeepsCount, ReleaseKeepsCount
       DEF Next, Request, Finish, Worker, ListSeats, HoldReplay,
           HoldBegin, ConfirmBegin, ReleaseBegin, CancelBegin, Abort

LEMMA CountInit == Init => AvailabilityCount
  <1> SUFFICES ASSUME Init PROVE AvailabilityCount  OBVIOUS
  <1>1. {s \in Seats : seat[s] = "BOOKED"} = {}
    BY DEF Init, NoBookings
  <1>2. Cardinality(Seats) \in Nat
    BY SeatCount
  <1> QED BY <1>1, <1>2, FS_EmptySet DEF Init, NoBookings, AvailabilityCount

(* The number of available seats that search and the driver see is the     *)
(* capacity less the booked seats, as long as cancellations run alone.     *)
THEOREM CountIsRight ==
    ASSUME "cancel" \in Isolated
    PROVE  Spec => []AvailabilityCount
  <1> QED BY CountInit, CountStep, OwnInvariant, PTL DEF Spec

-----------------------------------------------------------------------------
(* The booking and its hold.                                               *)

(* The seats of a booking stay its seats: no row is ever removed.          *)
LEMMA RowsStay ==
    ASSUME HoldInv, [Next]_vars
    PROVE  \A b \in Bookings, s \in Seats : bookingSeat[b][s] # "NONE" => bookingSeat'[b][s] # "NONE"
  <1>1. CASE UNCHANGED rows
    BY <1>1 DEF rows
  <1>2. ASSUME NEW r \in Requests, HoldCommit(r)
        PROVE  \A b \in Bookings, s \in Seats : bookingSeat[b][s] # "NONE" => bookingSeat'[b][s] # "NONE"
    <2>1. tx[r].b \in Bookings /\ hold[tx[r].b] = "NONE"
      BY <1>2 DEF HoldCommit, HoldInv, TxOK
    <2>2. \A s \in Seats : bookingSeat[tx[r].b][s] = "NONE"
      BY <2>1 DEF HoldInv, RowsOK
    <2> QED BY <1>2, <2>2 DEF HoldCommit, ReleasedRows
  <1>3. ASSUME NEW r \in Requests, ConfirmCommit(r) \/ CancelCommit(r)
        PROVE  \A b \in Bookings, s \in Seats : bookingSeat[b][s] # "NONE" => bookingSeat'[b][s] # "NONE"
    BY <1>3 DEF ConfirmCommit, CancelCommit, HoldInv, TypeOK
  <1>4. ASSUME NEW E, NEW status, ReleaseActiveSeatHolds(E, status)
        PROVE  \A b \in Bookings, s \in Seats : bookingSeat[b][s] # "NONE" => bookingSeat'[b][s] # "NONE"
    BY <1>4 DEF ReleaseActiveSeatHolds, ReleasedRows
  <1>5. ASSUME NEW r \in Requests, NEW b \in Bookings, NEW S \in SUBSET Seats,
               HoldBegin(r, b, S) \/ ConfirmBegin(r, b) \/ ReleaseBegin(r, b) \/ Abort(r)
        PROVE  UNCHANGED rows
    BY <1>5 DEF HoldBegin, ConfirmBegin, ReleaseBegin, Abort
  <1>6. ASSUME NEW r \in Requests, NEW b \in Bookings, NEW actor \in Actors, CancelBegin(r, b, actor)
        PROVE  UNCHANGED rows
    BY <1>6 DEF CancelBegin
  <1>7. ASSUME WorkerScan \/ WorkerCrash \/ Environment \/ UNCHANGED vars
        PROVE  UNCHANGED rows
    BY <1>7 DEF WorkerScan, WorkerCrash, Environment, LockTtlElapses, DeparturePasses,
                HoldTtlElapses, vars
  <1> QED
    BY <1>1, <1>2, <1>3, <1>4, <1>5, <1>6, <1>7
       DEF Next, Request, Finish, Worker, ListSeats, HoldReplay, ReleaseCommit, WorkerExpire, Abort

(* A seat leaves HELD only together with the hold that took it, as long as *)
(* cancellations run alone.                                                *)
THEOREM HeldSeatsStayHeld ==
    ASSUME "cancel" \in Isolated
    PROVE  Spec => HeldUntilHoldEnds
  <1>1. OwnInv /\ [Next]_vars =>
            [\A b \in Bookings : \A s \in Seats :
                (hold[b] = "ACTIVE" /\ hold'[b] = "ACTIVE" /\ bookingSeat[b][s] = "HELD")
                    => seat'[s] = "HELD"]_vars
    <2> SUFFICES ASSUME OwnInv, [Next]_vars, NEW b \in Bookings, NEW s \in Seats,
                        hold'[b] = "ACTIVE", bookingSeat[b][s] = "HELD"
                 PROVE  seat'[s] = "HELD"
      OBVIOUS
    <2>1. OwnInv'
      BY OwnInvStep
    <2>2. bookingSeat'[b][s] # "NONE"
      BY RowsStay DEF OwnInv
    <2>3. bookingSeat'[b][s] = "HELD"
      BY <2>1, <2>2 DEF OwnInv, HoldInv, RowsOK
    <2> QED BY <2>1, <2>3 DEF OwnInv, SeatsOK, Owning
  <1> QED BY <1>1, OwnInvariant, PTL DEF Spec, HeldUntilHoldEnds

\* A cancellation in flight has found the booking alive, and it still is.
CancelsLiving ==
    \A r \in Requests : tx[r].op = "cancel" =>
        Cancellable(tx[r].b) /\ tx[r].to \in CancelledStatuses

Ended == CancelledStatuses \cup {"EXPIRED"}

\* What a step does to the bookings, and to the cancellations in flight.
BookingFollows ==
    /\ BookingMatchesHold'
    /\ \A b \in Bookings : booking[b] \in Ended => booking'[b] = booking[b]
    /\ CancelsLiving'

(* Ending ACTIVE holds expires their bookings (releaseActiveSeatHold).     *)
LEMMA ReleaseFollows ==
    ASSUME HoldInv, BookingMatchesHold, NEW E \in SUBSET Bookings, NEW status \in {"EXPIRED", "RELEASED"},
           \A e \in E : hold[e] = "ACTIVE", ReleaseActiveSeatHolds(E, status),
           \A q \in Requests : tx'[q].op # "cancel"
    PROVE  BookingFollows
  <1>1. \A b \in Bookings : /\ hold'[b] = IF b \in E THEN status ELSE hold[b]
                            /\ booking'[b] = IF b \in E THEN "EXPIRED" ELSE booking[b]
    BY DEF ReleaseActiveSeatHolds
  <1> QED BY <1>1 DEF BookingMatchesHold, BookingFollows, CancelsLiving, Ended, CancelledStatuses

(* A step that leaves the rows alone and begins no cancellation.           *)
LEMMA StutterFollows ==
    ASSUME HoldInv, BookingMatchesHold, CancelsLiving, UNCHANGED rows,
           \A q \in Requests : tx'[q].op = "cancel" => tx'[q] = tx[q]
    PROVE  BookingFollows
  BY DEF BookingMatchesHold, BookingFollows, CancelsLiving, Cancellable, rows

(* The commits.                                                            *)
LEMMA CommitFollows ==
    ASSUME OwnInv, BookingMatchesHold, CancelsLiving, NEW r \in Requests,
           HoldCommit(r) \/ ConfirmCommit(r) \/ ReleaseCommit(r) \/ CancelCommit(r),
           \A q \in Requests : tx'[q].op # "cancel"
    PROVE  BookingFollows
  <1>1. tx[r].b \in Bookings /\ booking \in [Bookings -> BookingStatuses]
        /\ hold \in [Bookings -> HoldStatuses]
    BY DEF OwnInv, HoldInv, TxOK, TypeOK, HoldCommit, ConfirmCommit, ReleaseCommit, CancelCommit
  <1>2. CASE HoldCommit(r)
    <2>1. hold[tx[r].b] = "NONE" /\ booking[tx[r].b] = "NONE" /\ \A e \in tx[r].expired : hold[e] = "ACTIVE"
      BY <1>1, <1>2 DEF HoldCommit, OwnInv, HoldInv, TxOK, Started
    <2>2. \A b \in Bookings :
              /\ hold'[b] = IF b = tx[r].b THEN "ACTIVE"
                            ELSE IF b \in tx[r].expired THEN "EXPIRED" ELSE hold[b]
              /\ booking'[b] = IF b = tx[r].b THEN "HOLD"
                               ELSE IF b \in tx[r].expired THEN "EXPIRED" ELSE booking[b]
      BY <1>2 DEF HoldCommit
    <2> QED BY <2>1, <2>2 DEF BookingMatchesHold, BookingFollows, CancelsLiving, Ended, CancelledStatuses
  <1>3. CASE ConfirmCommit(r)
    <2>1. /\ hold[tx[r].b] # "NONE" /\ tx[r].seats = Items(tx[r].b)
          /\ \A s \in tx[r].seats : bookingSeat[tx[r].b][s] = "HELD"
      BY <1>3 DEF ConfirmCommit, StillHeld, OwnInv, HoldInv, TxOK
    <2>2. hold[tx[r].b] = "ACTIVE"
      BY <1>1, <2>1 DEF OwnInv, HoldInv, RowsOK, Items
    <2>3. \A b \in Bookings :
              /\ hold'[b] = IF b = tx[r].b THEN "CONFIRMED" ELSE hold[b]
              /\ booking'[b] = IF b = tx[r].b THEN "CONFIRMED" ELSE booking[b]
      BY <1>1, <1>3 DEF ConfirmCommit
    <2> QED BY <1>1, <2>2, <2>3 DEF BookingMatchesHold, BookingFollows, CancelsLiving, Ended, CancelledStatuses
  <1>4. CASE ReleaseCommit(r)
    <2>1. CASE UNCHANGED rows
      BY <2>1, StutterFollows DEF OwnInv
    <2>2. CASE hold[tx[r].b] = "ACTIVE" /\ ReleaseActiveSeatHolds({tx[r].b}, "RELEASED")
      BY <1>1, <2>2, ReleaseFollows DEF OwnInv
    <2> QED BY <1>4, <2>1, <2>2 DEF ReleaseCommit
  <1>5. CASE CancelCommit(r)
    <2>1. Cancellable(tx[r].b) /\ tx[r].to \in CancelledStatuses
      BY <1>5 DEF CancelCommit, CancelsLiving
    <2>2. \A b \in Bookings :
              /\ hold'[b] = IF b = tx[r].b /\ hold[b] = "ACTIVE" THEN "CANCELLED" ELSE hold[b]
              /\ booking'[b] = IF b = tx[r].b THEN tx[r].to ELSE booking[b]
      BY <1>1, <1>5 DEF CancelCommit
    <2> QED BY <1>1, <2>1, <2>2 DEF BookingMatchesHold, BookingFollows, CancelsLiving, Cancellable, Ended, CancelledStatuses
  <1> QED BY <1>2, <1>3, <1>4, <1>5

LEMMA FollowStep ==
    ASSUME "cancel" \in Isolated, OwnInv, BookingMatchesHold, CancelsLiving, [Next]_vars
    PROVE  BookingFollows
  <1>1. ASSUME NEW r \in Requests, NEW t, Begin(r, t), t.op # "cancel", UNCHANGED rows
        PROVE  BookingFollows
    <2>1. \A q \in Requests : tx'[q] = IF q = r THEN t ELSE tx[q]
      BY <1>1 DEF OwnInv, HoldInv, TypeOK, Begin
    <2> QED BY <1>1, <2>1, StutterFollows DEF OwnInv
  <1>2. ASSUME NEW r \in Requests, NEW b \in Bookings, NEW S \in SUBSET Seats, HoldBegin(r, b, S)
        PROVE  BookingFollows
    <2> DEFINE t == [Idle EXCEPT !.op = "hold", !.b = b, !.seats = S, !.expired = UnlockedHolds]
    <2>1. Begin(r, t) /\ t.op # "cancel" /\ UNCHANGED rows
      BY <1>2 DEF HoldBegin, Idle
    <2> QED BY <1>1, <2>1
  <1>3. ASSUME NEW r \in Requests, NEW b \in Bookings, ConfirmBegin(r, b)
        PROVE  BookingFollows
    <2> DEFINE t == [Idle EXCEPT !.op = "confirm", !.b = b, !.seats = Items(b)]
    <2>1. Begin(r, t) /\ t.op # "cancel" /\ UNCHANGED rows
      BY <1>3 DEF ConfirmBegin, Idle
    <2> QED BY <1>1, <2>1
  <1>4. ASSUME NEW r \in Requests, NEW b \in Bookings, ReleaseBegin(r, b)
        PROVE  BookingFollows
    <2> DEFINE t == [Idle EXCEPT !.op = "release", !.b = b, !.seats = Items(b)]
    <2>1. Begin(r, t) /\ t.op # "cancel" /\ UNCHANGED rows
      BY <1>4 DEF ReleaseBegin, Idle
    <2> QED BY <1>1, <2>1
  <1>5. ASSUME NEW r \in Requests, NEW b \in Bookings, NEW actor \in Actors, CancelBegin(r, b, actor)
        PROVE  BookingFollows
    <2> DEFINE t == [Idle EXCEPT !.op = "cancel", !.b = b, !.to = CancelledBy(actor),
                                 !.seats = SeatsOf(b, {"HELD", "BOOKED"}), !.booked = BookedSeats(b)]
    <2>1. /\ Begin(r, t) /\ t.b = b /\ UNCHANGED rows /\ Cancellable(b)
          /\ t.to \in CancelledStatuses
      BY <1>5 DEF CancelBegin, Idle, CancelledBy, CancelledStatuses
    <2>2. \A q \in Requests : tx'[q] = IF q = r THEN t ELSE tx[q]
      BY <2>1 DEF OwnInv, HoldInv, TypeOK, Begin
    <2> HIDE DEF t
    <2>3. CancelsLiving'
      BY <2>1, <2>2 DEF CancelsLiving, Cancellable, rows
    <2> QED BY <2>1, <2>3 DEF BookingFollows, BookingMatchesHold, rows
  <1>6. ASSUME NEW r \in Requests, tx[r] # Idle, End(r)
        PROVE  \A q \in Requests : tx'[q] # tx[q] => tx'[q] = Idle
    BY <1>6 DEF OwnInv, HoldInv, TypeOK, End
  <1>7. ASSUME NEW r \in Requests,
               HoldCommit(r) \/ ConfirmCommit(r) \/ ReleaseCommit(r) \/ CancelCommit(r)
        PROVE  BookingFollows
    <2>1. tx[r] # Idle /\ End(r)
      BY <1>7, CommitsAreNotIdle
    <2>2. \A q \in Requests : tx'[q] = IF q = r THEN Idle ELSE tx[q]
      BY <2>1 DEF OwnInv, HoldInv, TypeOK, End
    <2>3. CASE \E q \in Requests : q # r /\ tx[q].op = "cancel"
      BY <2>1, <2>3 DEF OwnInv, CancelOK
    <2>4. CASE ~ \E q \in Requests : q # r /\ tx[q].op = "cancel"
      <3>1. \A q \in Requests : tx'[q].op # "cancel"
        BY <2>2, <2>4 DEF Idle
      <3> QED BY <1>7, <3>1, CommitFollows
    <2> QED BY <2>3, <2>4
  <1>8. ASSUME NEW r \in Requests, Abort(r)
        PROVE  BookingFollows
    <2>1. \A q \in Requests : tx'[q].op = "cancel" => tx'[q] = tx[q]
      BY <1>6, <1>8 DEF Abort, Idle
    <2> QED BY <1>8, <2>1, StutterFollows DEF OwnInv, Abort
  <1>9. ASSUME MayRun, UNCHANGED tx, NEW E \in SUBSET Bookings, \A e \in E : hold[e] = "ACTIVE",
               ReleaseActiveSeatHolds(E, "EXPIRED")
        PROVE  BookingFollows
    BY <1>9, NoCancelInFlight, ReleaseFollows DEF OwnInv
  <1>10. CASE ListSeats \/ (\E b \in Bookings : HoldReplay(b))
    <2>1. UnlockedHolds \in SUBSET Bookings /\ \A e \in UnlockedHolds : hold[e] = "ACTIVE"
      BY DEF UnlockedHolds, LapsedHolds
    <2> QED BY <1>9, <1>10, <2>1 DEF ListSeats, HoldReplay
  <1>11. ASSUME NEW b \in Bookings, WorkerExpire(b)
         PROVE  BookingFollows
    <2>1. CASE UNCHANGED rows
      BY <1>11, <2>1, StutterFollows DEF OwnInv, WorkerExpire
    <2>2. CASE hold[b] = "ACTIVE" /\ ReleaseActiveSeatHolds({b}, "EXPIRED")
      <3>1. {b} \in SUBSET Bookings /\ \A e \in {b} : hold[e] = "ACTIVE"
        BY <2>2
      <3> QED BY <1>9, <1>11, <2>2, <3>1 DEF WorkerExpire
    <2> QED BY <1>11, <2>1, <2>2 DEF WorkerExpire
  <1>12. CASE WorkerScan \/ WorkerCrash \/ Environment \/ UNCHANGED vars
    <2>1. UNCHANGED rows /\ UNCHANGED tx
      BY <1>12 DEF WorkerScan, WorkerCrash, Environment, LockTtlElapses, DeparturePasses,
                  HoldTtlElapses, vars
    <2> QED BY <2>1, StutterFollows DEF OwnInv
  <1> QED
    BY <1>2, <1>3, <1>4, <1>5, <1>7, <1>8, <1>10, <1>11, <1>12 DEF Next, Request, Finish, Worker

LEMMA FollowInit == Init => BookingMatchesHold /\ CancelsLiving
  BY DEF Init, NoBookings, BookingMatchesHold, CancelsLiving, Idle

(* A booking goes where its hold goes and, once it is over, stays so, as   *)
(* long as cancellations run alone.                                        *)
THEOREM BookingsFollowHolds ==
    ASSUME "cancel" \in Isolated
    PROVE  Spec => BookingFollowsHold
  <1>1. OwnInv /\ BookingMatchesHold /\ CancelsLiving /\ [Next]_vars => (BookingMatchesHold /\ CancelsLiving)'
    BY FollowStep DEF BookingFollows
  <1>2. OwnInv /\ BookingMatchesHold /\ CancelsLiving /\ [Next]_vars =>
            [/\ BookingMatchesHold'
             /\ \A b \in Bookings : booking[b] \in CancelledStatuses \cup {"EXPIRED"}
                    => booking'[b] = booking[b]]_vars
    BY FollowStep DEF BookingFollows, Ended
  <1> QED BY <1>1, <1>2, FollowInit, OwnInvariant, PTL DEF Spec, BookingFollowsHold

-----------------------------------------------------------------------------
(* The refinement mapping, read off the rows.                              *)

OwnerRead ==
    \A s \in Seats :
        /\ OwnerOf(s) \in Bookings \cup {NoBooking}
        /\ \A b \in Bookings : OwnerOf(s) = b <=> bookingSeat[b][s] \in Owning

PhaseRead ==
    \A b \in Bookings :
        PhaseOf(b) = IF hold[b] = "NONE" THEN "new"
                     ELSE IF hold[b] = "ACTIVE" THEN "held"
                     ELSE IF \E s \in Seats : bookingSeat[b][s] = "BOOKED" THEN "booked"
                     ELSE "over"

(* The owner of a seat is the one booking with a live row for it.          *)
LEMMA OwnerIsRead == OwnInv => OwnerRead
  <1> SUFFICES ASSUME OwnInv, NEW s \in Seats
               PROVE  /\ OwnerOf(s) \in Bookings \cup {NoBooking}
                      /\ \A b \in Bookings : OwnerOf(s) = b <=> bookingSeat[b][s] \in Owning
    BY DEF OwnerRead
  <1>1. \A b \in Bookings : s \in Live(b) <=> bookingSeat[b][s] \in Owning
    BY DEF Live, SeatsOf, Owning
  <1>2. CASE \E b \in Bookings : s \in Live(b)
    <2>1. OwnerOf(s) \in Bookings /\ s \in Live(OwnerOf(s))
      BY <1>2 DEF OwnerOf
    <2>2. \A a, b \in Bookings : bookingSeat[a][s] \in Owning /\ bookingSeat[b][s] \in Owning => a = b
      BY DEF OwnInv, NoDoubleBooking, Owning
    <2> QED BY <1>1, <2>1, <2>2
  <1>3. CASE ~ \E b \in Bookings : s \in Live(b)
    <2>1. OwnerOf(s) = NoBooking
      BY <1>3 DEF OwnerOf
    <2> QED BY <1>1, <1>3, <2>1, NoBookingAssumption
  <1> QED BY <1>2, <1>3

(* A booking is held exactly while its hold is ACTIVE.                     *)
LEMMA PhaseIsRead == OwnInv => PhaseRead
  <1> SUFFICES ASSUME OwnInv, NEW b \in Bookings
               PROVE  PhaseOf(b) = IF hold[b] = "NONE" THEN "new"
                                   ELSE IF hold[b] = "ACTIVE" THEN "held"
                                   ELSE IF \E s \in Seats : bookingSeat[b][s] = "BOOKED" THEN "booked"
                                   ELSE "over"
    BY DEF PhaseRead
  <1>1. hold[b] # "NONE" => (SeatsOf(b, {"HELD"}) # {} <=> hold[b] = "ACTIVE")
    <2>1. SeatsOf(b, {"HELD"}) # {} => hold[b] = "ACTIVE"
      BY DEF OwnInv, HoldInv, RowsOK, SeatsOf
    <2>2. hold[b] = "ACTIVE" => \E s \in Seats : bookingSeat[b][s] = "HELD"
      BY DEF OwnInv, HoldInv, RowsOK
    <2> QED BY <2>1, <2>2 DEF SeatsOf
  <1>2. SeatsOf(b, {"BOOKED"}) # {} <=> \E s \in Seats : bookingSeat[b][s] = "BOOKED"
    BY DEF SeatsOf
  <1> QED BY <1>1, <1>2 DEF PhaseOf

(* The same in the next state.                                             *)
LEMMA ReadNext == OwnInv' => OwnerRead' /\ PhaseRead'
  BY OwnerIsRead, PhaseIsRead, PTL

(* Both modules count with the operator of FiniteSets.                     *)
LEMMA SameCardinality == \A S : Allocation!Cardinality(S) = Cardinality(S)
  BY DEF Allocation!Cardinality, Cardinality

-----------------------------------------------------------------------------
(* The steps.                                                              *)

(* A step that leaves the rows alone leaves the allocation alone.          *)
LEMMA RowsMapToStutter ==
    ASSUME UNCHANGED rows
    PROVE  UNCHANGED Allocation!vars
  <1>1. \A b \in Bookings : \A S : SeatsOf(b, S)' = SeatsOf(b, S)
    BY DEF rows, SeatsOf
  <1>2. \A s \in Seats : OwnerOf(s)' = OwnerOf(s)
    BY <1>1 DEF OwnerOf, Live
  <1>3. \A b \in Bookings : PhaseOf(b)' = PhaseOf(b)
    BY <1>1 DEF PhaseOf, rows
  <1> QED BY <1>2, <1>3 DEF Allocation!vars, rows

(* Expiry and release are GiveBack.                                        *)
LEMMA ReleaseMapsToGiveBack ==
    ASSUME OwnInv, OwnInv', NEW E \in SUBSET Bookings, E # {}, NEW status \in {"RELEASED", "EXPIRED"},
           \A e \in E : hold[e] = "ACTIVE", ReleaseActiveSeatHolds(E, status)
    PROVE  Allocation!Next
  <1>1. OwnerRead /\ PhaseRead /\ OwnerRead' /\ PhaseRead'
    BY OwnerIsRead, PhaseIsRead, ReadNext
  <1>2. \A b \in Bookings, s \in Seats :
            bookingSeat'[b][s] = IF b \in E /\ bookingSeat[b][s] = "HELD" THEN "RELEASED"
                                 ELSE bookingSeat[b][s]
    BY DEF ReleaseActiveSeatHolds, ReleasedRows
  <1>3. \A b \in Bookings : hold'[b] = IF b \in E THEN status ELSE hold[b]
    BY DEF ReleaseActiveSeatHolds
  <1>4. \A e \in E, s \in Seats : bookingSeat[e][s] \in {"NONE", "HELD"}
    BY DEF OwnInv, HoldInv, RowsOK
  <1>5. \A s \in Seats : OwnerOf(s)' = IF OwnerOf(s) \in E THEN NoBooking ELSE OwnerOf(s)
    <2> SUFFICES ASSUME NEW s \in Seats
                 PROVE  OwnerOf(s)' = IF OwnerOf(s) \in E THEN NoBooking ELSE OwnerOf(s)
      OBVIOUS
    <2>1. \A b \in Bookings : OwnerOf(s)' = b <=> b \notin E /\ OwnerOf(s) = b
      BY <1>1, <1>2, <1>4 DEF OwnerRead, Owning
    <2>2. OwnerOf(s) \in Bookings \cup {NoBooking} /\ OwnerOf(s)' \in Bookings \cup {NoBooking}
      BY <1>1 DEF OwnerRead
    <2> QED BY <2>1, <2>2, NoBookingAssumption
  <1>6. \A b \in Bookings : PhaseOf(b)' = IF b \in E THEN "over" ELSE PhaseOf(b)
    BY <1>1, <1>2, <1>3, <1>4 DEF PhaseRead
  <1>7. E \in SUBSET Allocation!InPhase("held")
    BY <1>1 DEF PhaseRead, Allocation!InPhase
  <1>8. Allocation!GiveBack(E)
    BY <1>5, <1>6 DEF Allocation!GiveBack, ReleaseActiveSeatHolds
  <1> QED BY <1>7, <1>8 DEF Allocation!Next

(* POST /bookings/holds is Hold.                                           *)
LEMMA HoldMapsToHold ==
    ASSUME OwnInv, OwnInv', NEW r \in Requests, HoldCommit(r)
    PROVE  Allocation!Next
  <1> DEFINE t == tx[r]
  <1>1. OwnerRead /\ PhaseRead /\ OwnerRead' /\ PhaseRead'
    BY OwnerIsRead, PhaseIsRead, ReadNext
  <1>2. /\ t.op = "hold" /\ hold[t.b] = "NONE" /\ t.b \in Bookings /\ t.seats # {}
        /\ t.seats \in SUBSET Seats /\ t.expired \in SUBSET Bookings
        /\ \A e \in t.expired : hold[e] = "ACTIVE"
    BY DEF OwnInv, HoldInv, HoldCommit, TxOK, TypeOK, Transactions
  <1>3. \A s \in Seats : bookingSeat[t.b][s] = "NONE"
    BY <1>2 DEF OwnInv, HoldInv, RowsOK
  <1>4. \A e \in t.expired, s \in Seats : bookingSeat[e][s] \in {"NONE", "HELD"}
    BY <1>2 DEF OwnInv, HoldInv, RowsOK
  <1>5. \A b \in Bookings, s \in Seats :
            bookingSeat'[b][s] = IF b = t.b THEN (IF s \in t.seats THEN "HELD" ELSE "NONE")
                                 ELSE IF b \in t.expired /\ bookingSeat[b][s] = "HELD" THEN "RELEASED"
                                 ELSE bookingSeat[b][s]
    BY DEF HoldCommit, ReleasedRows
  <1>6. \A b \in Bookings : hold'[b] = IF b = t.b THEN "ACTIVE"
                                       ELSE IF b \in t.expired THEN "EXPIRED" ELSE hold[b]
    BY DEF HoldCommit
  <1>7. \A s \in t.seats : \/ seat[s] = "AVAILABLE"
                           \/ \E e \in t.expired : bookingSeat[e][s] # "NONE"
    BY <1>2 DEF OwnInv, HoldInv, ChosenFree
  <1>8. UNCHANGED availableSeatCount
    BY DEF HoldCommit
  <1> HIDE DEF t
  <1>9. \A s \in t.seats : OwnerOf(s) \in t.expired \cup {NoBooking}
    <2> SUFFICES ASSUME NEW s \in t.seats, OwnerOf(s) # NoBooking PROVE OwnerOf(s) \in t.expired
      OBVIOUS
    <2>1. s \in Seats
      BY <1>2
    <2>2. OwnerOf(s) \in Bookings
      BY <1>1, <2>1 DEF OwnerRead
    <2>3. bookingSeat[OwnerOf(s)][s] \in Owning
      BY <1>1, <2>1, <2>2 DEF OwnerRead
    <2>4. seat[s] # "AVAILABLE"
      BY <2>1, <2>2, <2>3 DEF OwnInv, SeatsOK, Owning
    <2>5. PICK e \in t.expired : bookingSeat[e][s] # "NONE"
      BY <1>7, <2>4
    <2>6. OwnerOf(s) = e
      BY <1>1, <1>2, <1>4, <2>1, <2>5 DEF OwnerRead, Owning
    <2> QED BY <2>6
  <1>10. \A s \in Seats : OwnerOf(s)' = IF s \in t.seats THEN t.b
                                        ELSE IF OwnerOf(s) \in t.expired THEN NoBooking ELSE OwnerOf(s)
    <2> SUFFICES ASSUME NEW s \in Seats
                 PROVE  OwnerOf(s)' = IF s \in t.seats THEN t.b
                                      ELSE IF OwnerOf(s) \in t.expired THEN NoBooking ELSE OwnerOf(s)
      OBVIOUS
    <2>1. CASE s \in t.seats
      BY <1>1, <1>2, <1>5, <2>1 DEF OwnerRead, Owning
    <2>2. CASE s \notin t.seats
      <3>1. \A b \in Bookings : OwnerOf(s)' = b <=> b \notin t.expired /\ OwnerOf(s) = b
        BY <1>1, <1>3, <1>4, <1>5, <2>2 DEF OwnerRead, Owning
      <3>2. OwnerOf(s) \in Bookings \cup {NoBooking} /\ OwnerOf(s)' \in Bookings \cup {NoBooking}
        BY <1>1 DEF OwnerRead
      <3> QED BY <1>2, <2>2, <3>1, <3>2, NoBookingAssumption
    <2> QED BY <2>1, <2>2
  <1>11. \A b \in Bookings : PhaseOf(b)' = IF b = t.b THEN "held"
                                           ELSE IF b \in t.expired THEN "over" ELSE PhaseOf(b)
    BY <1>1, <1>2, <1>4, <1>5, <1>6 DEF PhaseRead
  <1>12. PhaseOf(t.b) = "new" /\ t.expired \in SUBSET Allocation!InPhase("held")
    BY <1>1, <1>2 DEF PhaseRead, Allocation!InPhase
  <1>13. Allocation!Hold(t.b, t.seats, t.expired)
    BY <1>2, <1>8, <1>9, <1>10, <1>11, <1>12 DEF Allocation!Hold
  <1> QED BY <1>2, <1>12, <1>13 DEF Allocation!Next

(* POST /bookings/holds/:holdId/confirm is Book.                           *)
LEMMA ConfirmMapsToBook ==
    ASSUME OwnInv, OwnInv', NEW r \in Requests, ConfirmCommit(r)
    PROVE  Allocation!Next
  <1> DEFINE t == tx[r]
  <1>1. OwnerRead /\ PhaseRead /\ OwnerRead' /\ PhaseRead'
    BY OwnerIsRead, PhaseIsRead, ReadNext
  <1>2. /\ t.b \in Bookings /\ t.seats = Items(t.b) /\ hold[t.b] # "NONE"
        /\ \A s \in t.seats : bookingSeat[t.b][s] = "HELD"
    BY DEF OwnInv, HoldInv, ConfirmCommit, TxOK, StillHeld
  <1>3. \E s \in Seats : s \in t.seats
    BY <1>2 DEF OwnInv, HoldInv, RowsOK, Items
  <1>4. hold[t.b] = "ACTIVE"
    BY <1>2, <1>3 DEF OwnInv, HoldInv, RowsOK
  <1>5. \A b \in Bookings, s \in Seats :
            bookingSeat'[b][s] = IF b = t.b /\ s \in t.seats THEN "BOOKED" ELSE bookingSeat[b][s]
    BY DEF OwnInv, HoldInv, TypeOK, ConfirmCommit
  <1>6. \A b \in Bookings : hold'[b] = IF b = t.b THEN "CONFIRMED" ELSE hold[b]
    BY DEF OwnInv, HoldInv, TypeOK, ConfirmCommit
  <1>7. availableSeatCount' = availableSeatCount - Cardinality(t.seats)
    BY DEF ConfirmCommit
  <1> HIDE DEF t
  <1>8. \A s \in Seats : OwnerOf(s)' = OwnerOf(s)
    <2> SUFFICES ASSUME NEW s \in Seats PROVE OwnerOf(s)' = OwnerOf(s)
      OBVIOUS
    <2>1. \A b \in Bookings : OwnerOf(s)' = b <=> OwnerOf(s) = b
      BY <1>1, <1>2, <1>5 DEF OwnerRead, Owning
    <2>2. OwnerOf(s) \in Bookings \cup {NoBooking} /\ OwnerOf(s)' \in Bookings \cup {NoBooking}
      BY <1>1 DEF OwnerRead
    <2> QED BY <2>1, <2>2, NoBookingAssumption
  <1>9. \A b \in Bookings : PhaseOf(b)' = IF b = t.b THEN "booked" ELSE PhaseOf(b)
    BY <1>1, <1>2, <1>3, <1>5, <1>6 DEF PhaseRead
  <1>10. PhaseOf(t.b) = "held"
    BY <1>1, <1>2, <1>4 DEF PhaseRead
  <1>11. Allocation!Owned(t.b) = t.seats
    BY <1>1, <1>2 DEF Allocation!Owned, OwnerRead, Items, Owning
  <1>12. Allocation!Book(t.b)
    BY <1>2, <1>7, <1>8, <1>9, <1>10, <1>11, SameCardinality DEF Allocation!Book
  <1> QED BY <1>2, <1>12 DEF Allocation!Next

(* cancelBooking is GiveBack for a held booking, Cancel for a booked one   *)
(* and changes nothing for one that is over.                               *)
LEMMA CancelMaps ==
    ASSUME OwnInv, OwnInv', NEW r \in Requests, CancelCommit(r)
    PROVE  [Allocation!Next]_Allocation!vars
  <1> DEFINE t == tx[r]
  <1>1. OwnerRead /\ PhaseRead /\ OwnerRead' /\ PhaseRead'
    BY OwnerIsRead, PhaseIsRead, ReadNext
  <1>2. /\ t.b \in Bookings /\ hold[t.b] # "NONE" /\ t.booked = SeatsOf(t.b, {"BOOKED"})
        /\ availableSeatCount \in Int
    BY DEF OwnInv, HoldInv, CancelCommit, TxOK, CancelOK, TypeOK
  <1>3. \A b \in Bookings, s \in Seats :
            bookingSeat'[b][s] = IF b = t.b /\ bookingSeat[b][s] \in Owning
                                 THEN "CANCELLED" ELSE bookingSeat[b][s]
    BY DEF OwnInv, HoldInv, TypeOK, CancelCommit, Owning
  <1>4. \A b \in Bookings : hold'[b] = IF b = t.b /\ hold[b] = "ACTIVE" THEN "CANCELLED" ELSE hold[b]
    BY DEF OwnInv, HoldInv, TypeOK, CancelCommit
  <1>5. availableSeatCount' = availableSeatCount + Cardinality(t.booked)
    BY DEF CancelCommit
  <1> HIDE DEF t
  <1>6. \A s \in Seats : OwnerOf(s)' = IF OwnerOf(s) = t.b THEN NoBooking ELSE OwnerOf(s)
    <2> SUFFICES ASSUME NEW s \in Seats
                 PROVE  OwnerOf(s)' = IF OwnerOf(s) = t.b THEN NoBooking ELSE OwnerOf(s)
      OBVIOUS
    <2>1. \A b \in Bookings : OwnerOf(s)' = b <=> b # t.b /\ OwnerOf(s) = b
      BY <1>1, <1>3 DEF OwnerRead, Owning
    <2>2. OwnerOf(s) \in Bookings \cup {NoBooking} /\ OwnerOf(s)' \in Bookings \cup {NoBooking}
      BY <1>1 DEF OwnerRead
    <2> QED BY <1>2, <2>1, <2>2, NoBookingAssumption
  <1>7. \A b \in Bookings : PhaseOf(b)' = IF b = t.b THEN "over" ELSE PhaseOf(b)
    BY <1>1, <1>2, <1>3, <1>4 DEF PhaseRead, Owning
  <1>8. t.booked = {} => availableSeatCount' = availableSeatCount
    <2> SUFFICES ASSUME t.booked = {} PROVE availableSeatCount' = availableSeatCount
      OBVIOUS
    <2>1. Cardinality(t.booked) = 0
      BY FS_EmptySet
    <2> QED BY <1>2, <1>5, <2>1
  <1>9. CASE hold[t.b] = "ACTIVE"
    <2>1. t.booked = {}
      BY <1>2, <1>9 DEF OwnInv, HoldInv, RowsOK, SeatsOf
    <2>2. {t.b} \in SUBSET Allocation!InPhase("held")
      BY <1>1, <1>2, <1>9 DEF PhaseRead, Allocation!InPhase
    <2>3. Allocation!GiveBack({t.b})
      BY <1>6, <1>7, <1>8, <2>1 DEF Allocation!GiveBack
    <2> QED BY <2>2, <2>3 DEF Allocation!Next
  <1>10. CASE hold[t.b] # "ACTIVE"
    <2>1. \A s \in Seats : bookingSeat[t.b][s] # "HELD"
      BY <1>2, <1>10 DEF OwnInv, HoldInv, RowsOK
    <2>2. Allocation!Owned(t.b) = t.booked
      BY <1>1, <1>2, <2>1 DEF Allocation!Owned, OwnerRead, SeatsOf, Owning
    <2>3. CASE PhaseOf(t.b) = "booked"
      <3>1. Allocation!Cancel(t.b)
        BY <1>2, <1>5, <1>6, <1>7, <2>2, <2>3, SameCardinality DEF Allocation!Cancel
      <3> QED BY <1>2, <3>1 DEF Allocation!Next
    <2>4. CASE PhaseOf(t.b) # "booked"
      <3>1. PhaseOf(t.b) = "over" /\ \A s \in Seats : bookingSeat[t.b][s] # "BOOKED"
        BY <1>1, <1>2, <1>10, <2>4 DEF PhaseRead
      <3>2. t.booked = {}
        BY <1>2, <3>1 DEF SeatsOf
      <3>3. \A s \in Seats : OwnerOf(s) # t.b
        BY <2>2, <3>2 DEF Allocation!Owned
      <3>4. \A s \in Seats : OwnerOf(s)' = OwnerOf(s)
        BY <1>6, <3>3
      <3>5. \A b \in Bookings : PhaseOf(b)' = PhaseOf(b)
        BY <1>7, <3>1
      <3> QED BY <1>8, <3>2, <3>4, <3>5 DEF Allocation!vars
    <2> QED BY <2>3, <2>4
  <1> QED BY <1>9, <1>10

-----------------------------------------------------------------------------
LEMMA AllocationInit == Init => Allocation!Init
  <1> SUFFICES ASSUME Init PROVE Allocation!Init  OBVIOUS
  <1>1. \A s \in Seats : OwnerOf(s) = NoBooking
    BY DEF Init, NoBookings, OwnerOf, Live, SeatsOf
  <1>2. \A b \in Bookings : PhaseOf(b) = "new"
    BY DEF Init, NoBookings, PhaseOf
  <1> QED BY <1>1, <1>2, SameCardinality DEF Init, NoBookings, Allocation!Init

LEMMA AllocationStep ==
    OwnInv /\ OwnInv' /\ [Next]_vars => [Allocation!Next]_Allocation!vars
  <1> SUFFICES ASSUME OwnInv, OwnInv', [Next]_vars PROVE [Allocation!Next]_Allocation!vars
    OBVIOUS
  <1>1. CASE UNCHANGED rows
    BY <1>1, RowsMapToStutter
  <1>2. ASSUME NEW r \in Requests, ReleaseCommit(r)
        PROVE  [Allocation!Next]_Allocation!vars
    <2>1. tx[r].b \in Bookings
      BY <1>2 DEF ReleaseCommit, OwnInv, HoldInv, TxOK
    <2>2. CASE hold[tx[r].b] = "ACTIVE" /\ ReleaseActiveSeatHolds({tx[r].b}, "RELEASED")
      BY <2>1, <2>2, ReleaseMapsToGiveBack
    <2> QED BY <1>1, <1>2, <2>2 DEF ReleaseCommit
  <1>3. ASSUME NEW b \in Bookings, WorkerExpire(b)
        PROVE  [Allocation!Next]_Allocation!vars
    <2>1. CASE hold[b] = "ACTIVE" /\ ReleaseActiveSeatHolds({b}, "EXPIRED")
      BY <2>1, ReleaseMapsToGiveBack
    <2> QED BY <1>1, <1>3, <2>1 DEF WorkerExpire
  <1>4. ASSUME UnlockedHolds # {}, ReleaseActiveSeatHolds(UnlockedHolds, "EXPIRED")
        PROVE  [Allocation!Next]_Allocation!vars
    <2>1. UnlockedHolds \in SUBSET Bookings /\ \A e \in UnlockedHolds : hold[e] = "ACTIVE"
      BY DEF UnlockedHolds, LapsedHolds
    <2> QED BY <1>4, <2>1, ReleaseMapsToGiveBack
  <1>5. ASSUME NEW r \in Requests, NEW b \in Bookings, NEW S \in SUBSET Seats, NEW actor \in Actors,
               \/ HoldBegin(r, b, S) \/ ConfirmBegin(r, b) \/ ReleaseBegin(r, b)
               \/ CancelBegin(r, b, actor) \/ Abort(r)
        PROVE  UNCHANGED rows
    BY <1>5 DEF HoldBegin, ConfirmBegin, ReleaseBegin, CancelBegin, Abort
  <1>6. ASSUME WorkerScan \/ WorkerCrash \/ Environment \/ UNCHANGED vars
        PROVE  UNCHANGED rows
    BY <1>6 DEF WorkerScan, WorkerCrash, Environment, LockTtlElapses, DeparturePasses,
                HoldTtlElapses, vars
  <1> QED
    BY <1>1, <1>2, <1>3, <1>4, <1>5, <1>6, HoldMapsToHold, ConfirmMapsToBook, CancelMaps
       DEF Next, Request, Finish, Worker, ListSeats, HoldReplay,
           HoldBegin, ConfirmBegin, ReleaseBegin, CancelBegin, Abort

(* As long as cancellations run alone, the five tables change as one seat  *)
(* allocation: no step takes a seat from its owner, gives it to a second   *)
(* one, splits a booking's seats or lets the published count drift.        *)
THEOREM SeatHoldsImplementAllocation ==
    ASSUME "cancel" \in Isolated
    PROVE  Spec => ImplementsAllocation
  <1>1. Spec => []OwnInv
    BY OwnInvInit, OwnInvStep, PTL DEF Spec
  <1> QED BY <1>1, AllocationInit, AllocationStep, PTL DEF Spec, ImplementsAllocation, Allocation!Spec
=============================================================================
