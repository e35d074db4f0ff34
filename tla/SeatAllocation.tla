--------------------------- MODULE SeatAllocation ---------------------------
(***************************************************************************)
(* What the booking service promises about the seats of one trip, without  *)
(* tables, locks, transactions or expiry dates: a seat has at most one     *)
(* owner, an owner gets all the seats it asked for at once and keeps them  *)
(* until it is over, and the published number of available seats counts    *)
(* the seats nobody has booked.                                            *)
(***************************************************************************)
EXTENDS Integers, FiniteSets

CONSTANTS Seats, Bookings, NoBooking

VARIABLES
    owner,      \* the booking each seat belongs to, or NoBooking
    phase,      \* "new", "held", "booked" or "over"
    available   \* the number of seats shown as available

vars == <<owner, phase, available>>

Owned(b) == {s \in Seats : owner[s] = b}
InPhase(p) == {b \in Bookings : phase[b] = p}

Init ==
    /\ owner = [s \in Seats |-> NoBooking]
    /\ phase = [b \in Bookings |-> "new"]
    /\ available = Cardinality(Seats)

\* Held bookings give their seats back, by expiry, release or cancellation.
GiveBack(E) ==
    /\ E # {}
    /\ owner' = [s \in Seats |-> IF owner[s] \in E THEN NoBooking ELSE owner[s]]
    /\ phase' = [b \in Bookings |-> IF b \in E THEN "over" ELSE phase[b]]
    /\ UNCHANGED available

\* A new booking takes free seats, those that held bookings E give back included.
Hold(b, S, E) ==
    /\ phase[b] = "new"
    /\ S # {} /\ \A s \in S : owner[s] \in E \cup {NoBooking}
    /\ owner' = [s \in Seats |-> IF s \in S THEN b
                                 ELSE IF owner[s] \in E THEN NoBooking ELSE owner[s]]
    /\ phase' = [c \in Bookings |-> IF c = b THEN "held"
                                    ELSE IF c \in E THEN "over" ELSE phase[c]]
    /\ UNCHANGED available

Book(b) ==
    /\ phase[b] = "held"
    /\ phase' = [phase EXCEPT ![b] = "booked"]
    /\ available' = available - Cardinality(Owned(b))
    /\ UNCHANGED owner

Cancel(b) ==
    /\ phase[b] = "booked"
    /\ owner' = [s \in Seats |-> IF owner[s] = b THEN NoBooking ELSE owner[s]]
    /\ phase' = [phase EXCEPT ![b] = "over"]
    /\ available' = available + Cardinality(Owned(b))

Next ==
    \/ \E E \in SUBSET InPhase("held") : GiveBack(E)
    \/ \E b \in Bookings, S \in SUBSET Seats, E \in SUBSET InPhase("held") : Hold(b, S, E)
    \/ \E b \in Bookings : Book(b) \/ Cancel(b)

Spec == Init /\ [][Next]_vars
=============================================================================
