------------------------------ MODULE BookingPage ------------------------------
(***************************************************************************)
(* The page on which a client chooses seats and asks for them              *)
(* (apps/client-mini-app/src/app/trips/[tripId]/book).  The number of      *)
(* passengers, the seats and the type of the booking change independently  *)
(* of each other, in any order and on every step; the request is built     *)
(* from them anew each time.                                               *)
(***************************************************************************)
EXTENDS Naturals, Sequences, FiniteSets, SequencesExt

VARIABLES
    previewSevenSeat,   \* the layout
    bookingType,
    selectedSeats,
    passengerCount,
    step,
    baggage             \* what is chosen, and how many of it

pageVars == <<previewSevenSeat, bookingType, selectedSeats, passengerCount, step, baggage>>

\* Before the first click an effect reads the address: layout=suv7, state=empty.
BookingPageInit ==
    /\ previewSevenSeat \in BOOLEAN
    /\ bookingType = "SEAT"
    /\ selectedSeats \in {<<"FRONT_RIGHT">>, <<>>}
    /\ passengerCount = 1
    /\ step = "hold"
    /\ baggage = [type |-> "NONE", quantity |-> 1]

cabinSeats ==
    [DRIVER |-> "driver", FRONT_RIGHT |-> "available", ROW_1_LEFT |-> "available",
     ROW_1_CENTER |-> "unavailable", ROW_1_RIGHT |-> "occupied"]
sevenSeatPreview ==
    LET third == [ROW_2_LEFT |-> "available", ROW_2_CENTER |-> "unavailable",
                  ROW_2_RIGHT |-> "available"]
    IN  [key \in (DOMAIN cabinSeats \ {"ROW_1_CENTER"}) \cup DOMAIN third |->
            IF key \in DOMAIN third THEN third[key] ELSE cabinSeats[key]]
visibleSeats == IF previewSevenSeat THEN sevenSeatPreview ELSE cabinSeats

\* The order in which the model of the cabin lists its seats.
SeatOrder ==
    <<"DRIVER", "FRONT_RIGHT", "ROW_1_LEFT", "ROW_1_CENTER", "ROW_1_RIGHT",
      "ROW_2_LEFT", "ROW_2_CENTER", "ROW_2_RIGHT">>

\* Array.filter, as a recursive function: the provers know nothing of SelectSeq.
filter(keys, kept) ==
    LET first[n \in 0 .. Len(keys)] ==
            IF n = 0 THEN <<>>
            ELSE IF keys[n] \in kept THEN Append(first[n - 1], keys[n]) ELSE first[n - 1]
    IN  first[Len(keys)]

selectableSeatKeys(seats) ==
    filter(SeatOrder, {key \in DOMAIN seats : seats[key] = "available"})
availableSeatKeys == selectableSeatKeys(visibleSeats)

\* The drawings of the cabin: the seats for passengers each of them has.
SEAT_MAP_LAYOUTS ==
    LET outer == {"FRONT_RIGHT", "ROW_1_LEFT", "ROW_1_RIGHT"}
        third == {"ROW_2_LEFT", "ROW_2_CENTER", "ROW_2_RIGHT"}
    IN  [sedan_comfort_no_middle |-> outer,
         sedan_standard_4p |-> outer \cup {"ROW_1_CENTER"},
         minivan_6p |-> outer \cup third,
         minivan_7p |-> outer \cup third \cup {"ROW_1_CENTER"}]

\* For the page's trip: a sedan (or the SUV_7 template) on the comfort tariff.
seatMapLayoutIdForVehicle(template, tariff, passengerSeats) ==
    IF template = "MINIVAN_8" \/ passengerSeats >= 7 \/ template = "SUV_7"
    THEN IF passengerSeats >= 7 THEN "minivan_7p" ELSE "minivan_6p"
    ELSE IF tariff = "comfort" \/ template = "SUV_5" THEN "sedan_comfort_no_middle"
    ELSE "sedan_standard_4p"

layout ==
    SEAT_MAP_LAYOUTS[seatMapLayoutIdForVehicle(
        IF previewSevenSeat THEN "SUV_7" ELSE "SEDAN_5", "comfort",
        Cardinality({key \in DOMAIN visibleSeats : visibleSeats[key] # "driver"}))]

\* How a seat of the drawing is shown; the driver's seat is not for sale.
resolveVisualStatus(key) ==
    LET seat == IF key \in DOMAIN visibleSeats THEN visibleSeats[key] ELSE "unavailable"
        selected == \/ Contains(selectedSeats, key)
                    \/ bookingType = "WHOLE_CAR" /\ seat = "available"
    IN  CASE seat = "driver" -> "driver"
          [] seat = "unavailable" -> "blocked"
          [] seat = "occupied" -> "reserved"
          [] OTHER -> IF selected THEN "selected" ELSE "free"

\* The seats one may click on.
EnabledSeats ==
    {key \in layout : /\ resolveVisualStatus(key) \in {"free", "selected"}
                      /\ bookingType # "WHOLE_CAR"}

requiredSeats == IF bookingType = "MULTI_SEAT" THEN passengerCount ELSE 1

\* (mutant) the number of seats is not compared
AnySeatSelected == bookingType = "WHOLE_CAR" \/ selectedSeats # <<>>
requestReady ==
    IF bookingType = "WHOLE_CAR" THEN availableSeatKeys # <<>>
    ELSE Len(selectedSeats) = requiredSeats /\ selectedSeats # <<>>

\* Quantities from 1 to 20, of which 1 and the two ends matter.
baggageItemsForChoice ==
    IF baggage.type = "NONE" THEN <<>>
    ELSE <<[type |-> baggage.type,
            quantity |-> IF baggage.quantity < 1 THEN 1 ELSE IF baggage.quantity > 20 THEN 20
                         ELSE baggage.quantity]>>

buildBookingCorePayload ==
    LET seatKeys == IF bookingType = "WHOLE_CAR" THEN availableSeatKeys ELSE selectedSeats
    IN  [type |-> bookingType, seatKeys |-> seatKeys, baggage |-> baggageItemsForChoice,
         passengerCount |-> IF bookingType = "WHOLE_CAR" THEN Len(seatKeys) ELSE requiredSeats]

-----------------------------------------------------------------------------
Toggled(seat) ==
    IF bookingType = "SEAT" THEN <<seat>>
    ELSE IF Contains(selectedSeats, seat) THEN filter(selectedSeats, Range(selectedSeats) \ {seat})
    ELSE IF Len(selectedSeats) >= passengerCount THEN Append(Tail(selectedSeats), seat)
    ELSE Append(selectedSeats, seat)

\* A seat that is taken only gives a notice.
toggleSeat(seat) ==
    /\ seat \in EnabledSeats
    /\ selectedSeats' = IF Contains(availableSeatKeys, seat) THEN Toggled(seat) ELSE selectedSeats
    /\ UNCHANGED <<previewSevenSeat, bookingType, passengerCount, step, baggage>>

changeType(next) ==
    /\ bookingType' = next
    /\ CASE next = "WHOLE_CAR" -> /\ passengerCount' = Len(availableSeatKeys)
                                  /\ selectedSeats' = availableSeatKeys
         [] next = "MULTI_SEAT" -> /\ passengerCount' = 2
                                   /\ selectedSeats' = SubSeq(availableSeatKeys, 1, 2)
         [] OTHER -> /\ passengerCount' = 1
                     /\ selectedSeats' = <<Head(availableSeatKeys)>>
    /\ UNCHANGED <<previewSevenSeat, step, baggage>>

\* The buttons - and +; they leave the seats as they are.
ChangePassengerCount ==
    /\ bookingType = "MULTI_SEAT"
    /\ passengerCount' \in
           {IF passengerCount > 2 THEN passengerCount - 1 ELSE 2,
            IF passengerCount < Len(availableSeatKeys) THEN passengerCount + 1
            ELSE Len(availableSeatKeys)}
    /\ UNCHANGED <<previewSevenSeat, bookingType, selectedSeats, step, baggage>>

ChooseBaggage == \E quantity \in {0, 1, 20, 21}, type \in {"NONE", "SUITCASE"} :
    /\ type = "NONE" => quantity = baggage.quantity
    /\ baggage' = [type |-> type, quantity |-> quantity]
    /\ UNCHANGED <<previewSevenSeat, bookingType, selectedSeats, passengerCount, step>>

requestSeatHold ==
    /\ step = "hold" /\ requestReady
    /\ step' = "passengers"
    /\ UNCHANGED <<previewSevenSeat, bookingType, selectedSeats, passengerCount, baggage>>

\* The button of the second step does not look at the seats again.
ConfirmPassengers ==
    /\ step = "passengers"
    /\ step' = "confirmed"
    /\ UNCHANGED <<previewSevenSeat, bookingType, selectedSeats, passengerCount, baggage>>

BookingPageNext ==
    \/ requestSeatHold \/ ConfirmPassengers
    \/ \E seat \in layout : toggleSeat(seat)
    \/ \E next \in {"SEAT", "MULTI_SEAT", "WHOLE_CAR"} : changeType(next)
    \/ ChangePassengerCount \/ ChooseBaggage

BookingPageSpec == BookingPageInit /\ [][BookingPageNext]_pageVars

-----------------------------------------------------------------------------
\* bookingHoldSchema, bookingBaggageSchema and assertSeatSelection of the API.
AcceptedByApi(hold) ==
    /\ Len(hold.seatKeys) \in 1..16 /\ hold.passengerCount \in 1..16
    /\ hold.type = "SEAT" => Len(hold.seatKeys) = 1
    /\ hold.type = "MULTI_SEAT" => Len(hold.seatKeys) = hold.passengerCount
    /\ \A item \in Range(hold.baggage) : item.quantity \in 1..20

(* The page goes on to the passengers only with a request that the API     *)
(* accepts, for as many different seats, each of which is free, as there   *)
(* are passengers; whatever was chosen before it, in whichever order.  The *)
(* seats it asks for are those the drawing of the cabin shows as selected. *)
RequestIsAccepted == step = "hold" /\ requestReady =>
    LET hold == buildBookingCorePayload
    IN  /\ AcceptedByApi(hold)
        /\ IsInjective(hold.seatKeys)
        /\ Range(hold.seatKeys) \subseteq Range(availableSeatKeys)
        /\ Len(hold.seatKeys) = hold.passengerCount
        /\ Range(hold.seatKeys) = {key \in layout : resolveVisualStatus(key) = "selected"}

\* Every free seat is drawn and can be chosen: none is on sale unseen.
FreeSeatsAreDrawn ==
    bookingType # "WHOLE_CAR" => EnabledSeats = Range(availableSeatKeys)
=============================================================================
