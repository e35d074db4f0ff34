---------------------------- MODULE PassengerCodes ----------------------------
(***************************************************************************)
(* How a passenger learns the boarding code, or the start PIN, of a        *)
(* booking (apps/api/src/main.ts).  Only its hash is stored: the plain     *)
(* code is in the answer to the request that created it, and nowhere else. *)
(* The boarding codes are created when boarding starts, and answered to    *)
(* nobody.  Creations that overlap are the subject of OneTimeCodes; here   *)
(* the newest code counts, and older ones are stale.                       *)
(***************************************************************************)

EXTENDS Naturals

CONSTANTS
    CodeAsks,       \* requests that may be in flight together
    MaxMishaps      \* bound: answers lost, codes that are replaced or lapse too early

ASSUME MishapsAssumption == MaxMishaps \in Nat

VARIABLES
    secret,     \* "BOARDING_CODE" or "START_PIN"
    boarding,   \* trip and booking are BOARDING
    newest,     \* status of the newest code, LAPSED when expiresAt has passed
    known,      \* the code the passenger knows: none, a stale one, the newest
    answer,     \* the answer that is under way to each request
    mishaps     \* what has gone wrong

passengerCodeVars == <<secret, boarding, newest, known, answer, mishaps>>

PassengerCodesInit ==
    /\ secret \in {"BOARDING_CODE", "START_PIN"}
    /\ boarding = FALSE
    /\ newest = "NONE"
    /\ known = "none"
    /\ answer = [r \in CodeAsks |-> "idle"]
    /\ mishaps = 0

\* A new code replaces the newest one.
Stale(c) == IF c = "newest" THEN "stale" ELSE c

\* createBoardingCode, createTripStartPin
CreateCodeFor(r) ==
    /\ newest' = "ACTIVE"
    /\ known' = Stale(known)
    /\ answer' = [q \in CodeAsks |-> IF q = r THEN "newest" ELSE Stale(answer[q])]

Mishap == mishaps < MaxMishaps /\ mishaps' = mishaps + 1

-----------------------------------------------------------------------------
\* startBoardingTrip calls activeBoardingCodeForBooking and drops the plain code.
StartBoardingWithCode ==
    /\ ~boarding
    /\ boarding' = TRUE
    /\ newest' = IF secret = "BOARDING_CODE" THEN "ACTIVE" ELSE "NONE"
    /\ UNCHANGED <<secret, known, answer, mishaps>>

\* boardingCodeCanAttempt.  (mutant) a code counts until the worker expires it
StillActive == newest \in {"ACTIVE", "LAPSED"}
CanStillAttempt == newest = "ACTIVE"

\* GET /bookings/:bookingId/boarding-code and /start-pin
GetCode(r) ==
    /\ boarding /\ answer[r] = "idle"
    /\ \/ /\ CanStillAttempt
          /\ answer' = [answer EXCEPT ![r] = "empty"]
          /\ UNCHANGED <<newest, known>>
       \/ /\ ~CanStillAttempt
          /\ CreateCodeFor(r)
    /\ UNCHANGED <<secret, boarding, mishaps>>

\* POST /bookings/:bookingId/boarding-code/regenerate; a PIN has no such route.
RegenerateCode(r) ==
    /\ boarding /\ answer[r] = "idle"
    /\ secret = "BOARDING_CODE" /\ Mishap
    /\ CreateCodeFor(r)
    /\ UNCHANGED <<secret, boarding>>

\* Answers arrive in any order; a plain code takes the place of the one before.
AnswerArrives(r) ==
    /\ answer[r] # "idle"
    /\ known' = IF answer[r] = "empty" THEN known ELSE answer[r]
    /\ answer' = [answer EXCEPT ![r] = "idle"]
    /\ UNCHANGED <<secret, boarding, newest, mishaps>>

AnswerLost(r) ==
    /\ answer[r] # "idle" /\ Mishap
    /\ answer' = [answer EXCEPT ![r] = "idle"]
    /\ UNCHANGED <<secret, boarding, newest, known>>

\* A wrong attempt changes nothing, since the exception undoes it.
ShowCodeToDriver ==
    /\ boarding /\ known = "newest" /\ newest = "ACTIVE"
    /\ boarding' = FALSE
    /\ newest' = "VERIFIED"
    /\ UNCHANGED <<secret, known, answer, mishaps>>

Lapse ==
    /\ newest = "ACTIVE" /\ boarding
    /\ newest' = "LAPSED"
    /\ UNCHANGED <<secret, boarding, known, answer>>

\* The passenger knows the code, or it is under way.
InTime == known = "newest" \/ \E r \in CodeAsks : answer[r] = "newest"
NewestLapses == ~InTime /\ Lapse /\ UNCHANGED mishaps
LapsesTooEarly == InTime /\ Lapse /\ Mishap

PassengerCodesNext ==
    \/ StartBoardingWithCode \/ ShowCodeToDriver \/ NewestLapses \/ LapsesTooEarly
    \/ \E r \in CodeAsks : GetCode(r) \/ RegenerateCode(r) \/ AnswerArrives(r) \/ AnswerLost(r)

\* The passenger asks again and shows what it knows, and time passes.
PassengerCodesFairness ==
    /\ \A r \in CodeAsks : WF_passengerCodeVars(GetCode(r) \/ AnswerArrives(r))
    /\ WF_passengerCodeVars(NewestLapses)
    /\ WF_passengerCodeVars(ShowCodeToDriver)

PassengerCodesSpec == PassengerCodesInit /\ [][PassengerCodesNext]_passengerCodeVars /\ PassengerCodesFairness

-----------------------------------------------------------------------------
(* A passenger who keeps asking gets a code that the driver's request      *)
(* accepts, although the first one is shown to nobody, answers are lost or *)
(* arrive out of order, and a PIN cannot be asked for again: at the latest *)
(* when the code that nobody knows has lapsed.                             *)
PassengerGetsCode == boarding ~> newest = "VERIFIED"
=============================================================================
