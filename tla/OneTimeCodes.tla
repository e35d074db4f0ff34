---------------------------- MODULE OneTimeCodes ----------------------------
(***************************************************************************)
(* The secret codes that prove a passenger or a parcel changes hands:      *)
(* BoardingCode and TripStartPin of a booking, ParcelHandoverCode and      *)
(* ParcelPickupCode of a parcel (apps/api/src/main.ts), all checked by     *)
(* boardingCodeCanAttempt or its twin parcelCodeCanAttempt                 *)
(* (packages/validation/src/index.ts).  A request reads the codes and      *)
(* later writes them unconditionally; only the parcel itself has a version *)
(* that is compared, and only by a request that changes its status.        *)
(***************************************************************************)
EXTENDS Integers

CONSTANTS
    Codes,          \* 1..n, the codes of one booking or parcel, oldest first
    Requests,       \* requests that may be in flight together
    MaxAttempts,    \* BoardingCode.maxAttempts
    MaxWrong,       \* bound: wrong attempts tried on one code
    Versioned       \* TRUE for parcel codes, FALSE for boarding codes and PINs

ASSUME CodesAssumption ==
    /\ MaxAttempts \in Nat \ {0} /\ MaxWrong \in Nat
    /\ Codes \subseteq Nat \ {0}
ASSUME VersionedAssumption == Versioned \in BOOLEAN

VARIABLES
    issued,     \* how many codes were created
    status,     \* status of each code
    attempts,   \* attemptsCount of each code
    lapsed,     \* expiresAt of the code has passed
    moved,      \* the booking is boarded, the parcel was handed over
    request,    \* what each request has read
    wrong,      \* history: wrong attempts that were answered for each code
    moves       \* history: how often the parcel's status was changed

codeVars == <<issued, status, attempts, lapsed, moved, request, wrong, moves>>

NoRequest == [op |-> "idle", code |-> 0, count |-> 0, moved |-> FALSE, seen |-> {}]

CodesTypeOK ==
    /\ issued \in Codes \cup {0}
    /\ status \in [Codes -> {"NONE", "ACTIVE", "VERIFIED", "REPLACED", "EXPIRED"}]
    /\ attempts \in [Codes -> 0 .. MaxAttempts]
    /\ lapsed \in [Codes -> BOOLEAN]
    /\ moved \in BOOLEAN
    /\ request \in [Requests -> [op : {"idle", "create", "attempt"}, code : Codes \cup {0},
                                 count : 0 .. MaxAttempts, moved : BOOLEAN, seen : SUBSET Codes]]
    /\ wrong \in [Codes -> 0 .. MaxWrong]
    /\ moves \in Nat

CodesInit ==
    /\ issued = 0
    /\ status = [c \in Codes |-> "NONE"]
    /\ attempts = [c \in Codes |-> 0]
    /\ lapsed = [c \in Codes |-> FALSE]
    /\ moved = FALSE
    /\ request = [r \in Requests |-> NoRequest]
    /\ wrong = [c \in Codes |-> 0]
    /\ moves = 0

Active == {c \in Codes : status[c] = "ACTIVE"}

BeginRequest(r, t) ==
    /\ request[r] = NoRequest
    /\ request' = [request EXCEPT ![r] = t]
    /\ UNCHANGED <<issued, status, attempts, lapsed, moved, wrong, moves>>

EndRequest(r, op) ==
    /\ request[r].op = op
    /\ request' = [request EXCEPT ![r] = NoRequest]

-----------------------------------------------------------------------------
(* createBoardingCode, createTripStartPin, createParcelCode.  A parcel's   *)
(* code is created only by a request that saw it before it changed hands.  *)

CreateBegin(r) ==
    /\ Versioned => ~moved
    /\ BeginRequest(r, [NoRequest EXCEPT !.op = "create", !.seen = Active])

\* The ACTIVE codes are replaced, but for those of creations that were not yet
\* committed when the update took its snapshot.
Replaced(r) == {Active, Active \cap request[r].seen}

CreateCommit(r) ==
    /\ EndRequest(r, "create")
    /\ issued + 1 \in Codes
    /\ issued' = issued + 1
    /\ \E R \in Replaced(r) :
           status' = [c \in Codes |-> IF c = issued + 1 THEN "ACTIVE"
                                      ELSE IF c \in R THEN "REPLACED" ELSE status[c]]
    /\ UNCHANGED <<attempts, lapsed, moved, wrong, moves>>

-----------------------------------------------------------------------------
(* boardBooking, verifyTripStartPinForBooking, and driverParcelAction for  *)
(* HANDOVER and DELIVER.                                                   *)

\* The code an attempt is compared with: a parcel's newest one, a booking's
\* newest one that is ACTIVE.
IsCurrent(c) ==
    IF Versioned THEN c = issued ELSE c \in Active /\ \A d \in Active : d <= c

CanAttempt(c) == status[c] = "ACTIVE" /\ ~lapsed[c] /\ attempts[c] < MaxAttempts

AttemptBegin(r) ==
    \E c \in Codes :
        /\ IsCurrent(c) /\ CanAttempt(c)
        /\ BeginRequest(r, [op |-> "attempt", code |-> c, count |-> attempts[c],
                            moved |-> moved, seen |-> {}])

\* transitionParcel throws PARCEL_VERSION_CONFLICT if the parcel was moved since
\* it was read, unless it was read in the target status and nothing is to be done;
\* a booking is updated by id.  (mutant) no version is compared
Unversioned(t) == TRUE
VersionUnchanged(t) == Versioned /\ moved => t.moved

RightCode(r) ==
    LET t == request[r]
    IN  /\ EndRequest(r, "attempt")
        /\ VersionUnchanged(t)
        /\ status' = [status EXCEPT ![t.code] = "VERIFIED"]
        /\ attempts' = [attempts EXCEPT ![t.code] = t.count + 1]
        /\ moved' = TRUE
        /\ moves' = IF t.moved THEN moves ELSE moves + 1
        /\ UNCHANGED <<issued, lapsed, wrong>>

\* A wrong code: the handler writes attemptsCount and, at the limit, LOCKED, and
\* then throws inside the transaction, which undoes both.
WrongCode(r) ==
    LET t == request[r]
    IN  /\ EndRequest(r, "attempt")
        /\ wrong[t.code] < MaxWrong
        /\ wrong' = [wrong EXCEPT ![t.code] = @ + 1]
        /\ UNCHANGED <<issued, status, attempts, lapsed, moved, moves>>

\* Any other exception.
RequestFails(r) ==
    /\ request[r] # NoRequest
    /\ request' = [request EXCEPT ![r] = NoRequest]
    /\ UNCHANGED <<issued, status, attempts, lapsed, moved, wrong, moves>>

-----------------------------------------------------------------------------
CodeTtlElapses(c) ==
    /\ status[c] = "ACTIVE" /\ ~lapsed[c]
    /\ lapsed' = [lapsed EXCEPT ![c] = TRUE]
    /\ UNCHANGED <<issued, status, attempts, moved, request, wrong, moves>>

WorkerExpiresCodes ==
    /\ \E c \in Active : lapsed[c]
    /\ status' = [c \in Codes |-> IF c \in Active /\ lapsed[c] THEN "EXPIRED" ELSE status[c]]
    /\ UNCHANGED <<issued, attempts, lapsed, moved, request, wrong, moves>>

CodesNext ==
    \/ \E r \in Requests : CreateBegin(r) \/ CreateCommit(r) \/ AttemptBegin(r)
    \/ \E r \in Requests : RightCode(r) \/ WrongCode(r) \/ RequestFails(r)
    \/ \E c \in Codes : CodeTtlElapses(c)
    \/ WorkerExpiresCodes

CodesSpec == CodesInit /\ [][CodesNext]_codeVars

-----------------------------------------------------------------------------
(* A parcel is handed over, or delivered, once, although codes and retries *)
(* overlap: one request writes the status, its timeline and its events     *)
(* (driverParcelAction).                                                   *)
ChangesHandsOnce == moves <= 1

(* After maxAttempts wrong attempts a code is locked.                      *)
ExhaustedCodeLocked == \A c \in Codes : wrong[c] >= MaxAttempts => status[c] # "ACTIVE"

(* Attempts stay within their limit, and a parcel changes hands once.      *)
CodesUsedOnce == CodesTypeOK /\ ChangesHandsOnce
=============================================================================
