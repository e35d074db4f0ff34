------------------------------ MODULE Payments ------------------------------
(***************************************************************************)
(* The money of one booking: payments and their provider intents, provider *)
(* webhooks, cash settlements, refunds, the driver's earnings, payouts and *)
(* the ledger (registerFinanceRoutes in apps/api/src/main.ts, the finance  *)
(* worker, packages/payments).  The booking, its hold and its seat rows    *)
(* are here as payments see and change them; SeatHolds has the rest.       *)
(* A client can give every request a new idempotency key, so two requests  *)
(* for a payment can both create one; a request with a key already used    *)
(* answers with what is stored and is no step.                             *)
(***************************************************************************)
EXTENDS Integers, FiniteSets, Functions

CONSTANTS
    Payments,           \* 1..n, payment rows in the order of their creation
    Refunds,            \* 1..n, refunds, each with an idempotency key of its own
    Payouts,            \* payout rows
    Requests,           \* requests that may be in flight together
    Amount,             \* Booking.totalMinor; 1 would be all fee and leave no earning
    RefundAmounts,      \* amounts clients ask to have refunded
    WebhookStatuses     \* intent statuses the provider reports

ASSUME PaymentsAssumption ==
    /\ Payments \subseteq Nat \ {0} /\ Refunds \subseteq Nat \ {0}
    /\ IsFiniteSet(Payments) /\ IsFiniteSet(Payouts) /\ 0 \notin Payouts
    /\ Amount \in Nat \ {0, 1} /\ RefundAmounts \subseteq Nat \ {0}
    /\ WebhookStatuses \subseteq {"PROCESSING", "SUCCEEDED", "FAILED", "CANCELLED", "EXPIRED"}

VARIABLES
    status,         \* Payment.status, "NONE" for a row not yet created
    method,         \* Payment.method
    paid,           \* Payment.paidMinor
    refunded,       \* Payment.refundedMinor
    intent,         \* PaymentIntent.status of an ONLINE payment
    settlement,     \* CashSettlement.status of a CASH payment
    processed,      \* webhook events, one per payment and status, with processedAt set
    earning,        \* DriverEarning.status; the row is created with the PlatformFee row
    payoutOf,       \* DriverEarning.payoutId, or 0
    payout,         \* DriverPayout.status
    gross,          \* DriverPayout.grossMinor
    refund,         \* PaymentRefund rows
    posted,         \* how many FinancialTransactions have each idempotency key
    booking,        \* Booking.status
    hold,           \* SeatHold.status of the booking
    bookingSeat,    \* BookingSeat.status of its seats
    tripSeat,       \* TripSeat.status of its seats, "AVAILABLE" once given back
    request,        \* what each request has read
    batch           \* the refunds the worker has still to process, with the payments it read

moneyVars == <<paid, refunded, earning, payoutOf, payout, gross, refund, posted>>
paymentVars == <<status, method, intent, settlement, processed>>
seatVars == <<booking, hold, bookingSeat, tripSeat>>
vars == <<paymentVars, moneyVars, seatVars, request, batch>>

LedgerKeys == ({"PAYMENT"} \X Payments) \cup ({"REFUND"} \X Refunds) \cup ({"PAYOUT"} \X Payouts)
ActivePaymentStatuses == {"CREATED", "PROCESSING", "SUCCEEDED"}
Captured == {"SUCCEEDED", "PARTIALLY_REFUNDED", "REFUNDED"}
PaymentStatuses == ActivePaymentStatuses \cup Captured \cup {"NONE", "EXPIRED"}
ExpirableIntents == {"REQUIRES_ACTION", "PROCESSING"}
NotPayable == {"CANCELLED", "EXPIRED"}
Idle == [op |-> "idle"]
NoRefund == [status |-> "NONE", payment |-> 0, amount |-> 0]
NoBatch == [todo |-> {}, seen |-> [p \in Payments |-> 0]]

\* 10 % in basis points, rounded up, and never more than the amount.
calculateBps(amount, bps) == (amount * bps + 9999) \div 10000
FeeMinor == IF calculateBps(Amount, 1000) > Amount THEN Amount ELSE calculateBps(Amount, 1000)
NetMinor == Amount - FeeMinor

Transactions ==
    {Idle} \cup [op : {"intent"}, method : {"CASH", "ONLINE"}]
    \cup [op : {"webhook"}, payment : Payments, to : WebhookStatuses, locked : BOOLEAN,
          read : PaymentStatuses]
    \cup [op : {"cash"}, payment : Payments, to : {"CONFIRMED", "DISPUTED"}, locked : BOOLEAN,
          read : PaymentStatuses]
    \cup [op : {"refund"}, refund : Refunds, payment : Payments, amount : RefundAmounts]

PaymentsTypeOK ==
    /\ request \in [Requests -> Transactions]
    /\ status \in [Payments -> PaymentStatuses]
    /\ method \in [Payments -> {"NONE", "CASH", "ONLINE"}]
    /\ paid \in [Payments -> {0, Amount}] /\ refunded \in [Payments -> Nat]
    /\ intent \in [Payments -> WebhookStatuses \cup {"NONE", "REQUIRES_ACTION", "EXPIRED"}]
    /\ settlement \in [Payments -> {"NONE", "DECLARED", "CONFIRMED", "DISPUTED"}]
    /\ processed \in SUBSET (Payments \X WebhookStatuses)
    /\ earning \in [Payments -> {"NONE", "PENDING", "AVAILABLE", "ON_HOLD", "PAID"}]
    /\ payoutOf \in [Payments -> Payouts \cup {0}]
    /\ payout \in [Payouts -> {"NONE", "READY", "PAID", "FAILED", "CANCELLED", "ON_HOLD"}]
    /\ gross \in [Payouts -> Nat]
    /\ refund \in [Refunds -> [status : {"NONE", "REQUESTED", "SUCCEEDED"},
                               payment : Payments \cup {0}, amount : RefundAmounts \cup {0}]]
    /\ posted \in [LedgerKeys -> Nat]
    /\ booking \in {"HOLD", "PAYMENT_PENDING", "CONFIRMED", "EXPIRED", "CANCELLED"}
    /\ hold \in {"ACTIVE", "CONFIRMED", "EXPIRED", "CANCELLED"}
    /\ bookingSeat \in {"HELD", "BOOKED", "RELEASED", "CANCELLED"}
    /\ tripSeat \in {"HELD", "BOOKED", "AVAILABLE"}
    /\ batch \in [todo : SUBSET Refunds, seen : [Payments -> Nat]]

\* The booking has been held and nothing has been paid.
Init ==
    /\ status = [p \in Payments |-> "NONE"] /\ method = [p \in Payments |-> "NONE"]
    /\ paid = [p \in Payments |-> 0] /\ refunded = [p \in Payments |-> 0]
    /\ intent = [p \in Payments |-> "NONE"] /\ settlement = [p \in Payments |-> "NONE"]
    /\ processed = {}
    /\ earning = [p \in Payments |-> "NONE"] /\ payoutOf = [p \in Payments |-> 0]
    /\ payout = [o \in Payouts |-> "NONE"] /\ gross = [o \in Payouts |-> 0]
    /\ refund = [f \in Refunds |-> NoRefund]
    /\ posted = [k \in LedgerKeys |-> 0]
    /\ booking = "HOLD" /\ hold = "ACTIVE" /\ bookingSeat = "HELD" /\ tripSeat = "HELD"
    /\ request = [r \in Requests |-> Idle]
    /\ batch = NoBatch

Begin(r, t) ==
    /\ request[r] = Idle
    /\ request' = [request EXCEPT ![r] = t]
    /\ UNCHANGED <<paymentVars, moneyVars, seatVars, batch>>

End(r, op) ==
    /\ request[r].op = op
    /\ request' = [request EXCEPT ![r] = Idle]
    /\ UNCHANGED batch

\* An exception: what the transaction wrote is undone.
Abort(r) ==
    /\ request[r] # Idle
    /\ request' = [request EXCEPT ![r] = Idle]
    /\ UNCHANGED <<paymentVars, moneyVars, seatVars, batch>>

-----------------------------------------------------------------------------
(* POST /payments/intents                                                  *)

IntentBegin(r, m) ==
    /\ booking \notin NotPayable
    /\ \A p \in Payments : status[p] \notin ActivePaymentStatuses
    /\ Begin(r, [op |-> "intent", method |-> m])

\* The booking is updated by id: its status is set whatever it is by now.
IntentCommit(r) ==
    \E p \in Payments :
        LET m == request[r].method
        IN
        /\ End(r, "intent")
        /\ status[p] = "NONE" /\ \A q \in Payments : q < p => status[q] # "NONE"
        /\ method' = [method EXCEPT ![p] = m]
        /\ \/ /\ m = "CASH"
              /\ status' = [status EXCEPT ![p] = "PROCESSING"]
              /\ settlement' = [settlement EXCEPT ![p] = "DECLARED"]
              /\ booking' = "CONFIRMED"
              /\ UNCHANGED intent
           \/ /\ m = "ONLINE"
              /\ status' = [status EXCEPT ![p] = "CREATED"]
              /\ intent' = [intent EXCEPT ![p] = "REQUIRES_ACTION"]
              /\ booking' = "PAYMENT_PENDING"
              /\ UNCHANGED settlement
        /\ UNCHANGED <<processed, moneyVars, hold, bookingSeat, tripSeat>>

-----------------------------------------------------------------------------
(* POST /payments/mock/webhook and POST /driver/payments/cash-confirmations: *)
(* the intent or the settlement is read before the transaction, its row is *)
(* written by id, which locks it, and only then is the payment read.       *)

\* transitionIntentStatus
MayMoveIntent(from, to) ==
    \/ from = to
    \/ from = "REQUIRES_ACTION" /\ to \in {"PROCESSING", "SUCCEEDED", "FAILED", "CANCELLED", "EXPIRED"}
    \/ from = "PROCESSING" /\ to \in {"SUCCEEDED", "FAILED", "CANCELLED", "EXPIRED"}

WebhookBegin(r, p, s) ==
    /\ method[p] = "ONLINE"
    /\ <<p, s>> \notin processed
    /\ MayMoveIntent(intent[p], s)
    /\ Begin(r, [op |-> "webhook", payment |-> p, to |-> s, locked |-> FALSE, read |-> "NONE"])

CashBegin(r, p, s) ==
    /\ settlement[p] = "DECLARED"
    /\ Begin(r, [op |-> "cash", payment |-> p, to |-> s, locked |-> FALSE, read |-> "NONE"])

LockedRow(p) == \E r \in Requests : request[r].op \in {"webhook", "cash"}
                                    /\ request[r].payment = p /\ request[r].locked

\* markPaymentSucceeded reads the payment; transitionPaymentStatus throws for EXPIRED.
WriteAndRead(r) ==
    /\ request[r].op \in {"webhook", "cash"} /\ ~request[r].locked
    /\ LET p == request[r].payment
       IN  /\ ~LockedRow(p)
           /\ request[r].to \in {"SUCCEEDED", "CONFIRMED"} => status[p] # "EXPIRED"
           /\ request' = [request EXCEPT ![r].locked = TRUE, ![r].read = status[p]]
    /\ UNCHANGED <<paymentVars, moneyVars, seatVars, batch>>

\* (mutant) the existing transaction is not looked for
LedgerPostAgain(key) == posted' = [posted EXCEPT ![key] = @ + 1]
\* ledgerPost: nothing is posted under a key that exists.
LedgerPost(key) == posted' = [posted EXCEPT ![key] = IF @ = 0 THEN 1 ELSE @]

\* (mutant) the seats are booked whatever became of them
ConfirmLapsedBooking ==
    /\ booking' = "CONFIRMED" /\ bookingSeat' = "BOOKED"
    /\ hold' = IF hold = "ACTIVE" THEN "CONFIRMED" ELSE hold
    /\ UNCHANGED tripSeat
ConfirmPaidBooking ==
    /\ booking' = IF booking \in {"HOLD", "PAYMENT_PENDING"} THEN "CONFIRMED" ELSE booking
    /\ bookingSeat' = IF bookingSeat = "HELD" THEN "BOOKED" ELSE bookingSeat
    /\ hold' = IF hold = "ACTIVE" THEN "CONFIRMED" ELSE hold
    /\ UNCHANGED tripSeat

\* PlatformFee and DriverEarning are unique for a payment, so a second row fails.
MarkPaymentSucceeded(p, read) ==
    \/ read \in Captured /\ UNCHANGED <<status, moneyVars, seatVars>>
    \/ /\ read \notin Captured /\ earning[p] = "NONE"
       /\ status' = [status EXCEPT ![p] = "SUCCEEDED"]
       /\ paid' = [paid EXCEPT ![p] = Amount]
       /\ earning' = [earning EXCEPT ![p] = "PENDING"]
       /\ LedgerPost(<<"PAYMENT", p>>)
       /\ ConfirmPaidBooking
       /\ UNCHANGED <<refunded, payoutOf, payout, gross, refund>>

MarkIf(success, p, read) ==
    IF success THEN MarkPaymentSucceeded(p, read) ELSE UNCHANGED <<status, moneyVars, seatVars>>

WebhookCommit(r) ==
    LET t == request[r]
    IN  /\ End(r, "webhook") /\ t.locked
        /\ processed' = processed \cup {<<t.payment, t.to>>}
        /\ intent' = [intent EXCEPT ![t.payment] = t.to]
        /\ MarkIf(t.to = "SUCCEEDED", t.payment, t.read)
        /\ UNCHANGED <<method, settlement>>

CashCommit(r) ==
    LET t == request[r]
    IN  /\ End(r, "cash") /\ t.locked
        /\ settlement' = [settlement EXCEPT ![t.payment] = t.to]
        /\ MarkIf(t.to = "CONFIRMED", t.payment, t.read)
        /\ UNCHANGED <<method, intent, processed>>

-----------------------------------------------------------------------------
(* POST /payments/:id/refunds                                              *)

\* assertRefundAllowed: what was refunded counts, what was only requested does not.
Refundable(p, a) == status[p] \in {"SUCCEEDED", "PARTIALLY_REFUNDED"} /\ a <= paid[p] - refunded[p]

RefundBegin(r, f, p, a) ==
    /\ refund[f] = NoRefund
    /\ Refundable(p, a)
    /\ Begin(r, [op |-> "refund", refund |-> f, payment |-> p, amount |-> a])

RefundCommit(r) ==
    LET t == request[r]
    IN  /\ End(r, "refund")
        /\ refund[t.refund] = NoRefund
        /\ refund' = [refund EXCEPT ![t.refund] =
                         [status |-> "REQUESTED", payment |-> t.payment, amount |-> t.amount]]
        /\ UNCHANGED <<paymentVars, seatVars, paid, refunded, earning, payoutOf, payout, gross, posted>>

-----------------------------------------------------------------------------
(* POST /admin/finance/payouts and .../:payoutId/status                    *)

\* (mutant) neither the status nor the payout of the earning is compared
Earned(p) == earning[p] # "NONE"
Payable(p) == earning[p] = "AVAILABLE" /\ payoutOf[p] = 0

PayoutCreate(o, E) ==
    /\ payout[o] = "NONE"
    /\ E # {} /\ \A p \in E : Payable(p)
    /\ earning' = [p \in Payments |-> IF p \in E THEN "ON_HOLD" ELSE earning[p]]
    /\ payoutOf' = [p \in Payments |-> IF p \in E THEN o ELSE payoutOf[p]]
    /\ payout' = [payout EXCEPT ![o] = "READY"]
    /\ gross' = [gross EXCEPT ![o] = NetMinor * Cardinality(E)]
    /\ UNCHANGED <<paymentVars, seatVars, paid, refunded, refund, posted, request, batch>>

\* Any status may follow any other.
PayoutStatus(o, s) ==
    /\ payout[o] # "NONE"
    /\ payout' = [payout EXCEPT ![o] = s]
    /\ \/ /\ s = "PAID"
          /\ earning' = [p \in Payments |-> IF payoutOf[p] = o THEN "PAID" ELSE earning[p]]
          /\ LedgerPost(<<"PAYOUT", o>>)
       \/ s # "PAID" /\ UNCHANGED <<earning, posted>>
    /\ UNCHANGED <<paymentVars, seatVars, paid, refunded, payoutOf, gross, refund, request, batch>>

-----------------------------------------------------------------------------
(* The finance worker: stale online payments, requested refunds, earnings  *)
(* that have become available.  One job runs at a time.                    *)

\* (mutant) the payment is expired whatever happened since it was listed
StillOnline(p) == method[p] = "ONLINE" /\ status[p] # "NONE"
\* (mutant) CREATED is forgotten
StillProcessing(p) == method[p] = "ONLINE" /\ status[p] = "PROCESSING"
StillUnpaid(p) == method[p] = "ONLINE" /\ status[p] = "CREATED"

\* Half an hour has passed.  The intent's row may have to be waited for.
ExpirePayment(p) ==
    /\ batch.todo = {}
    /\ StillUnpaid(p)
    /\ intent[p] \in ExpirableIntents => ~LockedRow(p)
    /\ status' = [status EXCEPT ![p] = "EXPIRED"]
    /\ intent' = [intent EXCEPT ![p] = IF @ \in ExpirableIntents THEN "EXPIRED" ELSE @]
    /\ \/ /\ hold = "ACTIVE" /\ hold' = "EXPIRED"
          /\ tripSeat' = IF tripSeat = "HELD" THEN "AVAILABLE" ELSE tripSeat
          /\ bookingSeat' = IF bookingSeat = "HELD" THEN "RELEASED" ELSE bookingSeat
       \/ hold # "ACTIVE" /\ UNCHANGED <<hold, tripSeat, bookingSeat>>
    /\ booking' = IF booking = "PAYMENT_PENDING" THEN "EXPIRED" ELSE booking
    /\ UNCHANGED <<method, settlement, processed, moneyVars, request, batch>>

\* (mutant) refunds wait for an approval that nobody gives
Approved == {f \in Refunds : refund[f].status = "APPROVED"}
Requested == {f \in Refunds : refund[f].status = "REQUESTED"}

RefundsList ==
    /\ batch.todo = {} /\ Requested # {}
    /\ batch' = [todo |-> Requested, seen |-> refunded]
    /\ UNCHANGED <<paymentVars, moneyVars, seatVars, request>>

\* The payment is the one that was read with the list; it is updated by id.
RefundProcess(f) ==
    LET p == refund[f].payment
        total == batch.seen[p] + refund[f].amount
    IN  /\ f \in batch.todo /\ \A g \in batch.todo : f <= g
        /\ posted[<<"REFUND", f>>] = 0
        /\ refund' = [refund EXCEPT ![f].status = "SUCCEEDED"]
        /\ refunded' = [refunded EXCEPT ![p] = total]
        /\ status' = [status EXCEPT ![p] = IF total >= paid[p] THEN "REFUNDED"
                                           ELSE "PARTIALLY_REFUNDED"]
        /\ posted' = [posted EXCEPT ![<<"REFUND", f>>] = @ + 1]
        /\ batch' = IF batch.todo = {f} THEN NoBatch ELSE [batch EXCEPT !.todo = @ \ {f}]
        /\ UNCHANGED <<method, intent, settlement, processed, seatVars, request,
                       paid, earning, payoutOf, payout, gross>>

WorkerCrash ==
    /\ batch.todo # {}
    /\ batch' = NoBatch
    /\ UNCHANGED <<paymentVars, moneyVars, seatVars, request>>

\* A day after the payment.
EarningsAvailable(E) ==
    /\ batch.todo = {}
    /\ E # {} /\ \A p \in E : earning[p] = "PENDING"
    /\ earning' = [p \in Payments |-> IF p \in E THEN "AVAILABLE" ELSE earning[p]]
    /\ UNCHANGED <<paymentVars, seatVars, paid, refunded, payoutOf, payout, gross, refund, posted,
                   request, batch>>

-----------------------------------------------------------------------------
(* What the booking routes and the booking worker do to the booking, each  *)
(* in one step: SeatHolds has their interleavings.                         *)

ConfirmHold ==
    /\ hold = "ACTIVE" /\ booking # "CONFIRMED" /\ tripSeat = "HELD" /\ bookingSeat = "HELD"
    /\ booking' = "CONFIRMED" /\ hold' = "CONFIRMED"
    /\ bookingSeat' = "BOOKED" /\ tripSeat' = "BOOKED"
    /\ UNCHANGED <<paymentVars, moneyVars, request, batch>>

EndHold ==
    /\ hold = "ACTIVE"
    /\ booking' = "EXPIRED" /\ hold' = "EXPIRED"
    /\ bookingSeat' = IF bookingSeat = "HELD" THEN "RELEASED" ELSE bookingSeat
    /\ tripSeat' = IF tripSeat = "HELD" THEN "AVAILABLE" ELSE tripSeat
    /\ UNCHANGED <<paymentVars, moneyVars, request, batch>>

CancelBooking ==
    /\ booking \notin NotPayable
    /\ booking' = "CANCELLED"
    /\ hold' = IF hold = "ACTIVE" THEN "CANCELLED" ELSE hold
    /\ \/ /\ bookingSeat \in {"HELD", "BOOKED"}
          /\ bookingSeat' = "CANCELLED" /\ tripSeat' = "AVAILABLE"
       \/ bookingSeat \notin {"HELD", "BOOKED"} /\ UNCHANGED <<bookingSeat, tripSeat>>
    /\ UNCHANGED <<paymentVars, moneyVars, request, batch>>

-----------------------------------------------------------------------------
Start(r) ==
    \/ \E m \in {"CASH", "ONLINE"} : IntentBegin(r, m)
    \/ \E p \in Payments, s \in WebhookStatuses : WebhookBegin(r, p, s)
    \/ \E p \in Payments, s \in {"CONFIRMED", "DISPUTED"} : CashBegin(r, p, s)
    \/ \E f \in Refunds, p \in Payments, a \in RefundAmounts : RefundBegin(r, f, p, a)

Finish(r) == IntentCommit(r) \/ WebhookCommit(r) \/ CashCommit(r) \/ RefundCommit(r) \/ Abort(r)

Admin ==
    \/ \E o \in Payouts, E \in SUBSET Payments : PayoutCreate(o, E)
    \/ \E o \in Payouts, s \in {"PAID", "FAILED", "CANCELLED", "ON_HOLD"} : PayoutStatus(o, s)

FinanceWorker ==
    \/ \E p \in Payments : ExpirePayment(p)
    \/ RefundsList \/ WorkerCrash
    \/ \E f \in Refunds : RefundProcess(f)
    \/ \E E \in SUBSET Payments : EarningsAvailable(E)

BookingRoutes == ConfirmHold \/ EndHold \/ CancelBooking

Next ==
    \/ \E r \in Requests : Start(r) \/ WriteAndRead(r) \/ Finish(r)
    \/ Admin \/ FinanceWorker \/ BookingRoutes

Spec == Init /\ [][Next]_vars

\* A transaction ends within five seconds; the job is repeated for ever, and not
\* killed before its next refund or payment each time.
Fairness ==
    /\ \A r \in Requests : WF_vars(Finish(r))
    /\ SF_vars(\E p \in Payments : ExpirePayment(p))
    /\ WF_vars(RefundsList)
    /\ SF_vars(\E f \in Refunds : RefundProcess(f))

FairSpec == Spec /\ Fairness

-----------------------------------------------------------------------------
(* A payment is SUCCEEDED, or refunded after that, exactly if its amount is *)
(* booked as paid, its fee and earning rows exist and its ledger            *)
(* transaction is posted, once, although webhooks, cash confirmations and   *)
(* the expiry of stale payments overlap (markPaymentSucceeded).             *)
CapturedOnce ==
    \A p \in Payments :
        /\ status[p] \in Captured <=> paid[p] = Amount
        /\ status[p] \in Captured <=> earning[p] # "NONE"
        /\ posted[<<"PAYMENT", p>>] = IF status[p] \in Captured THEN 1 ELSE 0

(* A payment takes no seat: the seats of a booking whose hold has ended are *)
(* free, and BookingSeat says the same of them as TripSeat, although a late *)
(* intent revives the booking and its payment is captured after all         *)
(* (payments/intents, markPaymentSucceeded).                                *)
LatePaymentTakesNoSeat ==
    /\ tripSeat = "AVAILABLE" <=> bookingSeat \in {"RELEASED", "CANCELLED"}
    /\ hold \in {"EXPIRED", "CANCELLED"} => tripSeat = "AVAILABLE"

(* The rows of payments are such as the code writes, no fee, earning or     *)
(* payout is negative, and they leave the seats to whom they belong.        *)
PaymentStateAgrees == PaymentsTypeOK /\ LatePaymentTakesNoSeat

\* The ledger account driver_earnings_payable.
DriverEarningsPayable ==
    NetMinor * Cardinality({p \in Payments : posted[<<"PAYMENT", p>>] > 0})
    - SumFunction([o \in Payouts |-> posted[<<"PAYOUT", o>>] * gross[o]])

(* The ledger owes the driver exactly the earnings that are not paid out    *)
(* yet, whatever sequence of statuses a payout goes through and whichever   *)
(* earnings overlapping payouts ask for (payouts, payouts/:payoutId/status). *)
LedgerOwesUnpaidEarnings ==
    DriverEarningsPayable =
        NetMinor * Cardinality({p \in Payments : earning[p] \in {"PENDING", "AVAILABLE", "ON_HOLD"}})

(* An earning goes into one payout and is never paid back out of it         *)
(* (payouts: updateMany with payoutId null).                                *)
EarningClaimedOnce ==
    [][\A p \in Payments : payoutOf[p] # 0 => /\ payoutOf'[p] = payoutOf[p]
                                              /\ earning[p] = "PAID" => earning'[p] = "PAID"]_vars

RefundedTotal(p) ==
    SumFunction([f \in Refunds |-> IF refund[f].status = "SUCCEEDED" /\ refund[f].payment = p
                                   THEN refund[f].amount ELSE 0])

(* No more is refunded than was paid (refunds, finance worker).             *)
RefundsWithinPaid == \A p \in Payments : RefundedTotal(p) <= paid[p]

(* A requested refund is carried out although the worker may be killed in   *)
(* the middle of its list (finance worker).                                 *)
RefundsCarriedOut ==
    \A f \in Refunds : refund[f].status = "REQUESTED" ~> refund[f].status = "SUCCEEDED"

(* An online payment does not stay open: it is captured or it expires       *)
(* (expireStaleOnlinePayments).                                             *)
OnlinePaymentResolved ==
    \A p \in Payments : method[p] = "ONLINE" /\ status[p] = "CREATED" ~> status[p] # "CREATED"
=============================================================================
