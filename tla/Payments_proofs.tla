-------------------------- MODULE Payments_proofs --------------------------
(***************************************************************************)
(* Payments: type correctness, that a payment is captured once with all    *)
(* its rows, that an earning is claimed by one payout, that late payments  *)
(* take no seats, and that the ledger owes the driver what is not paid out *)
(* yet, for any number of payments, refunds, payouts and requests.         *)
(***************************************************************************)
EXTENDS Payments, TLAPS, FiniteSetTheorems

\* The fee is a part of the amount.
LEMMA FeeFits == FeeMinor \in Nat /\ NetMinor \in Nat
  <1>1. calculateBps(Amount, 1000) \in Nat
    BY PaymentsAssumption DEF calculateBps
  <1> QED BY <1>1, PaymentsAssumption DEF FeeMinor, NetMinor

\* The key of a payment's ledger transaction is nothing else's.
LEMMA PaymentKeys ==
    /\ \A p \in Payments : <<"PAYMENT", p>> \in LedgerKeys
    /\ \A p, f : <<"PAYMENT", p>> # <<"REFUND", f>>
    /\ \A p, o : <<"PAYMENT", p>> # <<"PAYOUT", o>>
    /\ \A p, q : <<"PAYMENT", p>> = <<"PAYMENT", q>> => p = q
  BY DEF LedgerKeys

(* What refunds and refund requests name was captured, and a refund is in  *)
(* the worker's list only while it is REQUESTED.                           *)
RefundsOfCaptured ==
    /\ \A f \in Refunds : refund[f] # NoRefund => status[refund[f].payment] \in Captured
    /\ \A f \in Refunds : refund[f] # NoRefund => refund[f].payment \in Payments
    /\ \A f \in batch.todo : refund[f] # NoRefund
    /\ \A r \in Requests : request[r].op = "refund" => status[request[r].payment] \in Captured

(* An earning in a payout is not waiting for one.                          *)
ClaimedEarnings == \A p \in Payments : payoutOf[p] # 0 => earning[p] \in {"ON_HOLD", "PAID"}

CaptureInv == PaymentsTypeOK /\ CapturedOnce /\ RefundsOfCaptured /\ ClaimedEarnings

LEMMA CaptureInvInit == Init => CaptureInv
  <1> SUFFICES ASSUME Init PROVE CaptureInv
    OBVIOUS
  <1>1. PaymentsTypeOK
    BY PaymentsAssumption DEF Init, PaymentsTypeOK, PaymentStatuses, NoRefund, NoBatch,
       Transactions, LedgerKeys
  <1>2. CapturedOnce
    BY PaymentsAssumption DEF Init, CapturedOnce, Captured, LedgerKeys
  <1>3. RefundsOfCaptured
    BY DEF Init, RefundsOfCaptured, NoBatch, Idle
  <1>4. ClaimedEarnings
    BY DEF Init, ClaimedEarnings
  <1> QED BY <1>1, <1>2, <1>3, <1>4 DEF CaptureInv

LEMMA BeginsKeep ==
    ASSUME CaptureInv, NEW r \in Requests, NEW t \in Transactions, Begin(r, t),
           t.op = "refund" => status[t.payment] \in Captured
    PROVE  CaptureInv'
  <1>1. PaymentsTypeOK'
    BY DEF CaptureInv, PaymentsTypeOK, Begin, paymentVars, moneyVars, seatVars
  <1>2. CapturedOnce'
    BY DEF CaptureInv, PaymentsTypeOK, CapturedOnce, Begin, paymentVars, moneyVars
  <1>3. RefundsOfCaptured'
    BY DEF CaptureInv, PaymentsTypeOK, RefundsOfCaptured, Captured, Begin, paymentVars, moneyVars
  <1>4. ClaimedEarnings'
    BY DEF CaptureInv, PaymentsTypeOK, ClaimedEarnings, Begin, moneyVars
  <1> QED BY <1>1, <1>2, <1>3, <1>4 DEF CaptureInv

LEMMA AbortKeeps ==
    ASSUME CaptureInv, NEW r \in Requests, Abort(r)
    PROVE  CaptureInv'
  <1>1. PaymentsTypeOK'
    BY DEF CaptureInv, PaymentsTypeOK, Abort, Idle, paymentVars, moneyVars, seatVars, Transactions
  <1>2. CapturedOnce'
    BY DEF CaptureInv, PaymentsTypeOK, CapturedOnce, Abort, paymentVars, moneyVars
  <1>3. RefundsOfCaptured'
    BY DEF CaptureInv, PaymentsTypeOK, RefundsOfCaptured, Captured, Abort, Idle, paymentVars,
       moneyVars
  <1>4. ClaimedEarnings'
    BY DEF CaptureInv, PaymentsTypeOK, ClaimedEarnings, Abort, moneyVars
  <1> QED BY <1>1, <1>2, <1>3, <1>4 DEF CaptureInv

LEMMA WriteAndReadKeeps ==
    ASSUME CaptureInv, NEW r \in Requests, WriteAndRead(r)
    PROVE  CaptureInv'
  <1>1. PaymentsTypeOK'
    <2>1. request[r] \in Transactions /\ status[request[r].payment] \in PaymentStatuses
      BY DEF CaptureInv, PaymentsTypeOK, WriteAndRead, Transactions, Idle
    <2>2. request'[r] = [request[r] EXCEPT !.locked = TRUE, !.read = status[request[r].payment]]
      BY DEF CaptureInv, PaymentsTypeOK, WriteAndRead
    <2>3. request'[r] \in Transactions
      <3>1. CASE request[r].op = "webhook"
        BY <2>1, <2>2, <3>1 DEF Transactions, Idle
      <3>2. CASE request[r].op = "cash"
        BY <2>1, <2>2, <3>2 DEF Transactions, Idle
      <3> QED BY <3>1, <3>2 DEF WriteAndRead
    <2> QED BY <2>3 DEF CaptureInv, PaymentsTypeOK, WriteAndRead, paymentVars, moneyVars, seatVars
  <1>2. CapturedOnce'
    BY DEF CaptureInv, PaymentsTypeOK, CapturedOnce, WriteAndRead, paymentVars, moneyVars
  <1>3. RefundsOfCaptured'
    BY DEF CaptureInv, PaymentsTypeOK, RefundsOfCaptured, Captured, WriteAndRead, paymentVars,
       moneyVars, Transactions, Idle
  <1>4. ClaimedEarnings'
    BY DEF CaptureInv, PaymentsTypeOK, ClaimedEarnings, WriteAndRead, moneyVars
  <1> QED BY <1>1, <1>2, <1>3, <1>4 DEF CaptureInv

LEMMA IntentCommitKeeps ==
    ASSUME CaptureInv, NEW r \in Requests, IntentCommit(r)
    PROVE  CaptureInv'
  <1>1. PaymentsTypeOK'
    <2>1. request' \in [Requests -> Transactions] /\ batch' = batch
      BY DEF CaptureInv, PaymentsTypeOK, IntentCommit, End, Transactions
    <2>2. request[r].method \in {"CASH", "ONLINE"}
      BY DEF IntentCommit
    <2>3. status' \in [Payments -> PaymentStatuses]
      BY DEF CaptureInv, PaymentsTypeOK, IntentCommit, PaymentStatuses, ActivePaymentStatuses
    <2>4. method' \in [Payments -> {"NONE", "CASH", "ONLINE"}]
      BY <2>2 DEF CaptureInv, PaymentsTypeOK, IntentCommit
    <2>5. /\ intent' \in [Payments -> WebhookStatuses \cup {"NONE", "REQUIRES_ACTION", "EXPIRED"}]
          /\ settlement' \in [Payments -> {"NONE", "DECLARED", "CONFIRMED", "DISPUTED"}]
      BY DEF CaptureInv, PaymentsTypeOK, IntentCommit
    <2>6. /\ booking' \in {"PAYMENT_PENDING", "CONFIRMED"}
          /\ UNCHANGED <<processed, moneyVars, hold, bookingSeat, tripSeat>>
      BY DEF IntentCommit
    <2> QED BY <2>1, <2>3, <2>4, <2>5, <2>6 DEF CaptureInv, PaymentsTypeOK, moneyVars
  <1>2. CapturedOnce'
    <2> SUFFICES ASSUME NEW q \in Payments
                 PROVE  /\ status'[q] \in Captured <=> paid'[q] = Amount
                        /\ status'[q] \in Captured <=> earning'[q] # "NONE"
                        /\ posted'[<<"PAYMENT", q>>] = IF status'[q] \in Captured THEN 1 ELSE 0
      BY DEF CapturedOnce
    <2>1. /\ status[q] \in Captured <=> paid[q] = Amount
          /\ status[q] \in Captured <=> earning[q] # "NONE"
          /\ posted[<<"PAYMENT", q>>] = IF status[q] \in Captured THEN 1 ELSE 0
      BY DEF CaptureInv, CapturedOnce
    <2>2. (status'[q] \in Captured <=> status[q] \in Captured) /\ paid'[q] = paid[q]
      BY DEF CaptureInv, PaymentsTypeOK, Captured, IntentCommit, End, Idle, paymentVars, moneyVars
    <2>3. /\ earning'[q] # "NONE" <=> earning[q] # "NONE"
          /\ posted'[<<"PAYMENT", q>>] = posted[<<"PAYMENT", q>>]
      BY <2>1, PaymentKeys DEF CaptureInv, PaymentsTypeOK, IntentCommit, End, Idle, moneyVars
    <2> QED BY <2>1, <2>2, <2>3
  <1>3. RefundsOfCaptured'
    <2>1. \A q \in Payments : status[q] \in Captured => status'[q] \in Captured
      BY DEF CaptureInv, PaymentsTypeOK, Captured, IntentCommit
    <2>2. \A q \in Requests : request'[q] = Idle \/ request'[q] = request[q]
      BY DEF CaptureInv, PaymentsTypeOK, IntentCommit, End
    <2>3. \A q \in Requests : request[q].op = "refund" => request[q].payment \in Payments
      BY DEF CaptureInv, PaymentsTypeOK, Transactions, Idle
    <2>4. refund' = refund /\ batch' = batch
      BY DEF IntentCommit, End, moneyVars
    <2>5. \A q \in Requests : request'[q].op = "refund" => status'[request'[q].payment] \in Captured
      BY <2>1, <2>2, <2>3 DEF CaptureInv, RefundsOfCaptured, Idle
    <2> QED BY <2>1, <2>4, <2>5 DEF CaptureInv, RefundsOfCaptured
  <1>4. ClaimedEarnings'
    BY DEF CaptureInv, PaymentsTypeOK, ClaimedEarnings, IntentCommit, moneyVars
  <1> QED BY <1>1, <1>2, <1>3, <1>4 DEF CaptureInv

LEMMA RefundCommitKeeps ==
    ASSUME CaptureInv, NEW r \in Requests, RefundCommit(r)
    PROVE  CaptureInv'
  <1>1. PaymentsTypeOK'
    BY DEF CaptureInv, PaymentsTypeOK, RefundCommit, End, Idle, NoRefund, paymentVars, moneyVars,
       seatVars, Transactions
  <1>2. CapturedOnce'
    BY DEF CaptureInv, PaymentsTypeOK, CapturedOnce, RefundCommit, End, paymentVars, moneyVars
  <1>3. RefundsOfCaptured'
    BY DEF CaptureInv, PaymentsTypeOK, RefundsOfCaptured, Captured, RefundCommit, End, Idle,
       NoRefund, paymentVars, moneyVars, Transactions
  <1>4. ClaimedEarnings'
    BY PaymentsAssumption DEF CaptureInv, PaymentsTypeOK, ClaimedEarnings, RefundCommit
  <1> QED BY <1>1, <1>2, <1>3, <1>4 DEF CaptureInv

LEMMA PayoutCreateKeeps ==
    ASSUME CaptureInv, NEW o \in Payouts, NEW E \in SUBSET Payments, PayoutCreate(o, E)
    PROVE  CaptureInv'
  <1>1. PaymentsTypeOK'
    <2>1. Cardinality(E) \in Nat
      BY PaymentsAssumption, FS_Subset, FS_CardinalityType
    <2>2. NetMinor * Cardinality(E) \in Nat
      BY <2>1, FeeFits
    <2> QED BY <2>2 DEF CaptureInv, PaymentsTypeOK, PayoutCreate, paymentVars, seatVars
  <1>2. CapturedOnce'
    BY DEF CaptureInv, PaymentsTypeOK, CapturedOnce, PayoutCreate, Payable, paymentVars, moneyVars
  <1>3. RefundsOfCaptured'
    BY DEF CaptureInv, PaymentsTypeOK, RefundsOfCaptured, Captured, PayoutCreate, Payable,
       paymentVars, moneyVars
  <1>4. ClaimedEarnings'
    BY PaymentsAssumption DEF CaptureInv, PaymentsTypeOK, ClaimedEarnings, PayoutCreate
  <1> QED BY <1>1, <1>2, <1>3, <1>4 DEF CaptureInv

LEMMA PayoutStatusKeeps ==
    ASSUME CaptureInv, NEW o \in Payouts, NEW s \in {"PAID", "FAILED", "CANCELLED", "ON_HOLD"},
           PayoutStatus(o, s)
    PROVE  CaptureInv'
  <1>1. PaymentsTypeOK'
    <2>1. earning' \in [Payments -> {"NONE", "PENDING", "AVAILABLE", "ON_HOLD", "PAID"}]
      BY DEF CaptureInv, PaymentsTypeOK, PayoutStatus
    <2>2. payout' \in [Payouts -> {"NONE", "READY", "PAID", "FAILED", "CANCELLED", "ON_HOLD"}]
      BY DEF CaptureInv, PaymentsTypeOK, PayoutStatus
    <2>3. posted' \in [LedgerKeys -> Nat]
      <3>1. posted \in [LedgerKeys -> Nat]
        BY DEF CaptureInv, PaymentsTypeOK
      <3>2. \/ posted' = posted
            \/ posted' = [posted EXCEPT ![<<"PAYOUT", o>>] = IF @ = 0 THEN 1 ELSE @]
        BY DEF PayoutStatus, LedgerPost
      <3> QED BY <3>1, <3>2
    <2>4. UNCHANGED <<paymentVars, seatVars, paid, refunded, payoutOf, gross, refund, request, batch>>
      BY DEF PayoutStatus
    <2> QED BY <2>1, <2>2, <2>3, <2>4 DEF CaptureInv, PaymentsTypeOK, paymentVars, seatVars
  <1>2. CapturedOnce'
    <2> SUFFICES ASSUME NEW q \in Payments
                 PROVE  /\ status'[q] \in Captured <=> paid'[q] = Amount
                        /\ status'[q] \in Captured <=> earning'[q] # "NONE"
                        /\ posted'[<<"PAYMENT", q>>] = IF status'[q] \in Captured THEN 1 ELSE 0
      BY DEF CapturedOnce
    <2>1. /\ status[q] \in Captured <=> paid[q] = Amount
          /\ status[q] \in Captured <=> earning[q] # "NONE"
          /\ posted[<<"PAYMENT", q>>] = IF status[q] \in Captured THEN 1 ELSE 0
      BY DEF CaptureInv, CapturedOnce
    <2>2. (status'[q] \in Captured <=> status[q] \in Captured) /\ paid'[q] = paid[q]
      BY DEF CaptureInv, PaymentsTypeOK, Captured, PayoutStatus, LedgerPost, paymentVars, moneyVars
    <2>3. earning'[q] # "NONE" <=> earning[q] # "NONE"
      <3>1. payoutOf[q] = o => earning[q] # "NONE"
        BY PaymentsAssumption DEF CaptureInv, ClaimedEarnings
      <3> QED BY <3>1 DEF CaptureInv, PaymentsTypeOK, PayoutStatus
    <2>4. posted'[<<"PAYMENT", q>>] = posted[<<"PAYMENT", q>>]
      <3>1. <<"PAYMENT", q>> \in LedgerKeys /\ <<"PAYMENT", q>> # <<"PAYOUT", o>>
        BY PaymentKeys
      <3> QED BY <3>1 DEF CaptureInv, PaymentsTypeOK, PayoutStatus, LedgerPost
    <2> QED BY <2>1, <2>2, <2>3, <2>4
  <1>3. RefundsOfCaptured'
    BY DEF CaptureInv, PaymentsTypeOK, RefundsOfCaptured, Captured, PayoutStatus, LedgerPost,
       paymentVars, moneyVars
  <1>4. ClaimedEarnings'
    BY PaymentsAssumption DEF CaptureInv, PaymentsTypeOK, ClaimedEarnings, PayoutStatus
  <1> QED BY <1>1, <1>2, <1>3, <1>4 DEF CaptureInv

LEMMA ExpirePaymentKeeps ==
    ASSUME CaptureInv, NEW p \in Payments, ExpirePayment(p)
    PROVE  CaptureInv'
  <1>1. PaymentsTypeOK'
    BY DEF CaptureInv, PaymentsTypeOK, ExpirePayment, StillUnpaid, paymentVars, moneyVars,
       seatVars, PaymentStatuses, ExpirableIntents
  <1>2. CapturedOnce'
    <2> SUFFICES ASSUME NEW q \in Payments
                 PROVE  /\ status'[q] \in Captured <=> paid'[q] = Amount
                        /\ status'[q] \in Captured <=> earning'[q] # "NONE"
                        /\ posted'[<<"PAYMENT", q>>] = IF status'[q] \in Captured THEN 1 ELSE 0
      BY DEF CapturedOnce
    <2>1. /\ status[q] \in Captured <=> paid[q] = Amount
          /\ status[q] \in Captured <=> earning[q] # "NONE"
          /\ posted[<<"PAYMENT", q>>] = IF status[q] \in Captured THEN 1 ELSE 0
      BY DEF CaptureInv, CapturedOnce
    <2>2. (status'[q] \in Captured <=> status[q] \in Captured) /\ paid'[q] = paid[q]
      BY DEF CaptureInv, PaymentsTypeOK, Captured, ExpirePayment, StillUnpaid, paymentVars,
         moneyVars
    <2>3. /\ earning'[q] # "NONE" <=> earning[q] # "NONE"
          /\ posted'[<<"PAYMENT", q>>] = posted[<<"PAYMENT", q>>]
      BY <2>1, PaymentKeys DEF CaptureInv, PaymentsTypeOK, ExpirePayment, StillUnpaid, moneyVars
    <2> QED BY <2>1, <2>2, <2>3
  <1>3. RefundsOfCaptured'
    BY DEF CaptureInv, PaymentsTypeOK, RefundsOfCaptured, Captured, ExpirePayment, StillUnpaid,
       paymentVars, moneyVars
  <1>4. ClaimedEarnings'
    BY DEF CaptureInv, PaymentsTypeOK, ClaimedEarnings, ExpirePayment, moneyVars
  <1> QED BY <1>1, <1>2, <1>3, <1>4 DEF CaptureInv

LEMMA RefundProcessKeeps ==
    ASSUME CaptureInv, NEW f \in Refunds, RefundProcess(f)
    PROVE  CaptureInv'
  <1>1. PaymentsTypeOK'
    <2> DEFINE p == refund[f].payment
               total == batch.seen[p] + refund[f].amount
    <2>1. f \in batch.todo /\ refund[f] # NoRefund
      BY DEF CaptureInv, RefundsOfCaptured, RefundProcess
    <2>2. p \in Payments /\ total \in Nat
      <3>1. p \in Payments
        BY <2>1 DEF CaptureInv, RefundsOfCaptured
      <3>2. batch.seen[p] \in Nat
        BY <3>1 DEF CaptureInv, PaymentsTypeOK
      <3>3. \A a \in RefundAmounts \cup {0} : a \in Nat
        BY PaymentsAssumption
      <3>4. PICK a \in RefundAmounts \cup {0} : refund[f].amount = a
        BY DEF CaptureInv, PaymentsTypeOK
      <3>5. a \in Nat
        BY <3>3
      <3> QED BY <3>1, <3>2, <3>4, <3>5
    <2>3. refunded' \in [Payments -> Nat] /\ status' \in [Payments -> PaymentStatuses]
      BY <2>2 DEF CaptureInv, PaymentsTypeOK, RefundProcess, PaymentStatuses, Captured
    <2>4. refund' \in [Refunds -> [status : {"NONE", "REQUESTED", "SUCCEEDED"},
                                  payment : Payments \cup {0}, amount : RefundAmounts \cup {0}]]
      BY DEF CaptureInv, PaymentsTypeOK, RefundProcess
    <2>5. posted' \in [LedgerKeys -> Nat]
      <3>1. posted \in [LedgerKeys -> Nat]
        BY DEF CaptureInv, PaymentsTypeOK
      <3>2. posted' = [posted EXCEPT ![<<"REFUND", f>>] = @ + 1]
        BY DEF RefundProcess
      <3>3. <<"REFUND", f>> \in LedgerKeys
        BY DEF LedgerKeys
      <3> QED BY <3>1, <3>2, <3>3
    <2>6. batch' \in [todo : SUBSET Refunds, seen : [Payments -> Nat]]
      BY DEF CaptureInv, PaymentsTypeOK, RefundProcess, NoBatch
    <2> QED BY <2>3, <2>4, <2>5, <2>6 DEF CaptureInv, PaymentsTypeOK, RefundProcess, seatVars
  <1>2. CapturedOnce'
    <2> SUFFICES ASSUME NEW q \in Payments
                 PROVE  /\ status'[q] \in Captured <=> paid'[q] = Amount
                        /\ status'[q] \in Captured <=> earning'[q] # "NONE"
                        /\ posted'[<<"PAYMENT", q>>] = IF status'[q] \in Captured THEN 1 ELSE 0
      BY DEF CapturedOnce
    <2>1. /\ status[q] \in Captured <=> paid[q] = Amount
          /\ status[q] \in Captured <=> earning[q] # "NONE"
          /\ posted[<<"PAYMENT", q>>] = IF status[q] \in Captured THEN 1 ELSE 0
      BY DEF CaptureInv, CapturedOnce
    <2>2. (status'[q] \in Captured <=> status[q] \in Captured) /\ paid'[q] = paid[q]
      BY DEF CaptureInv, PaymentsTypeOK, RefundsOfCaptured, Captured, RefundProcess, paymentVars,
         moneyVars
    <2>3. /\ earning'[q] # "NONE" <=> earning[q] # "NONE"
          /\ posted'[<<"PAYMENT", q>>] = posted[<<"PAYMENT", q>>]
      BY <2>1, PaymentKeys DEF CaptureInv, PaymentsTypeOK, RefundProcess, moneyVars
    <2> QED BY <2>1, <2>2, <2>3
  <1>3. RefundsOfCaptured'
    BY DEF CaptureInv, PaymentsTypeOK, RefundsOfCaptured, Captured, RefundProcess, NoRefund,
       NoBatch, paymentVars, moneyVars
  <1>4. ClaimedEarnings'
    BY PaymentsAssumption DEF CaptureInv, PaymentsTypeOK, ClaimedEarnings, RefundProcess
  <1> QED BY <1>1, <1>2, <1>3, <1>4 DEF CaptureInv

LEMMA EarningsAvailableKeeps ==
    ASSUME CaptureInv, NEW E \in SUBSET Payments, EarningsAvailable(E)
    PROVE  CaptureInv'
  <1>1. PaymentsTypeOK'
    BY DEF CaptureInv, PaymentsTypeOK, EarningsAvailable, paymentVars, moneyVars, seatVars
  <1>2. CapturedOnce'
    BY DEF CaptureInv, PaymentsTypeOK, CapturedOnce, EarningsAvailable, paymentVars, moneyVars
  <1>3. RefundsOfCaptured'
    BY DEF CaptureInv, PaymentsTypeOK, RefundsOfCaptured, Captured, EarningsAvailable,
       paymentVars, moneyVars
  <1>4. ClaimedEarnings'
    BY DEF CaptureInv, PaymentsTypeOK, ClaimedEarnings, EarningsAvailable
  <1> QED BY <1>1, <1>2, <1>3, <1>4 DEF CaptureInv

\* markPaymentSucceeded books a payment with all its rows, or leaves it alone.
LEMMA MarkKeeps ==
    ASSUME CaptureInv, NEW p \in Payments, NEW read \in PaymentStatuses, NEW success \in BOOLEAN,
           MarkIf(success, p, read),
           request' \in [Requests -> Transactions],
           \A r \in Requests : request'[r] = Idle \/ request'[r] = request[r],
           intent' \in [Payments -> WebhookStatuses \cup {"NONE", "REQUIRES_ACTION", "EXPIRED"}],
           settlement' \in [Payments -> {"NONE", "DECLARED", "CONFIRMED", "DISPUTED"}],
           processed' \in SUBSET (Payments \X WebhookStatuses),
           UNCHANGED <<method, batch>>
    PROVE  CaptureInv'
  <1>1. CASE UNCHANGED <<status, moneyVars, seatVars>>
    <2>1. PaymentsTypeOK'
      BY <1>1 DEF CaptureInv, PaymentsTypeOK, moneyVars, seatVars
    <2>2. CapturedOnce'
      BY <1>1 DEF CaptureInv, CapturedOnce, moneyVars
    <2>3. RefundsOfCaptured'
      BY <1>1 DEF CaptureInv, RefundsOfCaptured, moneyVars, Idle
    <2>4. ClaimedEarnings'
      BY <1>1 DEF CaptureInv, ClaimedEarnings, moneyVars
    <2> QED BY <2>1, <2>2, <2>3, <2>4 DEF CaptureInv
  <1>2. CASE /\ earning[p] = "NONE"
             /\ status' = [status EXCEPT ![p] = "SUCCEEDED"]
             /\ paid' = [paid EXCEPT ![p] = Amount]
             /\ earning' = [earning EXCEPT ![p] = "PENDING"]
             /\ LedgerPost(<<"PAYMENT", p>>)
             /\ ConfirmPaidBooking
             /\ UNCHANGED <<refunded, payoutOf, payout, gross, refund>>
    <2>1. PaymentsTypeOK'
      BY <1>2 DEF CaptureInv, PaymentsTypeOK, LedgerPost, ConfirmPaidBooking, PaymentStatuses,
         Captured
    <2>2. CapturedOnce'
      <3> SUFFICES ASSUME NEW q \in Payments
                   PROVE  /\ status'[q] \in Captured <=> paid'[q] = Amount
                          /\ status'[q] \in Captured <=> earning'[q] # "NONE"
                          /\ posted'[<<"PAYMENT", q>>] = IF status'[q] \in Captured THEN 1 ELSE 0
        BY DEF CapturedOnce
      <3>1. /\ status[q] \in Captured <=> paid[q] = Amount
            /\ status[q] \in Captured <=> earning[q] # "NONE"
            /\ posted[<<"PAYMENT", q>>] = IF status[q] \in Captured THEN 1 ELSE 0
        BY DEF CaptureInv, CapturedOnce
      <3>2. CASE q = p
        <4>1. status'[q] = "SUCCEEDED" /\ paid'[q] = Amount /\ earning'[q] = "PENDING"
          BY <1>2, <3>2 DEF CaptureInv, PaymentsTypeOK
        <4>2. posted[<<"PAYMENT", q>>] = 0
          BY <1>2, <3>1, <3>2
        <4>3. posted'[<<"PAYMENT", q>>] = 1
          BY <1>2, <3>2, <4>2, PaymentKeys DEF CaptureInv, PaymentsTypeOK, LedgerPost
        <4> QED BY <4>1, <4>3 DEF Captured
      <3>3. CASE q # p
        <4>1. status'[q] = status[q] /\ paid'[q] = paid[q] /\ earning'[q] = earning[q]
          BY <1>2, <3>3 DEF CaptureInv, PaymentsTypeOK
        <4>2. posted'[<<"PAYMENT", q>>] = posted[<<"PAYMENT", q>>]
          BY <1>2, <3>3, PaymentKeys DEF CaptureInv, PaymentsTypeOK, LedgerPost
        <4> QED BY <3>1, <4>1, <4>2
      <3> QED BY <3>2, <3>3
    <2>3. RefundsOfCaptured'
      BY <1>2 DEF CaptureInv, PaymentsTypeOK, RefundsOfCaptured, Captured, Idle
    <2>4. ClaimedEarnings'
      BY <1>2 DEF CaptureInv, PaymentsTypeOK, ClaimedEarnings
    <2> QED BY <2>1, <2>2, <2>3, <2>4 DEF CaptureInv
  <1> QED BY <1>1, <1>2 DEF MarkIf, MarkPaymentSucceeded

LEMMA WebhookCommitKeeps ==
    ASSUME CaptureInv, NEW r \in Requests, WebhookCommit(r)
    PROVE  CaptureInv'
  <1>1. request[r] \in Transactions /\ request[r].op = "webhook"
    BY DEF CaptureInv, PaymentsTypeOK, WebhookCommit, End
  <1>2. /\ request[r].payment \in Payments /\ request[r].read \in PaymentStatuses
        /\ request[r].to \in WebhookStatuses
    BY <1>1 DEF Transactions, Idle
  <1>3. /\ request' \in [Requests -> Transactions]
        /\ \A q \in Requests : request'[q] = Idle \/ request'[q] = request[q]
    BY DEF CaptureInv, PaymentsTypeOK, WebhookCommit, End, Transactions
  <1>4. /\ intent' \in [Payments -> WebhookStatuses \cup {"NONE", "REQUIRES_ACTION", "EXPIRED"}]
        /\ settlement' \in [Payments -> {"NONE", "DECLARED", "CONFIRMED", "DISPUTED"}]
        /\ processed' \in SUBSET (Payments \X WebhookStatuses)
    BY <1>2 DEF CaptureInv, PaymentsTypeOK, WebhookCommit
  <1>5. /\ MarkIf(request[r].to = "SUCCEEDED", request[r].payment, request[r].read)
        /\ UNCHANGED <<method, batch>>
    BY DEF WebhookCommit, End
  <1> QED BY <1>2, <1>3, <1>4, <1>5, MarkKeeps

LEMMA CashCommitKeeps ==
    ASSUME CaptureInv, NEW r \in Requests, CashCommit(r)
    PROVE  CaptureInv'
  <1>1. request[r] \in Transactions /\ request[r].op = "cash"
    BY DEF CaptureInv, PaymentsTypeOK, CashCommit, End
  <1>2. /\ request[r].payment \in Payments /\ request[r].read \in PaymentStatuses
        /\ request[r].to \in {"CONFIRMED", "DISPUTED"}
    BY <1>1 DEF Transactions, Idle
  <1>3. /\ request' \in [Requests -> Transactions]
        /\ \A q \in Requests : request'[q] = Idle \/ request'[q] = request[q]
    BY DEF CaptureInv, PaymentsTypeOK, CashCommit, End, Transactions
  <1>4. /\ intent' \in [Payments -> WebhookStatuses \cup {"NONE", "REQUIRES_ACTION", "EXPIRED"}]
        /\ settlement' \in [Payments -> {"NONE", "DECLARED", "CONFIRMED", "DISPUTED"}]
        /\ processed' \in SUBSET (Payments \X WebhookStatuses)
    BY <1>2 DEF CaptureInv, PaymentsTypeOK, CashCommit
  <1>5. /\ MarkIf(request[r].to = "CONFIRMED", request[r].payment, request[r].read)
        /\ UNCHANGED <<method, batch>>
    BY DEF CashCommit, End
  <1> QED BY <1>2, <1>3, <1>4, <1>5, MarkKeeps

\* The booking's own steps, the worker's list and its loss leave the money alone.
LEMMA OtherStepsKeep ==
    ASSUME CaptureInv, BookingRoutes \/ RefundsList \/ WorkerCrash \/ UNCHANGED vars
    PROVE  CaptureInv'
  <1>1. UNCHANGED <<paymentVars, moneyVars, request>>
    BY DEF BookingRoutes, ConfirmHold, EndHold, CancelBooking, RefundsList, WorkerCrash, vars
  <1>2. /\ batch' \in [todo : SUBSET Refunds, seen : [Payments -> Nat]]
        /\ \A f \in batch'.todo : refund[f] # NoRefund
    BY DEF BookingRoutes, ConfirmHold, EndHold, CancelBooking, RefundsList, WorkerCrash, vars, 
           CaptureInv, PaymentsTypeOK, RefundsOfCaptured, Requested, NoBatch, NoRefund
  <1>3. /\ booking' \in {"HOLD", "PAYMENT_PENDING", "CONFIRMED", "EXPIRED", "CANCELLED"}
        /\ hold' \in {"ACTIVE", "CONFIRMED", "EXPIRED", "CANCELLED"}
        /\ bookingSeat' \in {"HELD", "BOOKED", "RELEASED", "CANCELLED"}
        /\ tripSeat' \in {"HELD", "BOOKED", "AVAILABLE"}
    BY DEF BookingRoutes, ConfirmHold, EndHold, CancelBooking, RefundsList, WorkerCrash, vars, 
           seatVars, CaptureInv, PaymentsTypeOK
  <1>4. PaymentsTypeOK'
    BY <1>1, <1>2, <1>3 DEF CaptureInv, PaymentsTypeOK, paymentVars, moneyVars
  <1>5. CapturedOnce'
    BY <1>1 DEF CaptureInv, CapturedOnce, paymentVars, moneyVars
  <1>6. RefundsOfCaptured'
    BY <1>1, <1>2 DEF CaptureInv, RefundsOfCaptured, paymentVars, moneyVars
  <1>7. ClaimedEarnings'
    BY <1>1 DEF CaptureInv, ClaimedEarnings, paymentVars, moneyVars
  <1> QED BY <1>4, <1>5, <1>6, <1>7 DEF CaptureInv

LEMMA StartKeeps ==
    ASSUME CaptureInv, NEW r \in Requests, Start(r)
    PROVE  CaptureInv'
  <1>1. CASE \E m \in {"CASH", "ONLINE"} : IntentBegin(r, m)
    <2>1. PICK m \in {"CASH", "ONLINE"} : Begin(r, [op |-> "intent", method |-> m])
      BY <1>1 DEF IntentBegin
    <2> QED BY <2>1, BeginsKeep DEF Transactions
  <1>2. CASE \E p \in Payments, s \in WebhookStatuses : WebhookBegin(r, p, s)
    <2>1. PICK p \in Payments, s \in WebhookStatuses : WebhookBegin(r, p, s)
      BY <1>2
    <2> DEFINE t == [op |-> "webhook", payment |-> p, to |-> s, locked |-> FALSE, read |-> "NONE"]
    <2>2. t \in Transactions /\ t.op # "refund" /\ Begin(r, t)
      BY <2>1 DEF WebhookBegin, Transactions, PaymentStatuses
    <2> QED BY <2>2, BeginsKeep
  <1>3. CASE \E p \in Payments, s \in {"CONFIRMED", "DISPUTED"} : CashBegin(r, p, s)
    <2>1. PICK p \in Payments, s \in {"CONFIRMED", "DISPUTED"} : CashBegin(r, p, s)
      BY <1>3
    <2> DEFINE t == [op |-> "cash", payment |-> p, to |-> s, locked |-> FALSE, read |-> "NONE"]
    <2>2. t \in Transactions /\ t.op # "refund" /\ Begin(r, t)
      BY <2>1 DEF CashBegin, Transactions, PaymentStatuses
    <2> QED BY <2>2, BeginsKeep
  <1>4. CASE \E f \in Refunds, p \in Payments, a \in RefundAmounts : RefundBegin(r, f, p, a)
    <2>1. PICK f \in Refunds, p \in Payments, a \in RefundAmounts : RefundBegin(r, f, p, a)
      BY <1>4
    <2> DEFINE t == [op |-> "refund", refund |-> f, payment |-> p, amount |-> a]
    <2>2. t \in Transactions /\ status[t.payment] \in Captured /\ Begin(r, t)
      BY <2>1 DEF RefundBegin, Refundable, Captured, Transactions
    <2> QED BY <2>2, BeginsKeep
  <1> QED BY <1>1, <1>2, <1>3, <1>4 DEF Start

LEMMA CaptureInvStep == CaptureInv /\ [Next]_vars => CaptureInv'
  <1> SUFFICES ASSUME CaptureInv, [Next]_vars PROVE CaptureInv'
    OBVIOUS
  <1>1. CASE \E r \in Requests : Start(r) \/ WriteAndRead(r) \/ Finish(r)
    BY <1>1, StartKeeps, WriteAndReadKeeps, IntentCommitKeeps, WebhookCommitKeeps, CashCommitKeeps,
       RefundCommitKeeps, AbortKeeps DEF Finish
  <1>2. CASE Admin
    BY <1>2, PayoutCreateKeeps, PayoutStatusKeeps DEF Admin
  <1>3. CASE FinanceWorker
    BY <1>3, ExpirePaymentKeeps, RefundProcessKeeps, EarningsAvailableKeeps, OtherStepsKeep
       DEF FinanceWorker
  <1>4. CASE BookingRoutes \/ UNCHANGED vars
    BY <1>4, OtherStepsKeep
  <1> QED BY <1>1, <1>2, <1>3, <1>4 DEF Next

LEMMA CaptureInvAlways == Spec => []CaptureInv
  BY CaptureInvInit, CaptureInvStep, PTL DEF Spec

(* Every reachable state is well typed, the amounts included: no earning or *)
(* payout is negative.                                                      *)
THEOREM PaymentsTypeCorrect == Spec => []PaymentsTypeOK
  <1>1. CaptureInv => PaymentsTypeOK
    BY DEF CaptureInv
  <1> QED BY <1>1, CaptureInvAlways, PTL

(* A payment is captured once, with its paid amount, its earning and its    *)
(* ledger transaction (markPaymentSucceeded), whatever overlaps.            *)
THEOREM PaymentsCapturedOnce == Spec => []CapturedOnce
  <1>1. CaptureInv => CapturedOnce
    BY DEF CaptureInv
  <1> QED BY <1>1, CaptureInvAlways, PTL

\* Only a payout of its own, and only a status PAID, moves an earning that is in a payout.
LEMMA ClaimKept ==
    ASSUME CaptureInv, [Next]_vars, NEW p \in Payments, payoutOf[p] # 0
    PROVE  payoutOf'[p] = payoutOf[p] /\ (earning[p] = "PAID" => earning'[p] = "PAID")
  <1>1. earning[p] \in {"ON_HOLD", "PAID"}
    BY DEF CaptureInv, ClaimedEarnings
  <1>2. CASE UNCHANGED <<earning, payoutOf>>
    BY <1>2
  <1>3. CASE \E r \in Requests : WebhookCommit(r) \/ CashCommit(r)
    <2>1. PICK r \in Requests : WebhookCommit(r) \/ CashCommit(r)
      BY <1>3
    <2>2. request[r].payment \in Payments
      BY <2>1 DEF CaptureInv, PaymentsTypeOK, WebhookCommit, CashCommit, End, Transactions, Idle
    <2>3. \/ UNCHANGED <<earning, payoutOf>>
          \/ /\ earning[request[r].payment] = "NONE"
             /\ earning' = [earning EXCEPT ![request[r].payment] = "PENDING"]
             /\ payoutOf' = payoutOf
      BY <2>1 DEF WebhookCommit, CashCommit, MarkIf, MarkPaymentSucceeded, moneyVars
    <2> QED BY <1>1, <2>2, <2>3 DEF CaptureInv, PaymentsTypeOK
  <1>4. CASE \E o \in Payouts, E \in SUBSET Payments : PayoutCreate(o, E)
    BY <1>4 DEF CaptureInv, PaymentsTypeOK, PayoutCreate, Payable
  <1>5. CASE \E o \in Payouts, s \in {"PAID", "FAILED", "CANCELLED", "ON_HOLD"} : PayoutStatus(o, s)
    BY <1>5 DEF PayoutStatus
  <1>6. CASE \E E \in SUBSET Payments : EarningsAvailable(E)
    BY <1>1, <1>6 DEF EarningsAvailable
  <1>7. CASE \E r \in Requests : Start(r) \/ WriteAndRead(r) \/ IntentCommit(r)
                                     \/ RefundCommit(r) \/ Abort(r)
    <2>1. UNCHANGED <<earning, payoutOf>>
      <3>1. PICK r \in Requests : Start(r) \/ WriteAndRead(r) \/ IntentCommit(r)
                                  \/ RefundCommit(r) \/ Abort(r)
        BY <1>7
      <3>2. CASE Start(r)
        BY <3>2 DEF Start, IntentBegin, WebhookBegin, CashBegin, RefundBegin, Begin, moneyVars
      <3>3. CASE WriteAndRead(r) \/ IntentCommit(r) \/ RefundCommit(r) \/ Abort(r)
        BY <3>3 DEF WriteAndRead, IntentCommit, RefundCommit, Abort, moneyVars
      <3> QED BY <3>1, <3>2, <3>3
    <2> QED BY <2>1
  <1>8. CASE \/ \E q \in Payments : ExpirePayment(q)
             \/ \E f \in Refunds : RefundProcess(f)
             \/ RefundsList \/ WorkerCrash \/ BookingRoutes \/ UNCHANGED vars
    <2>1. UNCHANGED <<earning, payoutOf>>
      BY <1>8 DEF ExpirePayment, RefundProcess, RefundsList, WorkerCrash, BookingRoutes,
         ConfirmHold,
                  EndHold, CancelBooking, moneyVars, vars
    <2> QED BY <2>1
  <1> QED BY <1>2, <1>3, <1>4, <1>5, <1>6, <1>7, <1>8 DEF Next, Finish, Admin, FinanceWorker

(* An earning is claimed by one payout (payouts) and once it is paid it     *)
(* stays paid (payouts/:payoutId/status), whatever an admin asks for.       *)
THEOREM EarningsClaimedOnce == Spec => EarningClaimedOnce
  <1> DEFINE Kept == \A p \in Payments :
                 payoutOf[p] # 0 => /\ payoutOf'[p] = payoutOf[p]
                                    /\ earning[p] = "PAID" => earning'[p] = "PAID"
  <1>1. CaptureInv /\ [Next]_vars => [Kept]_vars
    BY ClaimKept
  <1> QED BY <1>1, CaptureInvAlways, PTL DEF Spec, EarningClaimedOnce

-----------------------------------------------------------------------------
(* The seats.  While the hold is ACTIVE both tables say HELD, so whatever  *)
(* ends it gives back, or books, what is there.                            *)

SeatsAsHeld ==
    /\ LatePaymentTakesNoSeat
    /\ hold = "ACTIVE" => bookingSeat = "HELD" /\ tripSeat = "HELD"

LEMMA SeatsAsHeldStep == SeatsAsHeld /\ [Next]_vars => SeatsAsHeld'
  <1> SUFFICES ASSUME SeatsAsHeld, [Next]_vars PROVE SeatsAsHeld'
    OBVIOUS
  <1>1. CASE UNCHANGED <<hold, bookingSeat, tripSeat>>
    BY <1>1 DEF SeatsAsHeld, LatePaymentTakesNoSeat
  <1>2. CASE \E r \in Requests : WebhookCommit(r) \/ CashCommit(r)
    <2>1. PICK r \in Requests : WebhookCommit(r) \/ CashCommit(r)
      BY <1>2
    <2>2. UNCHANGED <<hold, bookingSeat, tripSeat>> \/ ConfirmPaidBooking
      BY <2>1 DEF WebhookCommit, CashCommit, MarkIf, MarkPaymentSucceeded, seatVars
    <2>3. CASE ConfirmPaidBooking
      BY <2>3 DEF ConfirmPaidBooking, SeatsAsHeld, LatePaymentTakesNoSeat
    <2> QED BY <1>1, <2>2, <2>3
  <1>3. CASE \E r \in Requests : Start(r) \/ WriteAndRead(r) \/ IntentCommit(r) \/ RefundCommit(r)
                               \/ Abort(r)
    <2>1. UNCHANGED <<hold, bookingSeat, tripSeat>>
      BY <1>3 DEF Start, IntentBegin, WebhookBegin, CashBegin, RefundBegin, Begin, WriteAndRead,
         IntentCommit, RefundCommit, Abort, seatVars
    <2> QED BY <1>1, <2>1
  <1>4. CASE \E p \in Payments : ExpirePayment(p)
    BY <1>4 DEF ExpirePayment, SeatsAsHeld, LatePaymentTakesNoSeat
  <1>5. CASE BookingRoutes
    <2>1. CASE ConfirmHold
      BY <2>1 DEF ConfirmHold, SeatsAsHeld, LatePaymentTakesNoSeat
    <2>2. CASE EndHold
      BY <2>2 DEF EndHold, SeatsAsHeld, LatePaymentTakesNoSeat
    <2>3. CASE CancelBooking
      BY <2>3 DEF CancelBooking, SeatsAsHeld, LatePaymentTakesNoSeat
    <2> QED BY <1>5, <2>1, <2>2, <2>3 DEF BookingRoutes
  <1>6. CASE Admin
    BY <1>1, <1>6 DEF Admin, PayoutCreate, PayoutStatus, seatVars
  <1>7. CASE RefundsList \/ WorkerCrash \/ UNCHANGED vars
    BY <1>1, <1>7 DEF RefundsList, WorkerCrash, seatVars, vars
  <1>8. CASE \E f \in Refunds : RefundProcess(f)
    BY <1>1, <1>8 DEF RefundProcess, seatVars
  <1>9. CASE \E E \in SUBSET Payments : EarningsAvailable(E)
    BY <1>1, <1>9 DEF EarningsAvailable, seatVars
  <1> QED BY <1>2, <1>3, <1>4, <1>5, <1>6, <1>7, <1>8, <1>9 DEF Next, Finish, FinanceWorker

(* A payment that is created or captured after the hold has ended leaves    *)
(* the seats to others, whichever requests and jobs overlap                 *)
(* (payments/intents, markPaymentSucceeded, expireStaleOnlinePayments).     *)
THEOREM LatePaymentsTakeNoSeat == Spec => []LatePaymentTakesNoSeat
  <1>1. Init => SeatsAsHeld
    BY DEF Init, SeatsAsHeld, LatePaymentTakesNoSeat
  <1>2. SeatsAsHeld => LatePaymentTakesNoSeat
    BY DEF SeatsAsHeld
  <1> QED BY <1>1, <1>2, SeatsAsHeldStep, PTL DEF Spec

(* Payments are well typed and leave the seats to whom they belong, for any *)
(* amount, number of payments and order of requests and jobs.               *)
THEOREM PaymentStatesAgree == Spec => []PaymentStateAgrees
  <1>1. PaymentsTypeOK /\ LatePaymentTakesNoSeat => PaymentStateAgrees
    BY DEF PaymentStateAgrees
  <1> QED BY <1>1, PaymentsTypeCorrect, LatePaymentsTakeNoSeat, PTL

-----------------------------------------------------------------------------
(* Sums.  SumFunction is a fold, which takes the elements of a set one by  *)
(* one in the order of CHOOSE.  The lemmas say that there is such a fold of*)
(* every finite set, and what changing one summand does to the sum.  The   *)
(* induction is over the size of the set, with a set in place of a         *)
(* predicate: a set of numbers that is not empty has a least one.          *)

\* Induction over the natural numbers, for a set in place of a predicate.
LEMMA NatSetInduction ==
    ASSUME NEW G, 0 \in G, \A n \in Nat : n \in G => n + 1 \in G
    PROVE  Nat \subseteq G
  <1> DEFINE less == {ss \in Nat \X Nat : ss[1] < ss[2]}
  <1>1. IsWellFoundedOn(less, Nat)
    BY NatLessThanWellFounded, Zenon DEF OpToRel
  <1>2. SUFFICES ASSUME Nat \ G # {} PROVE FALSE
    OBVIOUS
  <1>3. PICK m \in Nat \ G : \A n \in Nat \ G : <<n, m>> \notin less
    <2> HIDE DEF less
    <2>1. Nat \ G \subseteq Nat
      OBVIOUS
    <2> QED BY <1>1, <1>2, <2>1, WFMin, Zenon
  <1>4. m # 0 /\ m - 1 \in Nat /\ m - 1 < m /\ (m - 1) + 1 = m
    BY <1>3
  <1>5. m - 1 \in G
    BY <1>3, <1>4
  <1> QED BY <1>3, <1>4, <1>5

Chosen(s) == CHOOSE x \in s : TRUE
SumStep(v, it, I) == it = [s \in SUBSET I |-> IF s = {} THEN 0 ELSE v[Chosen(s)] + it[s \ {Chosen(s)}]]

LEMMA SumIsStep ==
    ASSUME NEW I, NEW v
    PROVE  SumFunctionOnSet(v, I) = (CHOOSE it : SumStep(v, it, I))[I]
  BY DEF SumFunctionOnSet, FoldFunctionOnSet, MapThenFoldSet, Chosen, SumStep

LEMMA ChosenIsMember == ASSUME NEW s, s # {} PROVE Chosen(s) \in s
  BY DEF Chosen

LEMMA SumStepExists ==
    ASSUME NEW I, NEW v, IsFiniteSet(I)
    PROVE  \E it : SumStep(v, it, I)
  <1> DEFINE Part(it, n) == \A s \in SUBSET I : Cardinality(s) <= n =>
                 it[s] = IF s = {} THEN 0 ELSE v[Chosen(s)] + it[s \ {Chosen(s)}]
             Upto == {n \in Nat : \E it : Part(it, n)}
             Longer(it) == [s \in SUBSET I |-> IF s = {} THEN 0 ELSE v[Chosen(s)] + it[s \ {Chosen(s)}]]
  <1>1. \A s \in SUBSET I : IsFiniteSet(s) /\ Cardinality(s) \in Nat
    BY FS_Subset, FS_CardinalityType
  <1>2. 0 \in Upto
    <2>1. \A s \in SUBSET I : Cardinality(s) <= 0 => s = {}
      BY <1>1, FS_EmptySet
    <2>2. Part([s \in SUBSET I |-> 0], 0)
      BY <2>1
    <2> QED BY <2>2
  <1>3. ASSUME NEW n \in Nat, n \in Upto PROVE n + 1 \in Upto
    <2>1. PICK it : Part(it, n)
      BY <1>3
    <2>2. ASSUME NEW s \in SUBSET I, Cardinality(s) <= n PROVE Longer(it)[s] = it[s]
      BY <2>1, <2>2
    <2>3. ASSUME NEW s \in SUBSET I, Cardinality(s) <= n + 1, s # {}
          PROVE  Longer(it)[s \ {Chosen(s)}] = it[s \ {Chosen(s)}]
      <3>1. Cardinality(s \ {Chosen(s)}) = Cardinality(s) - 1
        BY <2>3, <1>1, ChosenIsMember, FS_RemoveElement
      <3>2. Cardinality(s \ {Chosen(s)}) <= n
        BY <1>1, <2>3, <3>1
      <3> HIDE DEF Longer
      <3> QED BY <3>2, <2>2
    <2>4. Part(Longer(it), n + 1)
      BY <2>3
    <2>5. \E longer : Part(longer, n + 1)
      <3> HIDE DEF Part, Longer
      <3> QED BY <2>4
    <2>6. n + 1 \in Nat
      OBVIOUS
    <2> HIDE DEF Part
    <2> QED BY <2>5, <2>6
  <1>4. Nat \subseteq Upto
    <2> HIDE DEF Upto
    <2> QED BY <1>2, <1>3, NatSetInduction
  <1>5. Cardinality(I) \in Upto
    BY <1>1, <1>4
  <1>6. PICK it : Part(it, Cardinality(I))
    BY <1>5
  <1>7. \A s \in SUBSET I : Cardinality(s) <= Cardinality(I)
    BY FS_Subset
  <1>8. SumStep(v, Longer(it), I)
    <2>1. ASSUME NEW s \in SUBSET I, s # {} PROVE Longer(it)[s \ {Chosen(s)}] = it[s \ {Chosen(s)}]
      BY <1>6, <1>7, <2>1
    <2> QED BY <2>1 DEF SumStep
  <1> QED BY <1>8

\* So a sum is computed one element after another, in the order of Chosen.
SumTo(v, I) == CHOOSE it : SumStep(v, it, I)

LEMMA SumToIsStep == ASSUME NEW I, NEW v, IsFiniteSet(I) PROVE SumStep(v, SumTo(v, I), I)
  BY SumStepExists DEF SumTo

LEMMA SumToWhole == ASSUME NEW I, NEW v PROVE SumFunctionOnSet(v, I) = SumTo(v, I)[I]
  BY SumIsStep DEF SumTo

LEMMA SumToEmpty == ASSUME NEW I, NEW v, IsFiniteSet(I) PROVE SumTo(v, I)[{}] = 0
  <1>1. SumStep(v, SumTo(v, I), I)
    BY SumToIsStep
  <1> QED BY <1>1 DEF SumStep

LEMMA SumToOneMore ==
    ASSUME NEW I, NEW v, IsFiniteSet(I), NEW s \in SUBSET I, s # {}
    PROVE  SumTo(v, I)[s] = v[Chosen(s)] + SumTo(v, I)[s \ {Chosen(s)}]
  <1>1. SumStep(v, SumTo(v, I), I)
    BY SumToIsStep
  <1> QED BY <1>1 DEF SumStep

\* Induction over the subsets of a finite set, by their size.
LEMMA FiniteSetInduction ==
    ASSUME NEW I, IsFiniteSet(I), NEW G,
           {} \in G,
           \A s \in SUBSET I : s # {} /\ s \ {Chosen(s)} \in G => s \in G
    PROVE  SUBSET I \subseteq G
  <1> DEFINE Upto == {n \in Nat : \A s \in SUBSET I : Cardinality(s) = n => s \in G}
  <1>1. \A s \in SUBSET I : IsFiniteSet(s) /\ Cardinality(s) \in Nat
    BY FS_Subset, FS_CardinalityType
  <1>2. 0 \in Upto
    BY <1>1, FS_EmptySet
  <1>3. ASSUME NEW n \in Nat, n \in Upto PROVE n + 1 \in Upto
    <2> SUFFICES ASSUME NEW s \in SUBSET I, Cardinality(s) = n + 1 PROVE s \in G
      OBVIOUS
    <2>1. s # {}
      BY <1>1, FS_EmptySet
    <2>2. Chosen(s) \in s
      BY <2>1, ChosenIsMember
    <2>3. Cardinality(s \ {Chosen(s)}) = Cardinality(s) - 1
      BY <1>1, <2>2, FS_RemoveElement
    <2>4. Cardinality(s \ {Chosen(s)}) = n
      BY <2>3
    <2>5. s \ {Chosen(s)} \in G
      BY <1>3, <2>4
    <2> QED BY <2>1, <2>5
  <1>4. Nat \subseteq Upto
    <2> HIDE DEF Upto
    <2> QED BY <1>2, <1>3, NatSetInduction
  <1> QED BY <1>1, <1>4

LEMMA SumIsInt ==
    ASSUME NEW I, IsFiniteSet(I), NEW v \in [I -> Int]
    PROVE  SumFunction(v) \in Int
  <1> DEFINE G == {s \in SUBSET I : SumTo(v, I)[s] \in Int}
  <1>1. {} \in G
    BY SumToEmpty
  <1>2. \A s \in SUBSET I : s # {} /\ s \ {Chosen(s)} \in G => s \in G
    BY SumToOneMore, ChosenIsMember
  <1>3. SUBSET I \subseteq G
    <2> HIDE DEF G
    <2> QED BY <1>1, <1>2, FiniteSetInduction
  <1>4. SumTo(v, I)[I] \in Int
    BY <1>3
  <1> QED BY <1>4, SumToWhole DEF SumFunction

LEMMA SumChanges ==
    ASSUME NEW I, IsFiniteSet(I), NEW v \in [I -> Int], NEW x \in I, NEW n \in Int
    PROVE  SumFunction([v EXCEPT ![x] = n]) = SumFunction(v) - v[x] + n
  <1> DEFINE w == [v EXCEPT ![x] = n]
             Changed(s) == IF x \in s THEN n - v[x] ELSE 0
             G == {s \in SUBSET I : /\ SumTo(v, I)[s] \in Int
                                    /\ SumTo(w, I)[s] = SumTo(v, I)[s] + Changed(s)}
  <1>1. {} \in G
    BY SumToEmpty
  <1>2. ASSUME NEW s \in SUBSET I, s # {}, s \ {Chosen(s)} \in G PROVE s \in G
    <2> DEFINE c == Chosen(s)
    <2>1. c \in s
      BY <1>2, ChosenIsMember
    <2>2. SumTo(v, I)[s] = v[c] + SumTo(v, I)[s \ {c}] /\ SumTo(w, I)[s] = w[c] + SumTo(w, I)[s \ {c}]
      BY <1>2, SumToOneMore, Zenon
    <2> HIDE DEF c
    <2>3. SumTo(v, I)[s \ {c}] \in Int /\ SumTo(w, I)[s \ {c}] = SumTo(v, I)[s \ {c}] + Changed(s \ {c})
      BY <1>2 DEF c
    <2> QED BY <2>1, <2>2, <2>3
  <1>3. SUBSET I \subseteq G
    <2> HIDE DEF G
    <2> QED BY <1>1, <1>2, FiniteSetInduction
  <1>4. SumTo(v, I)[I] \in Int /\ SumTo(w, I)[I] = SumTo(v, I)[I] + n - v[x]
    BY <1>3
  <1>5. DOMAIN v = I /\ DOMAIN w = I
    OBVIOUS
  <1> HIDE DEF w
  <1>6. SumFunction(v) = SumTo(v, I)[I] /\ SumFunction(w) = SumTo(w, I)[I]
    BY <1>5, SumToWhole DEF SumFunction
  <1> QED BY <1>4, <1>6 DEF w

LEMMA SumOfZeros ==
    ASSUME NEW I, IsFiniteSet(I)
    PROVE  SumFunction([i \in I |-> 0]) = 0
  <1> DEFINE v == [i \in I |-> 0]
             G == {s \in SUBSET I : SumTo(v, I)[s] = 0}
  <1>1. {} \in G
    BY SumToEmpty
  <1>2. \A s \in SUBSET I : s # {} /\ s \ {Chosen(s)} \in G => s \in G
    BY SumToOneMore, ChosenIsMember
  <1>3. SUBSET I \subseteq G
    <2> HIDE DEF G
    <2> QED BY <1>1, <1>2, FiniteSetInduction
  <1>4. SumTo(v, I)[I] = 0 /\ DOMAIN v = I
    BY <1>3
  <1> HIDE DEF v
  <1> QED BY <1>4, SumToWhole DEF SumFunction, v

-----------------------------------------------------------------------------
(* The ledger.  What an admin was shown as the gross of a payout is what   *)
(* its earnings are worth, and they are paid exactly if it is posted.      *)

InPayout(o) == {p \in Payments : payoutOf[p] = o}
EarningsIn(statuses) == {p \in Payments : earning[p] \in statuses}
PaidOut == [o \in Payouts |-> posted[<<"PAYOUT", o>>] * gross[o]]

PayoutsOK ==
    \A o \in Payouts :
        /\ posted[<<"PAYOUT", o>>] \in {0, 1}
        /\ gross[o] = NetMinor * Cardinality(InPayout(o))
        /\ payout[o] = "NONE" => InPayout(o) = {} /\ posted[<<"PAYOUT", o>>] = 0

EarningsOK ==
    \A p \in Payments :
        IF payoutOf[p] = 0 THEN earning[p] \notin {"ON_HOLD", "PAID"}
        ELSE earning[p] = "PAID" <=> posted[<<"PAYOUT", payoutOf[p]>>] = 1

PaidAsPosted == SumFunction(PaidOut) = NetMinor * Cardinality(EarningsIn({"PAID"}))

LedgerInv == PayoutsOK /\ EarningsOK /\ PaidAsPosted

LEMMA PayoutKeys ==
    /\ \A o \in Payouts : <<"PAYOUT", o>> \in LedgerKeys
    /\ \A o, f : <<"PAYOUT", o>> # <<"REFUND", f>>
    /\ \A o, q : <<"PAYOUT", o>> = <<"PAYOUT", q>> => o = q
  BY DEF LedgerKeys

LEMMA CountedTogether ==
    ASSUME NEW A, NEW B, IsFiniteSet(A), IsFiniteSet(B), A \cap B = {}
    PROVE  Cardinality(A \cup B) = Cardinality(A) + Cardinality(B)
  <1>1. Cardinality(A \cap B) = 0
    BY FS_EmptySet
  <1>2. Cardinality(A \cup B) = Cardinality(A) + Cardinality(B) - Cardinality(A \cap B)
    BY FS_Union
  <1>3. Cardinality(A) \in Nat /\ Cardinality(B) \in Nat
    BY FS_CardinalityType
  <1> QED BY <1>1, <1>2, <1>3

LEMMA CountedEarnings ==
    ASSUME NEW A \in SUBSET Payments
    PROVE  IsFiniteSet(A) /\ Cardinality(A) \in Nat
  BY PaymentsAssumption, FS_Subset, FS_CardinalityType

LEMMA LedgerInvInit == Init => LedgerInv
  <1> SUFFICES ASSUME Init PROVE LedgerInv
    OBVIOUS
  <1>1. \A o \in Payouts : InPayout(o) = {}
    BY PaymentsAssumption DEF Init, InPayout
  <1>2. NetMinor * Cardinality({}) = 0
    BY FeeFits, FS_EmptySet
  <1>3. PayoutsOK
    <2>1. \A o \in Payouts : posted[<<"PAYOUT", o>>] = 0 /\ gross[o] = 0
      BY PayoutKeys DEF Init
    <2> QED BY <1>1, <1>2, <2>1 DEF PayoutsOK
  <1>4. EarningsOK
    BY DEF Init, EarningsOK
  <1>5. PaidAsPosted
    <2>1. PaidOut = [o \in Payouts |-> 0]
      BY PayoutKeys DEF Init, PaidOut
    <2>2. EarningsIn({"PAID"}) = {}
      BY DEF Init, EarningsIn
    <2> QED BY <1>2, <2>1, <2>2, SumOfZeros, PaymentsAssumption DEF PaidAsPosted
  <1> QED BY <1>3, <1>4, <1>5 DEF LedgerInv

\* A step that moves no earning into, out of or within a payout.
LEMMA LedgerStays ==
    ASSUME PaymentsTypeOK, LedgerInv, UNCHANGED <<payoutOf, payout, gross>>,
           \A o \in Payouts : posted'[<<"PAYOUT", o>>] = posted[<<"PAYOUT", o>>],
           \A p \in Payments : \/ earning'[p] = earning[p]
                               \/ earning[p] = "NONE" /\ earning'[p] = "PENDING"
                               \/ earning[p] = "PENDING" /\ earning'[p] = "AVAILABLE"
    PROVE  LedgerInv'
  <1>1. \A o \in Payouts : InPayout(o)' = InPayout(o)
    BY DEF InPayout
  <1>2. PayoutsOK'
    BY <1>1 DEF LedgerInv, PayoutsOK
  <1>3. EarningsOK'
    BY DEF LedgerInv, EarningsOK, PaymentsTypeOK
  <1>4. PaidOut' = PaidOut
    BY DEF PaidOut
  <1>5. EarningsIn({"PAID"})' = EarningsIn({"PAID"})
    BY DEF EarningsIn
  <1>6. PaidAsPosted'
    BY <1>4, <1>5 DEF LedgerInv, PaidAsPosted
  <1> QED BY <1>2, <1>3, <1>6 DEF LedgerInv

\* A payout is made of earnings that are in none, and is worth what they are.
LEMMA PayoutCreateBalances ==
    ASSUME PaymentsTypeOK, LedgerInv, NEW o \in Payouts, NEW E \in SUBSET Payments,
           PayoutCreate(o, E)
    PROVE  LedgerInv'
  <1>1. InPayout(o)' = E
    BY PaymentsAssumption DEF LedgerInv, PayoutsOK, InPayout, PayoutCreate
  <1>2. \A q \in Payouts : q # o => InPayout(q)' = InPayout(q)
    BY PaymentsAssumption DEF InPayout, PayoutCreate, Payable
  <1>3. posted' = posted /\ posted[<<"PAYOUT", o>>] = 0
    BY DEF LedgerInv, PayoutsOK, PayoutCreate
  <1>4. /\ gross' = [gross EXCEPT ![o] = NetMinor * Cardinality(E)]
        /\ payout' = [payout EXCEPT ![o] = "READY"]
    BY DEF PayoutCreate
  <1>5. PayoutsOK'
    <2> SUFFICES ASSUME NEW q \in Payouts
                 PROVE  /\ posted'[<<"PAYOUT", q>>] \in {0, 1}
                        /\ gross'[q] = NetMinor * Cardinality(InPayout(q)')
                        /\ payout'[q] = "NONE" => InPayout(q)' = {} /\ posted'[<<"PAYOUT", q>>] = 0
      BY DEF PayoutsOK
    <2>1. CASE q = o
      BY <1>1, <1>3, <1>4, <2>1 DEF PaymentsTypeOK
    <2>2. CASE q # o
      BY <1>2, <1>3, <1>4, <2>2 DEF PaymentsTypeOK, LedgerInv, PayoutsOK
    <2> QED BY <2>1, <2>2
  <1>6. EarningsOK'
    <2> SUFFICES ASSUME NEW p \in Payments
                 PROVE  IF payoutOf'[p] = 0 THEN earning'[p] \notin {"ON_HOLD", "PAID"}
                        ELSE earning'[p] = "PAID" <=> posted'[<<"PAYOUT", payoutOf'[p]>>] = 1
      BY DEF EarningsOK
    <2>1. CASE p \in E
      <3>1. payoutOf'[p] = o /\ earning'[p] = "ON_HOLD" /\ o # 0
        BY <2>1, PaymentsAssumption DEF PayoutCreate
      <3> QED BY <1>3, <3>1
    <2>2. CASE p \notin E
      <3>1. payoutOf'[p] = payoutOf[p] /\ earning'[p] = earning[p]
        BY <2>2 DEF PayoutCreate
      <3> QED BY <1>3, <3>1 DEF LedgerInv, EarningsOK
    <2> QED BY <2>1, <2>2
  <1>7. PaidOut' = PaidOut
    <2>1. \A q \in Payouts : posted'[<<"PAYOUT", q>>] * gross'[q] = posted[<<"PAYOUT", q>>] * gross[q]
      <3> SUFFICES ASSUME NEW q \in Payouts
                   PROVE  posted'[<<"PAYOUT", q>>] * gross'[q] = posted[<<"PAYOUT", q>>] * gross[q]
        OBVIOUS
      <3>1. CASE q = o
        <4>1. Cardinality(E) \in Nat
          BY CountedEarnings
        <4>2. gross'[q] \in Nat /\ gross[q] \in Nat
          BY <1>4, <3>1, <4>1, FeeFits DEF PaymentsTypeOK
        <4>3. posted'[<<"PAYOUT", q>>] = 0 /\ posted[<<"PAYOUT", q>>] = 0
          BY <1>3, <3>1
        <4> QED BY <4>2, <4>3
      <3>2. CASE q # o
        BY <1>3, <1>4, <3>2 DEF PaymentsTypeOK
      <3> QED BY <3>1, <3>2
    <2> QED BY <2>1 DEF PaidOut
  <1>8. EarningsIn({"PAID"})' = EarningsIn({"PAID"})
    BY DEF EarningsIn, PayoutCreate, Payable
  <1>9. PaidAsPosted'
    BY <1>7, <1>8 DEF LedgerInv, PaidAsPosted
  <1> QED BY <1>5, <1>6, <1>9 DEF LedgerInv

\* A payout that is PAID for the first time is posted, and all its earnings are paid.
LEMMA PayoutPaidBalances ==
    ASSUME PaymentsTypeOK, LedgerInv, NEW o \in Payouts, PayoutStatus(o, "PAID")
    PROVE  LedgerInv'
  <1>1. /\ payoutOf' = payoutOf /\ gross' = gross
        /\ earning' = [p \in Payments |-> IF payoutOf[p] = o THEN "PAID" ELSE earning[p]]
        /\ payout' = [payout EXCEPT ![o] = "PAID"] /\ payout[o] # "NONE"
        /\ posted' = [posted EXCEPT ![<<"PAYOUT", o>>] = IF @ = 0 THEN 1 ELSE @]
    BY DEF PayoutStatus, LedgerPost
  <1>2. /\ posted'[<<"PAYOUT", o>>] = 1
        /\ \A q \in Payouts : q # o => posted'[<<"PAYOUT", q>>] = posted[<<"PAYOUT", q>>]
    BY <1>1, PayoutKeys DEF PaymentsTypeOK, LedgerInv, PayoutsOK
  <1>3. \A q \in Payouts : InPayout(q)' = InPayout(q)
    BY <1>1 DEF InPayout
  <1>4. PayoutsOK'
    <2> SUFFICES ASSUME NEW q \in Payouts
                 PROVE  /\ posted'[<<"PAYOUT", q>>] \in {0, 1}
                        /\ gross'[q] = NetMinor * Cardinality(InPayout(q)')
                        /\ payout'[q] = "NONE" => InPayout(q)' = {} /\ posted'[<<"PAYOUT", q>>] = 0
      BY DEF PayoutsOK
    <2>1. payout'[q] = IF q = o THEN "PAID" ELSE payout[q]
      BY <1>1 DEF PaymentsTypeOK
    <2>2. posted'[<<"PAYOUT", q>>] = IF q = o THEN 1 ELSE posted[<<"PAYOUT", q>>]
      BY <1>2
    <2> QED BY <1>1, <1>3, <2>1, <2>2 DEF LedgerInv, PayoutsOK
  <1>5. EarningsOK'
    <2> SUFFICES ASSUME NEW p \in Payments
                 PROVE  IF payoutOf'[p] = 0 THEN earning'[p] \notin {"ON_HOLD", "PAID"}
                        ELSE earning'[p] = "PAID" <=> posted'[<<"PAYOUT", payoutOf'[p]>>] = 1
      BY DEF EarningsOK
    <2>1. payoutOf'[p] = payoutOf[p] /\ payoutOf[p] \in Payouts \cup {0} /\ o # 0
      BY <1>1, PaymentsAssumption DEF PaymentsTypeOK
    <2>2. earning'[p] = IF payoutOf[p] = o THEN "PAID" ELSE earning[p]
      BY <1>1
    <2>3. CASE payoutOf[p] = o
      BY <1>2, <2>1, <2>2, <2>3
    <2>4. CASE payoutOf[p] # o /\ payoutOf[p] # 0
      <3>1. posted'[<<"PAYOUT", payoutOf[p]>>] = posted[<<"PAYOUT", payoutOf[p]>>]
        BY <1>2, <2>1, <2>4
      <3> QED BY <2>1, <2>2, <2>4, <3>1 DEF LedgerInv, EarningsOK
    <2>5. CASE payoutOf[p] = 0
      BY <2>1, <2>2, <2>5 DEF LedgerInv, EarningsOK
    <2> QED BY <2>3, <2>4, <2>5
  <1>6. CASE posted[<<"PAYOUT", o>>] = 1
    <2>1. PaidOut' = PaidOut
      <3>1. \A q \in Payouts : posted'[<<"PAYOUT", q>>] = posted[<<"PAYOUT", q>>]
        BY <1>2, <1>6
      <3> QED BY <1>1, <3>1 DEF PaidOut
    <2>2. EarningsIn({"PAID"})' = EarningsIn({"PAID"})
      <3>1. ASSUME NEW p \in Payments, payoutOf[p] = o PROVE earning[p] = "PAID"
        <4>1. o # 0 /\ posted[<<"PAYOUT", payoutOf[p]>>] = 1
          BY <1>6, <3>1, PaymentsAssumption
        <4> QED BY <3>1, <4>1 DEF LedgerInv, EarningsOK
      <3> QED BY <1>1, <3>1 DEF EarningsIn
    <2> QED BY <1>4, <1>5, <2>1, <2>2 DEF LedgerInv, PaidAsPosted
  <1>7. CASE posted[<<"PAYOUT", o>>] = 0
    <2>1. PaidOut' = [PaidOut EXCEPT ![o] = gross[o]]
      <3>1. gross[o] \in Nat /\ 1 * gross[o] = gross[o]
        BY DEF PaymentsTypeOK
      <3>2. \A q \in Payouts : posted'[<<"PAYOUT", q>>] * gross'[q]
                = IF q = o THEN gross[o] ELSE posted[<<"PAYOUT", q>>] * gross[q]
        BY <1>1, <1>2, <3>1
      <3> QED BY <3>2 DEF PaidOut
    <2>2. PaidOut \in [Payouts -> Int] /\ PaidOut[o] = 0 /\ gross[o] \in Int
      <3>1. \A q \in Payouts : posted[<<"PAYOUT", q>>] \in {0, 1} /\ gross[q] \in Nat
        BY DEF PaymentsTypeOK, LedgerInv, PayoutsOK
      <3>2. \A i \in {0, 1}, g \in Nat : i * g \in Int /\ 0 * g = 0
        OBVIOUS
      <3> QED BY <1>7, <3>1, <3>2 DEF PaidOut
    <2>3. SumFunction(PaidOut') = SumFunction(PaidOut) - 0 + gross[o]
      <3>1. IsFiniteSet(Payouts)
        BY PaymentsAssumption
      <3>2. SumFunction([PaidOut EXCEPT ![o] = gross[o]]) = SumFunction(PaidOut) - PaidOut[o] + gross[o]
        <4> HIDE DEF PaidOut
        <4> QED BY <2>2, <3>1, SumChanges, Zenon
      <3> QED BY <2>1, <2>2, <3>2
    <2>4. /\ EarningsIn({"PAID"})' = EarningsIn({"PAID"}) \cup InPayout(o)
          /\ EarningsIn({"PAID"}) \cap InPayout(o) = {}
      <3>1. ASSUME NEW p \in Payments, payoutOf[p] = o PROVE earning[p] # "PAID"
        <4>1. o # 0 /\ posted[<<"PAYOUT", payoutOf[p]>>] = 0
          BY <1>7, <3>1, PaymentsAssumption
        <4> QED BY <3>1, <4>1 DEF LedgerInv, EarningsOK
      <3> QED BY <1>1, <3>1 DEF EarningsIn, InPayout
    <2>5. /\ EarningsIn({"PAID"}) \in SUBSET Payments /\ InPayout(o) \in SUBSET Payments
      BY DEF EarningsIn, InPayout
    <2>6. Cardinality(EarningsIn({"PAID"})') = Cardinality(EarningsIn({"PAID"})) + Cardinality(InPayout(o))
      <3>1. IsFiniteSet(EarningsIn({"PAID"})) /\ IsFiniteSet(InPayout(o))
        BY <2>5, CountedEarnings
      <3>2. Cardinality(EarningsIn({"PAID"}) \cup InPayout(o))
              = Cardinality(EarningsIn({"PAID"})) + Cardinality(InPayout(o))
        BY <2>4, <3>1, CountedTogether
      <3> QED BY <2>4, <3>2
    <2>7. PaidAsPosted'
      <3> DEFINE m == Cardinality(EarningsIn({"PAID"}))
                 n == Cardinality(InPayout(o))
      <3>1. m \in Nat /\ n \in Nat /\ NetMinor \in Nat
        BY <2>5, CountedEarnings, FeeFits
      <3>2. gross[o] = NetMinor * n /\ SumFunction(PaidOut) = NetMinor * m
        BY DEF LedgerInv, PayoutsOK, PaidAsPosted
      <3>3. SumFunction(PaidOut') = NetMinor * m + NetMinor * n
        <4>1. NetMinor * m \in Int /\ NetMinor * n \in Int
          BY <3>1
        <4> QED BY <2>3, <3>2, <4>1
      <3>4. Cardinality(EarningsIn({"PAID"})') = m + n
        BY <2>6
      <3> HIDE DEF m, n
      <3>5. NetMinor * m + NetMinor * n = NetMinor * (m + n)
        BY <3>1
      <3> QED BY <3>3, <3>4, <3>5 DEF PaidAsPosted
    <2> QED BY <1>4, <1>5, <2>7 DEF LedgerInv
  <1>8. posted[<<"PAYOUT", o>>] \in {0, 1}
    BY DEF LedgerInv, PayoutsOK
  <1> QED BY <1>6, <1>7, <1>8

\* Any other status is written in the payout's row only.
LEMMA PayoutUnpaidBalances ==
    ASSUME PaymentsTypeOK, LedgerInv, NEW o \in Payouts,
           NEW s \in {"FAILED", "CANCELLED", "ON_HOLD"}, PayoutStatus(o, s)
    PROVE  LedgerInv'
  <1>1. /\ UNCHANGED <<payoutOf, gross, earning, posted>>
        /\ payout' = [payout EXCEPT ![o] = s] /\ payout[o] # "NONE"
    BY DEF PayoutStatus
  <1>2. \A q \in Payouts : payout'[q] = "NONE" => payout[q] = "NONE"
    BY <1>1 DEF PaymentsTypeOK
  <1>3. PayoutsOK'
    <2>1. \A q \in Payouts : InPayout(q)' = InPayout(q)
      BY <1>1 DEF InPayout
    <2> QED BY <1>1, <1>2, <2>1 DEF LedgerInv, PayoutsOK
  <1>4. EarningsOK' /\ PaidAsPosted'
    BY <1>1 DEF LedgerInv, EarningsOK, PaidAsPosted, PaidOut, EarningsIn
  <1> QED BY <1>3, <1>4 DEF LedgerInv

LEMMA LedgerInvStep == CaptureInv /\ LedgerInv /\ [Next]_vars => LedgerInv'
  <1> SUFFICES ASSUME CaptureInv, LedgerInv, [Next]_vars PROVE LedgerInv'
    OBVIOUS
  <1>1. PaymentsTypeOK
    BY DEF CaptureInv
  <1>2. CASE UNCHANGED <<moneyVars>>
    <2>1. UNCHANGED <<payoutOf, payout, gross, earning, posted>>
      BY <1>2 DEF moneyVars
    <2> QED BY <1>1, <2>1, LedgerStays
  <1>3. CASE \E r \in Requests : WebhookCommit(r) \/ CashCommit(r)
    <2>1. PICK r \in Requests : WebhookCommit(r) \/ CashCommit(r)
      BY <1>3
    <2>2. request[r].payment \in Payments
      BY <1>1, <2>1 DEF PaymentsTypeOK, WebhookCommit, CashCommit, End, Transactions, Idle
    <2>3. \/ UNCHANGED moneyVars
          \/ /\ earning[request[r].payment] = "NONE"
             /\ earning' = [earning EXCEPT ![request[r].payment] = "PENDING"]
             /\ LedgerPost(<<"PAYMENT", request[r].payment>>)
             /\ UNCHANGED <<payoutOf, payout, gross>>
      BY <2>1 DEF WebhookCommit, CashCommit, MarkIf, MarkPaymentSucceeded
    <2>4. CASE earning' = [earning EXCEPT ![request[r].payment] = "PENDING"]
               /\ LedgerPost(<<"PAYMENT", request[r].payment>>)
               /\ UNCHANGED <<payoutOf, payout, gross>> /\ earning[request[r].payment] = "NONE"
      <3>1. \A o \in Payouts : posted'[<<"PAYOUT", o>>] = posted[<<"PAYOUT", o>>]
        BY <1>1, <2>4, PayoutKeys, PaymentKeys DEF LedgerPost, PaymentsTypeOK
      <3>2. \A p \in Payments : \/ earning'[p] = earning[p]
                                \/ earning[p] = "NONE" /\ earning'[p] = "PENDING"
        <4>1. earning = [p \in Payments |-> earning[p]]
          BY <1>1 DEF PaymentsTypeOK
        <4> QED BY <2>2, <2>4, <4>1
      <3> QED BY <1>1, <2>4, <3>1, <3>2, LedgerStays
    <2> QED BY <1>2, <2>3, <2>4
  <1>4. CASE \E r \in Requests : RefundCommit(r)
    <2>1. UNCHANGED <<payoutOf, payout, gross, earning, posted>>
      BY <1>4 DEF RefundCommit
    <2> QED BY <1>1, <2>1, LedgerStays
  <1>5. CASE \E r \in Requests : Start(r) \/ WriteAndRead(r) \/ IntentCommit(r) \/ Abort(r)
    <2>1. PICK r \in Requests : Start(r) \/ WriteAndRead(r) \/ IntentCommit(r) \/ Abort(r)
      BY <1>5
    <2>2. UNCHANGED moneyVars
      BY <2>1 DEF Start, IntentBegin, WebhookBegin, CashBegin, RefundBegin, Begin, WriteAndRead,
         IntentCommit, Abort
    <2> QED BY <1>2, <2>2
  <1>6. CASE \E o \in Payouts, E \in SUBSET Payments : PayoutCreate(o, E)
    BY <1>1, <1>6, PayoutCreateBalances
  <1>7. CASE \E o \in Payouts, s \in {"PAID", "FAILED", "CANCELLED", "ON_HOLD"} : PayoutStatus(o, s)
    BY <1>1, <1>7, PayoutPaidBalances, PayoutUnpaidBalances
  <1>8. CASE \E f \in Refunds : RefundProcess(f)
    <2>1. PICK f \in Refunds : RefundProcess(f)
      BY <1>8
    <2>2. \A o \in Payouts : posted'[<<"PAYOUT", o>>] = posted[<<"PAYOUT", o>>]
      BY <1>1, <2>1, PayoutKeys DEF RefundProcess, PaymentsTypeOK
    <2>3. UNCHANGED <<payoutOf, payout, gross, earning>>
      BY <2>1 DEF RefundProcess
    <2> QED BY <1>1, <2>2, <2>3, LedgerStays
  <1>9. CASE \E E \in SUBSET Payments : EarningsAvailable(E)
    <2>0. PICK E \in SUBSET Payments : EarningsAvailable(E)
      BY <1>9
    <2>1. UNCHANGED <<payoutOf, payout, gross, posted>>
      BY <2>0 DEF EarningsAvailable
    <2>2. \A p \in Payments : \/ earning'[p] = earning[p]
                              \/ earning[p] = "PENDING" /\ earning'[p] = "AVAILABLE"
      BY <2>0 DEF EarningsAvailable
    <2> QED BY <1>1, <2>1, <2>2, LedgerStays
  <1>10. CASE \/ \E q \in Payments : ExpirePayment(q)
              \/ RefundsList \/ WorkerCrash \/ BookingRoutes \/ UNCHANGED vars
    <2>1. UNCHANGED moneyVars
      BY <1>10 DEF ExpirePayment, RefundsList, WorkerCrash, BookingRoutes, ConfirmHold, EndHold,
         CancelBooking, vars
    <2> QED BY <1>2, <2>1
  <1> QED BY <1>3, <1>4, <1>5, <1>6, <1>7, <1>8, <1>9, <1>10 DEF Next, Finish, Admin, FinanceWorker

LEMMA LedgerBalances == CaptureInv /\ LedgerInv => LedgerOwesUnpaidEarnings
  <1> SUFFICES ASSUME CaptureInv, LedgerInv PROVE LedgerOwesUnpaidEarnings
    OBVIOUS
  <1> DEFINE Unpaid == EarningsIn({"PENDING", "AVAILABLE", "ON_HOLD"})
             Paid == EarningsIn({"PAID"})
             m == Cardinality(Unpaid)
             n == Cardinality(Paid)
  <1>1. {p \in Payments : posted[<<"PAYMENT", p>>] > 0} = Unpaid \cup Paid /\ Unpaid \cap Paid = {}
    BY DEF CaptureInv, CapturedOnce, PaymentsTypeOK, EarningsIn
  <1>2. /\ IsFiniteSet(Unpaid) /\ IsFiniteSet(Paid) /\ m \in Nat /\ n \in Nat
    BY CountedEarnings DEF EarningsIn
  <1>3. Cardinality(Unpaid \cup Paid) = m + n
    <2> HIDE DEF Unpaid, Paid
    <2> QED BY <1>1, <1>2, CountedTogether
  <1>4. SumFunction(PaidOut) = NetMinor * n
    BY DEF LedgerInv, PaidAsPosted
  <1>5. Unpaid = {p \in Payments : earning[p] \in {"PENDING", "AVAILABLE", "ON_HOLD"}}
    BY DEF EarningsIn
  <1> HIDE DEF Unpaid, Paid
  <1>6. DriverEarningsPayable = NetMinor * (m + n) - NetMinor * n
    BY <1>1, <1>3, <1>4 DEF DriverEarningsPayable, PaidOut
  <1>7. LedgerOwesUnpaidEarnings <=> DriverEarningsPayable = NetMinor * m
    BY <1>5 DEF LedgerOwesUnpaidEarnings
  <1> HIDE DEF m, n
  <1>8. NetMinor * (m + n) - NetMinor * n = NetMinor * m
    BY <1>2, FeeFits
  <1> QED BY <1>6, <1>7, <1>8

(* The account driver_earnings_payable is what the driver has earned and    *)
(* was not paid yet, for any number of payments and payouts and in whatever *)
(* order payouts are created, paid, failed and paid again (ledgerPost).     *)
THEOREM LedgerOwesDriver == Spec => []LedgerOwesUnpaidEarnings
  <1>1. Spec => [](CaptureInv /\ LedgerInv)
    BY CaptureInvInit, CaptureInvStep, LedgerInvInit, LedgerInvStep, PTL DEF Spec
  <1> QED BY <1>1, LedgerBalances, PTL
=============================================================================
