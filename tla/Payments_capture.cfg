SPECIFICATION Spec
CONSTANTS
  r1 = r1
  r2 = r2
  o1 = o1
  o2 = o2
  Payments = {1, 2}
  Refunds = {1}
  Payouts = {o1, o2}
  Requests = {r1, r2}
  Amount = 2
  RefundAmounts = {2}
  WebhookStatuses = {"SUCCEEDED", "FAILED"}
SYMMETRY Symmetry
INVARIANTS
  PaymentStateAgrees
  CapturedOnce
  LedgerOwesUnpaidEarnings
PROPERTIES
  EarningClaimedOnce
CHECK_DEADLOCK FALSE
