SPECIFICATION Spec
CONSTANTS
  r1 = r1
  r2 = r2
  o1 = o1
  o2 = o2
  Payments = {1}
  Refunds = {1, 2}
  Payouts = {o1}
  Requests = {r1}
  Amount = 2
  RefundAmounts = {2}
  WebhookStatuses = {"SUCCEEDED", "FAILED"}
INVARIANTS
  RefundsWithinPaid
CHECK_DEADLOCK FALSE
