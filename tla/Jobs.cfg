SPECIFICATION JobsSpec
CONSTANTS
  r1 = r1
  r2 = r2
  Payments = {1}
  Refunds = {1, 2}
  Payouts = {}
  Requests = {r1, r2}
  Amount = 2
  RefundAmounts = {1}
  WebhookStatuses = {"SUCCEEDED", "FAILED"}
  Announcements = {1, 2}
  RestrictionIds = {1, 2}
  CodeAsks = {r1, r2}
  MaxMishaps = 3
PROPERTIES
  RefundsCarriedOut
  OnlinePaymentResolved
  AnnouncedOnce
  DeliveredInTheEnd
  RestrictionsRunOut
  PassengerGetsCode
CHECK_DEADLOCK FALSE
