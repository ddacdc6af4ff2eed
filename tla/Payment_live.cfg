CONSTANTS
  NumOrders = 2
  MaxPayments = 1
  Creators = {c1}
  Verifiers = {v1}
  Cancellers = {}
  PendingHasTransaction = FALSE
  MaxFaults = 1
  c1 = c1
  v1 = v1
SPECIFICATION FairSpec
PROPERTIES
  ResultIsFinal
  WebhooksAccepted
  BookedIfAsked
CHECK_DEADLOCK FALSE
