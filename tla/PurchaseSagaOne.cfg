SPECIFICATION FairSpec
CONSTANTS
  Orders = {o1}
  Seats = {s1}
  SeatsOf <- OneSeat
  MaxAttempts = 2
  Guard = 1
  Retry = 1
  InventoryTimeout = 1
  Stale = 1
  Checkout = 2
  Grace = 1
  Decisions = {"reserved", "insufficient"}
  Outcomes = {"captured", "declined"}
  MaxFaults = 2
  FaultKinds = {"publish", "raise", "crash", "evict", "blind", "refund"}
INVARIANTS OutboxMatchesDecision AnnouncedHasContext PaidIsAnswered PaymentNeedsStock SagaInvariant
PROPERTIES LinkNeverExtended EveryPurchaseDecided EveryPaymentAnswered
