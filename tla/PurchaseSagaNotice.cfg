SPECIFICATION FairSpec
CONSTANTS
  Orders = {o1}
  Seats = {s1}
  SeatsOf <- OneSeat
  MaxAttempts = 2
  Guard = 1
  Retry = 1
  InventoryTimeout = 1
  Stale = 2
  Checkout = 3
  Grace = 1
  Decisions = {"reserved"}
  Outcomes = {"captured"}
  MaxFaults = 1
  FaultKinds = {"crash"}
PROPERTIES ConfirmationIsAnnounced
