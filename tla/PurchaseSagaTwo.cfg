SPECIFICATION Spec
CONSTANTS
  Orders = {o1, o2}
  Seats = {s1}
  SeatsOf <- OneSeat
  MaxAttempts = 2
  Guard = 1
  Retry = 1
  InventoryTimeout = 1
  Stale = 1
  Checkout = 1
  Grace = 0
  Decisions = {"reserved"}
  Outcomes = {"captured"}
  MaxFaults = 0
  FaultKinds = {}
INVARIANTS NoDoubleSale StockFollowsPayment
PROPERTIES ImplementsBoxOffice
SYMMETRY OrderSymmetry
