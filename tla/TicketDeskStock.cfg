SPECIFICATION Spec
CONSTANTS
  o1 = o1
  o2 = o2
  o3 = o3
  s1 = s1
  s2 = s2
  Orders = {o1}
  Seats = {s1}
  SeatsOf <- SameSeats
  Linked = {o1}
  Dated = {o1}
  Capacity = 2
  Requests = {r1, r2}
  Idle = idle
  MaxFaults = 0
INVARIANTS StockRestored
CHECK_DEADLOCK FALSE
