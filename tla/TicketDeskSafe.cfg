SPECIFICATION Spec
CONSTANTS
  o1 = o1
  o2 = o2
  o3 = o3
  s1 = s1
  s2 = s2
  Orders = {o1, o2, o3}
  Seats = {s1, s2}
  SeatsOf <- Overlapping
  Linked = {o1, o2}
  Dated = {o1, o3}
  Capacity = 2
  Requests = {r1, r2}
  Idle = idle
  MaxFaults = 1
INVARIANTS TypeOK RefundedIsOver OwnersEnter NothingHidden MapAgrees
PROPERTIES ImplementsBoxOffice SecondStaysOut
CHECK_DEADLOCK FALSE
