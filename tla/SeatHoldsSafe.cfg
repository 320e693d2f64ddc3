SPECIFICATION FairSpec
CONSTANTS
  o1 = o1
  o2 = o2
  o3 = o3
  o4 = o4
  s1 = s1
  s2 = s2
  Orders = {o1, o2, o3, o4}
  Seats = {s1, s2}
  Selected <- Overlapping
  General = general
  Nobody = nobody
  Request = request
  Preferential = {s2}
  HoldTTL = 2
  Unlinkable = {o3}
  MaxFaults = 1
INVARIANTS TypeOK HeldSeatsExpire HoldsServePending
PROPERTIES ImplementsBoxOffice SeatsComeBack
