SPECIFICATION Spec
CONSTANTS
  o1 = o1
  o2 = o2
  o3 = o3
  o4 = o4
  s1 = s1
  s2 = s2
  Orders = {o1, o2}
  Seats = {s1}
  Selected <- GeneralAdmission
  General = general
  Nobody = nobody
  Request = request
  Preferential = {}
  HoldTTL = 2
  Unlinkable = {}
  MaxFaults = 0
PROPERTIES TurnedAwayForASeat
