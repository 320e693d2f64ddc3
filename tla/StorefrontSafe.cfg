SPECIFICATION FairSpec
CONSTANTS
  o1 = o1
  o2 = o2
  o3 = o3
  u1 = u1
  m1 = m1
  m2 = m2
  a1 = a1
  k1 = k1
  combo = combo
  drink = drink
  d1 = d1
  d2 = d2
  Users = {u1}
  Movies = {m1, m2}
  Profiles = {p1, p2}
  Prices = {5, 6}
  Figures = {2}
  Nothing = nothing
  NoTopic = none
  MaxEvents = 3
  MaxFaults = 1
  Orders = {o1, o2, o3}
  UserOf <- WhoBuys
  MovieOf <- WhichFilm
  QuantityOf <- HowMany
  SeatsOf <- WhichSeats
  FoodOf <- WhichFood
  Dated = {o1}
  Periods = {d1, d2}
  PeriodOf <- When
  Seats = {a1, k1}
  PreferentialSeats = {k1}
  Items = {combo, drink}
  Menu <- OnSale
  Surcharge = 2
  ServiceFee = 1
INVARIANTS TypeOK QuotesFair ChargedFairly ReportsAgree InSync StockAccounted
PROPERTIES DeactivatedStaysOut CaughtUp
CHECK_DEADLOCK FALSE
