-------------------------------- MODULE Pricing --------------------------------
(***************************************************************************)
(* The total of a purchase, services/pricing.py: price lines for the       *)
(* tickets of each category, the food and the service fee.  Both           *)
(* POST /purchases/quote and POST /purchases use it.                       *)
(*                                                                         *)
(* A film's price is a float; here it counts half pesos, the coarsest unit *)
(* in which round() is more than the identity.  Descriptions and the order *)
(* of the lines are left out: no two lines of a quote have kind and code   *)
(* in common, so a quote is a set.                                         *)
(***************************************************************************)
EXTENDS Integers, FiniteSets, FiniteSetsExt

CONSTANTS
  Seats, PreferentialSeats,  \* the seats, those whose row is in PREFERENTIAL_ROWS
  Items, Menu,               \* product codes, the price of those that are active
  Surcharge, ServiceFee      \* PREFERENTIAL_SURCHARGE, CONCESSION_SERVICE_FEE

ASSUME PricingConstants ==
  /\ IsFiniteSet(Seats) /\ PreferentialSeats \subseteq Seats
  /\ IsFiniteSet(Items) /\ DOMAIN Menu \subseteq Items
  /\ \A i \in DOMAIN Menu : Menu[i] \in Nat \ {0}
  /\ Surcharge \in Nat /\ ServiceFee \in Nat

Categories == {"general", "preferential"}

\* Python's round: to the nearest integer, a half to the even one.
Round(halves) ==
  LET down == halves \div 2
  IN  IF halves % 2 = 0 \/ down % 2 = 0 THEN down ELSE down + 1

SeatCategory(s) == IF s \in PreferentialSeats THEN "preferential" ELSE "general"

TicketPrices(price) ==
  [c \in Categories |-> Round(price) + (IF c = "preferential" THEN Surcharge ELSE 0)]

\* How many tickets of a category; without selected seats all are General.
CountGeneral(c, quantity, seats) ==     \* mutant: the category is not looked at
  IF c = "general" THEN quantity ELSE 0
Count(c, quantity, seats) ==
  IF seats = {} THEN IF c = "general" THEN quantity ELSE 0
                ELSE Cardinality({s \in seats : SeatCategory(s) = c})

Line(kind, code, unit, quantity) ==
  [kind |-> kind, code |-> code, unit |-> unit, quantity |-> quantity]
LineTotal(line) == line.unit * line.quantity

TicketLines(price, quantity, seats) ==
  {Line("ticket", c, TicketPrices(price)[c], Count(c, quantity, seats)) :
     c \in {d \in Categories : Count(d, quantity, seats) # 0}}

\* food says how many of each product; its domain are the products asked for.
FoodLines(food) == {Line("concession", i, Menu[i], food[i]) : i \in DOMAIN food}

FeePerProduct(food) ==                  \* mutant: once for every product
  {Line("service_fee", i, ServiceFee, 1) : i \in DOMAIN food}
FeeLines(food) ==
  IF DOMAIN food # {} /\ ServiceFee # 0 THEN {Line("service_fee", "fee", ServiceFee, 1)} ELSE {}

BuildQuote(price, quantity, seats, food) ==
  TicketLines(price, quantity, seats) \cup FoodLines(food) \cup FeeLines(food)

QuoteTotal(lines) == SumFunctionOnSet([l \in lines |-> LineTotal(l)], lines)

\* resolve_concessions: products that are unknown or not on sale are refused.
Resolvable(food) == DOMAIN food \subseteq DOMAIN Menu

\* The validators of PurchaseCreate.
ValidRequest(quantity, seats, food) ==
  /\ quantity \in 1..10
  /\ seats # {} => Cardinality(seats) = quantity
  /\ Cardinality(DOMAIN food) <= 30 /\ \A i \in DOMAIN food : food[i] \in 1..20
-------------------------------------------------------------------------------
\* What a customer works out from the list of prices: every seat, every product
\* and the fee by itself.
FairTotal(price, quantity, seats, food) ==
  LET General == TicketPrices(price)["general"]
      SeatPrice == [s \in Seats |-> General + (IF s \in PreferentialSeats THEN Surcharge ELSE 0)]
      Portion == [i \in DOMAIN food |-> Menu[i] * food[i]]
  IN  (IF seats = {} THEN General * quantity ELSE SumFunctionOnSet(SeatPrice, seats))
      + SumFunctionOnSet(Portion, DOMAIN food)
      + (IF DOMAIN food = {} THEN 0 ELSE ServiceFee)
===============================================================================
