------------------------------ MODULE Storefront ------------------------------
(***************************************************************************)
(* Purchases over the copies of users and movies: POST /purchases reads    *)
(* the film, waits for catalog-service, prices what it read and stores     *)
(* lines and total; meanwhile the copies change under it.  Confirmation,   *)
(* refund and movie.updated all write available_tickets.  The sales        *)
(* reports read the purchases.                                             *)
(*                                                                         *)
(* Who gets which seat is SeatHolds', how a purchase is paid PurchaseSaga's *)
(* and how it is given back TicketDesk's: here these may happen at any     *)
(* moment the consumer or a request is free to do them.                    *)
(***************************************************************************)
EXTENDS Replicas, Pricing

CONSTANTS
  Orders,                       \* one request each, with what it asks for:
  UserOf, MovieOf,              \* who and which film,
  QuantityOf, SeatsOf, FoodOf,  \* the number of tickets, seats and products,
  Dated,                        \* whether it names a function or a date and time
  Periods, PeriodOf             \* the day, week or month of created_at

ASSUME StorefrontConstants ==
  /\ IsFiniteSet(Orders) /\ IsFiniteSet(Movies) /\ IsFiniteSet(Periods)
  /\ UserOf \in [Orders -> Users] /\ MovieOf \in [Orders -> Movies]
  /\ QuantityOf \in [Orders -> Nat] /\ SeatsOf \in [Orders -> SUBSET Seats]
  /\ \A o \in Orders : DOMAIN FoodOf[o] \subseteq Items
  /\ Dated \subseteq Orders /\ PeriodOf \in [Orders -> Periods]

VARIABLES
  status,   \* purchases.status
  request,  \* where POST /purchases waits, with the film as it was read
  bill      \* purchase_lines and total_amount, with the price of the film used

saleVars == <<status, request, bill>>
vars == <<replicaVars, saleVars>>

Status == {"none", "pending", "confirmed", "cancelled", "refunded"}
NoRequest == [at |-> "none", price |-> Nothing, stock |-> 0]
Waiting(at, copy) == [at |-> at, price |-> copy.price, stock |-> copy.stock]

Film(o) == movies[MovieOf[o]]
UserActive(o) == users[UserOf[o]].state = "active"

Quote(o, price) == BuildQuote(price, QuantityOf[o], SeatsOf[o], FoodOf[o])
NoBill == [price |-> Nothing, lines |-> {}, total |-> 0]
BillNow(o, price) ==               \* mutant: the film is read again for the total
  [price |-> price, lines |-> Quote(o, price), total |-> QuoteTotal(Quote(o, Film(o).price))]
Bill(o, price) ==
  [price |-> price, lines |-> Quote(o, price), total |-> QuoteTotal(Quote(o, price))]
-------------------------------------------------------------------------------
(* POST /purchases.                                                        *)

\* The row is inserted.
Insert(o, price) ==
  /\ status' = [status EXCEPT ![o] = "pending"]
  /\ bill' = [bill EXCEPT ![o] = Bill(o, price)]
  /\ request' = [request EXCEPT ![o] = NoRequest]

\* The price is worked out, the user looked up again; an order with seats of a
\* known function waits for the map of seats.
Price(o, copy, linked) ==
  /\ linked \/ copy.stock >= QuantityOf[o]       \* can_purchase
  /\ Resolvable(FoodOf[o]) /\ UserActive(o)
  /\ IF linked /\ SeatsOf[o] # {}
     THEN request' = [request EXCEPT ![o] = Waiting("seats", copy)] /\ UNCHANGED <<status, bill>>
     ELSE Insert(o, copy.price)

\* The validators, get_current_user and the film; catalog-service is asked for
\* the function, if the client says which.
Begin(o) ==
  /\ status[o] = "none" /\ request[o] = NoRequest
  /\ ValidRequest(QuantityOf[o], SeatsOf[o], FoodOf[o])
  /\ UserActive(o) /\ Film(o).state = "active"
  /\ IF o \in Dated
     THEN request' = [request EXCEPT ![o] = Waiting("function", Film(o))] /\ UNCHANGED <<status, bill>>
     ELSE Price(o, Film(o), FALSE)
  /\ UNCHANGED replicaVars

\* catalog-service says that the function has tickets enough, or not which it is.
FunctionKnown(o) ==
  /\ request[o].at = "function"
  /\ \E linked \in BOOLEAN : Price(o, request[o], linked)
  /\ UNCHANGED replicaVars

\* The seats are in the map and held.
SeatsHeld(o) ==
  /\ request[o].at = "seats" /\ Insert(o, request[o].price)
  /\ UNCHANGED replicaVars

\* The request ends with an error: the function or the seats are not there, a
\* check fails, a service or the database does not answer.
Refuse(o) ==
  /\ request[o] # NoRequest
  /\ request' = [request EXCEPT ![o] = NoRequest]
  /\ UNCHANGED <<replicaVars, status, bill>>
-------------------------------------------------------------------------------
(* The decision, and the count of tickets.                                 *)

Stock(m, n) == movies' = [movies EXCEPT ![m].stock = n]
NoClamp(n) == n                    \* mutant
MaxZero(n) == IF n > 0 THEN n ELSE 0

Decide(o, from, to) ==
  /\ status[o] = from /\ status' = [status EXCEPT ![o] = to]
  /\ UNCHANGED <<request, bill, account, film, log, users, offset, inhand, missed, faults>>

\* confirm_purchase_from_payment; the consumer handles one message at a time.
Confirm(o) ==
  /\ inhand = NoTopic /\ Decide(o, "pending", "confirmed")
  /\ Stock(MovieOf[o], MaxZero(Film(o).stock - QuantityOf[o]))

\* mark_purchase_cancelled, by the consumer or the reconciler.
Cancel(o) == Decide(o, "pending", "cancelled") /\ UNCHANGED movies

\* cancel_purchase, after the answer of payment-service.  That two requests may
\* both do this, which only adds to the stock, is in TicketDesk.
GiveBack(o) ==
  /\ Decide(o, "confirmed", "refunded")
  /\ Stock(MovieOf[o], Film(o).stock + QuantityOf[o])

\* The process dies: the requests under way and the uncommitted offset are gone.
Crash ==
  /\ Fault /\ inhand' = NoTopic
  /\ request' = [o \in Orders |-> NoRequest]
  /\ UNCHANGED <<status, bill, account, film, log, copyVars, offset, missed>>

Replicate == ReplicaNext /\ UNCHANGED saleVars

Init ==
  /\ ReplicaInit
  /\ status = [o \in Orders |-> "none"]
  /\ request = [o \in Orders |-> NoRequest]
  /\ bill = [o \in Orders |-> NoBill]

Next ==
  \/ Replicate \/ Crash
  \/ \E o \in Orders :
       \/ Begin(o) \/ FunctionKnown(o) \/ SeatsHeld(o) \/ Refuse(o)
       \/ Confirm(o) \/ Cancel(o) \/ GiveBack(o)

Spec == Init /\ [][Next]_vars

\* The loop reads on for ever, restarted when it failed, and passes over no topic
\* for ever.
Fairness ==
  /\ WF_vars(CommitOffset /\ UNCHANGED saleVars)
  /\ \A t \in Topics : SF_vars(Handle(t) /\ UNCHANGED saleVars)

FairSpec == Spec /\ Fairness
-------------------------------------------------------------------------------
(* What the service shows of the purchases.                                *)

Total(rows) == SumFunctionOnSet([o \in Orders |-> bill[o].total], rows)
Tickets(rows) == SumFunctionOnSet(QuantityOf, rows)
Rows(statuses) == {o \in Orders : status[o] \in statuses}

\* GET /internal/admin/reports/sales, /by-movie and /by-date.
SalesReport ==
  [purchases |-> Cardinality(Rows({"confirmed"})), revenue |-> Total(Rows({"confirmed"})),
   tickets |-> Tickets(Rows({"confirmed"})),
   refunds |-> Cardinality(Rows({"refunded"})), refunded |-> Total(Rows({"refunded"}))]

\* Mutant: only films that are on show are joined.
RowsOnShow(m) ==
  {o \in Rows({"confirmed", "refunded"}) : MovieOf[o] = m /\ movies[m].state = "active"}
RowsOf(m) == {o \in Rows({"confirmed", "refunded"}) : MovieOf[o] = m}
ReportByMovie ==
  [m \in {x \in Movies : RowsOf(x) # {}} |->
     [purchases |-> Cardinality(RowsOf(m)), tickets |-> Tickets(RowsOf(m)),
      revenue |-> Total(RowsOf(m) \cap Rows({"confirmed"})),
      refunded |-> Total(RowsOf(m) \cap Rows({"refunded"}))]]

RowsIn(p) == {o \in Rows({"confirmed"}) : PeriodOf[o] = p}
ReportByDate ==
  [p \in {x \in Periods : RowsIn(x) # {}} |->
     [purchases |-> Cardinality(RowsIn(p)), tickets |-> Tickets(RowsIn(p)),
      revenue |-> Total(RowsIn(p))]]
-------------------------------------------------------------------------------
TypeOK ==
  /\ ReplicaTypes
  /\ status \in [Orders -> Status]
  /\ request \in [Orders -> {NoRequest} \cup
                             [at : {"function", "seats"}, price : Prices, stock : Nat]]
  /\ \A o \in Orders : bill[o].total \in Nat

\* A price calculated for any valid selection is what a customer works out from
\* the list of prices of that moment (POST /purchases/quote, build_quote).
Baskets == UNION {[chosen -> 1..2] : chosen \in SUBSET DOMAIN Menu}
QuotesFair ==
  \A m \in Movies : movies[m].state = "active" =>
    \A quantity \in 1..3, seats \in SUBSET Seats, food \in Baskets :
      ValidRequest(quantity, seats, food) =>
        QuoteTotal(BuildQuote(movies[m].price, quantity, seats, food))
          = FairTotal(movies[m].price, quantity, seats, food)

\* What is charged adds up however long the request took and whatever became of
\* the film: the ticket lines count the tickets that are printed, which are the
\* seats where there are any, and the total is that of the price that was read.
TicketCount(lines) ==
  SumFunctionOnSet([l \in lines |-> IF l.kind = "ticket" THEN l.quantity ELSE 0], lines)
ChargedFairly ==
  \A o \in Orders : status[o] # "none" =>
    /\ TicketCount(bill[o].lines) = QuantityOf[o]
    /\ bill[o].total = FairTotal(bill[o].price, QuantityOf[o], SeatsOf[o], FoodOf[o])

\* The three sales reports tell the same story: the sums over films and over
\* periods are the totals, also for films that left the programme.
Column(report, k) == SumFunctionOnSet([x \in DOMAIN report |-> report[x][k]], DOMAIN report)
ReportsAgree ==
  /\ Column(ReportByMovie, "revenue") = SalesReport.revenue
  /\ Column(ReportByMovie, "refunded") = SalesReport.refunded
  /\ Column(ReportByMovie, "purchases") = SalesReport.purchases + SalesReport.refunds
  /\ \A k \in {"revenue", "purchases", "tickets"} : Column(ReportByDate, k) = SalesReport[k]

\* Booking's own count survives the events: while admin-service sends no figure
\* for a film, available_tickets and the confirmed purchases together account for
\* all that the film began with, through changes of price, redelivered events,
\* sales and refunds.
FirstStock(m) == (CHOOSE e \in Range(log["movie.created"]) : e.of = m).data.stock
StockAccounted ==
  \A m \in Movies :
    movies[m].state # "none" /\ (\A i \in 1..Len(log["movie.updated"]) :
         log["movie.updated"][i].of = m => log["movie.updated"][i].data.stock = Nothing)
      => movies[m].stock + Tickets({o \in RowsOf(m) : status[o] = "confirmed"}) >= FirstStock(m)
===============================================================================
