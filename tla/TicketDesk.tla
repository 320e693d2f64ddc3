------------------------------ MODULE TicketDesk ------------------------------
(***************************************************************************)
(* What happens to sold tickets: POST /purchases/{id}/cancel gives a       *)
(* purchase back (a request waits for payment-service between its checks   *)
(* and its commit), POST /tickets/{code}/validate lets a person in, and    *)
(* movies.available_tickets follows both.  All the orders are for one      *)
(* function and select their seats.                                        *)
(*                                                                         *)
(* How a purchase is paid is PurchaseSaga's; here it is sold or dropped at *)
(* any moment.  A refund call may fail although the money was returned.    *)
(***************************************************************************)
EXTENDS Integers, FiniteSets, FiniteSetsExt

CONSTANTS
  Orders, Seats, SeatsOf,  \* the orders, the seats and those each order selected
  Linked,                  \* orders whose row has a showtime_id
  Dated,                   \* orders whose row has show_date and show_time
  Capacity,                \* available_tickets before anything is sold
  Requests, Idle,          \* the cancel requests served at a time
  MaxFaults                \* bound of the model: failed refund calls and crashes

ASSUME DeskConstants ==
  /\ SeatsOf \in [Orders -> (SUBSET Seats) \ {{}}] /\ IsFiniteSet(Seats)
  /\ Linked \subseteq Orders /\ Dated \subseteq Orders
  /\ Capacity \in Nat /\ MaxFaults \in Nat /\ Idle \notin Orders

VARIABLES
  status,     \* purchases.status
  ticket,     \* tickets.status of each seat of an order
  available,  \* movies.available_tickets
  request,    \* the order each cancel request asked payment-service about
  money,      \* what payment-service did with the payment of an order
  closed,     \* the function begins in less than 30 minutes
  faults

vars == <<status, ticket, available, request, money, closed, faults>>

Status == {"none", "pending", "confirmed", "cancelled", "refunded"}
TicketStatus == {"none", "active", "used", "cancelled"}

Quantity(o) == Cardinality(SeatsOf[o])
Tickets(o, state) == [s \in Seats |-> IF s \in SeatsOf[o] THEN state ELSE "none"]

\* Mutant: a seat counts as sold only until its ticket is used.
OnlyActive(p, s) == ticket[p][s] = "active"
Valid(p, s) == ticket[p][s] \in {"active", "used"}

\* Two rows agree on film, date and time.
SameShow(o, p) == o \in Dated <=> p \in Dated
-------------------------------------------------------------------------------
(* confirm_purchase_from_payment.                                          *)

\* The query for conflicts, by showtime_id or by film, date and time; with a
\* showtime_id the unique index of the tickets says the same.
NeverTaken(o) == FALSE             \* mutant: neither query nor index
SeatTaken(o) ==
  \E p \in Orders \ {o}, s \in SeatsOf[o] :
    /\ Valid(p, s)
    /\ IF o \in Linked THEN p \in Linked
       ELSE SameShow(o, p) /\ status[p] = "confirmed"

\* available_tickets = max(available_tickets - quantity, 0)
Unclamped(o) == available - Quantity(o)     \* mutant: without max
Take(o) == IF available > Quantity(o) THEN available - Quantity(o) ELSE 0

\* The row is inserted.
Open(o) ==
  /\ status[o] = "none"
  /\ status' = [status EXCEPT ![o] = "pending"]
  /\ UNCHANGED <<ticket, available, request, money, closed, faults>>

Sell(o) ==
  /\ status[o] = "pending" /\ ~SeatTaken(o)
  /\ status' = [status EXCEPT ![o] = "confirmed"]
  /\ ticket' = [ticket EXCEPT ![o] = Tickets(o, "active")]
  /\ available' = Take(o)
  /\ UNCHANGED <<request, money, closed, faults>>

\* mark_purchase_cancelled: not paid, or paid for a seat that is taken.
Drop(o) ==
  /\ status[o] = "pending"
  /\ status' = [status EXCEPT ![o] = "cancelled"]
  /\ UNCHANGED <<ticket, available, request, money, closed, faults>>
-------------------------------------------------------------------------------
(* cancel_purchase.                                                        *)

\* The checks, up to the refund call.  A row without date or time has no hour
\* to compare with.
AskRefund(r, o) ==
  /\ request[r] = Idle /\ status[o] = "confirmed"
  /\ ~(o \in Dated /\ closed)
  /\ request' = [request EXCEPT ![r] = o]
  /\ UNCHANGED <<status, ticket, available, money, closed, faults>>

\* payment-service handles the call: Wompi voids the payment, or it is left to
\* be returned by hand.  It does so once for an order.
RefundHandled(r) ==
  LET o == request[r]
  IN  /\ o # Idle /\ money[o] = "paid"
      /\ \E m \in {"voided", "manual_required"} : money' = [money EXCEPT ![o] = m]
      /\ UNCHANGED <<status, ticket, available, request, closed, faults>>

\* Mutant: the answer of payment-service is not awaited.
Unanswered(o) == TRUE
Answered(o) == money[o] # "paid"

TicketsCancelled(o) == Tickets(o, "cancelled")

\* Mutant: available_tickets is forgotten.
NoneBack(o) == available
AllBack(o) == available + Quantity(o)

\* The answer arrives and everything is stored in one transaction.
GiveBack(r) ==
  LET o == request[r]
  IN  /\ o # Idle /\ Answered(o)
      /\ available' = AllBack(o)
      /\ ticket' = [ticket EXCEPT ![o] = TicketsCancelled(o)]
      /\ status' = [status EXCEPT ![o] = "refunded"]
      /\ request' = [request EXCEPT ![r] = Idle]
      /\ UNCHANGED <<money, closed, faults>>

Fault == faults < MaxFaults /\ faults' = faults + 1

\* The call fails or times out, whatever payment-service did, the circuit
\* breaker refuses it, or the commit fails: the client gets an error.
RefundFails(r) ==
  /\ request[r] # Idle /\ Fault
  /\ request' = [request EXCEPT ![r] = Idle]
  /\ UNCHANGED <<status, ticket, available, money, closed>>

\* The process dies while requests wait.
Crash ==
  /\ Fault /\ \E r \in Requests : request[r] # Idle
  /\ request' = [r \in Requests |-> Idle]
  /\ UNCHANGED <<status, ticket, available, money, closed>>
-------------------------------------------------------------------------------
(* validate_ticket.                                                        *)

\* A ticket for the same seat was used.
DuplicateLinked(o, s) ==       \* mutant: only tickets with showtime_id are compared
  \E p \in Orders \ {o} : ticket[p][s] = "used" /\ o \in Linked /\ p \in Linked
Duplicate(o, s) ==
  \E p \in Orders \ {o} :
    /\ ticket[p][s] = "used"
    /\ IF o \in Linked THEN p \in Linked ELSE o \in Dated /\ SameShow(o, p)

Admissible(o, s) == ticket[o][s] = "active" /\ status[o] = "confirmed"

\* The person comes in, or the ticket is invalidated as a duplicate.
Validate(o, s) ==
  /\ Admissible(o, s)
  /\ IF Duplicate(o, s)
     THEN ticket' = [ticket EXCEPT ![o][s] = "cancelled"]
     ELSE ticket' = [ticket EXCEPT ![o][s] = "used"]
  /\ UNCHANGED <<status, available, request, money, closed, faults>>

\* get_occupied_seats: the seats shown as taken, by showtime_id or, when the
\* client sends film, date and time, also by them for rows without one.  Rows
\* that have a date and no time are left out of the model.
ShownUntilUsed(byShow) ==      \* mutant: a used ticket frees its seat
  {s \in Seats : \E p \in Orders :
     status[p] = "confirmed" /\ ticket[p][s] = "active"
     /\ (p \in Linked \/ (byShow /\ p \in Dated))}
OccupiedSeats(byShow) ==
  {s \in Seats : \E p \in Orders :
     /\ status[p] = "confirmed" /\ ticket[p][s] \in {"active", "used"}
     /\ p \in Linked \/ (byShow /\ p \in Dated)}

\* Half an hour before the function.
Close == ~closed /\ closed' = TRUE
         /\ UNCHANGED <<status, ticket, available, request, money, faults>>

Init ==
  /\ status = [o \in Orders |-> "none"]
  /\ ticket = [o \in Orders |-> [s \in Seats |-> "none"]]
  /\ available = Capacity
  /\ request = [r \in Requests |-> Idle]
  /\ money = [o \in Orders |-> "paid"]
  /\ closed = FALSE /\ faults = 0

Next ==
  \/ \E o \in Orders :
       \/ Open(o) \/ Sell(o) \/ Drop(o)
       \/ \E r \in Requests : AskRefund(r, o)
       \/ \E s \in Seats : Validate(o, s)
  \/ \E r \in Requests : RefundHandled(r) \/ GiveBack(r) \/ RefundFails(r)
  \/ Crash \/ Close

Spec == Init /\ [][Next]_vars
-------------------------------------------------------------------------------
TypeOK ==
  /\ status \in [Orders -> Status]
  /\ ticket \in [Orders -> [Seats -> TicketStatus]]
  /\ available \in Nat
  /\ request \in [Requests -> Orders \cup {Idle}]
  /\ money \in [Orders -> {"paid", "voided", "manual_required"}]
  /\ closed \in BOOLEAN
  /\ faults \in 0..MaxFaults

\* A purchase that was given back has no ticket that opens a door and none that
\* keeps its seat from being sold again, though tickets may be validated and
\* other requests may cancel it while payment-service is asked; and its money
\* was dealt with first.
RefundedIsOver ==
  \A o \in Orders : status[o] = "refunded" =>
    money[o] # "paid" /\ \A s \in Seats : ticket[o][s] \in {"none", "cancelled"}

\* The owner of a confirmed purchase with showtime_id is never sent away at the
\* door: validate_ticket finds no duplicate of such a ticket, whatever was sold,
\* used, given back and sold again before.
OwnersEnter ==
  \A o \in Linked, s \in Seats :
    status[o] = "confirmed" /\ s \in SeatsOf[o] =>
      ticket[o][s] \in {"active", "used"} /\ ~Duplicate(o, s)

\* available_tickets never hides a ticket that could be sold: it counts at least
\* what the confirmed purchases leave over.
SoldOrders == {o \in Orders : status[o] = "confirmed"}
SoldTickets == SumFunctionOnSet([o \in Orders |-> Quantity(o)], SoldOrders)
NothingHidden == available + SoldTickets >= Capacity

\* The map of seats and the purchase agree: whoever was shown only free seats is
\* not turned away for a seat after having paid, and an order with showtime_id
\* that took a seat the map shows is turned away.  The map asks for confirmed
\* purchases and the query for conflicts only for tickets, so this says that no
\* other purchase keeps a ticket.
MapAgrees ==
  \A o \in Linked \cup Dated : status[o] = "pending" =>
    /\ SeatTaken(o) => SeatsOf[o] \cap OccupiedSeats(TRUE) # {}
    /\ o \in Linked /\ SeatsOf[o] \cap OccupiedSeats(FALSE) # {} => SeatTaken(o)

\* Once somebody came in with a ticket for a seat, nobody else does with another
\* one, however both came to be sold: except that a ticket with showtime_id is
\* not compared with one that has none (the search for duplicates, of which the
\* comment at purchases.py:593 says that it works with and without).
SecondStaysOut ==
  [][\A o, p \in Dated, s \in Seats :
       o # p /\ ticket[p][s] = "used" /\ ticket[o][s] # "used" /\ ticket'[o][s] = "used"
         => o \in Linked /\ p \notin Linked]_vars

\* Orders with showtime_id live as BoxOffice promises: sales, refunds and new
\* sales of the same seats.
Office == INSTANCE BoxOffice WITH
  Orders <- Linked, SeatsOf <- [o \in Linked |-> SeatsOf[o]],
  order <- [o \in Linked |-> status[o]]
ImplementsBoxOffice == Office!Spec
-------------------------------------------------------------------------------
(* What a text of the repository says and the code does not do; a run      *)
(* refutes it.                                                             *)

\* purchases.py:187 the available tickets are restored: those the purchase took.
StockRestored == available + SoldTickets <= Capacity
=============================================================================
