--------------------------- MODULE TicketDeskProofs ---------------------------
(***************************************************************************)
(* Safety of refunds and ticket validation for any orders, seats, number   *)
(* of concurrent cancel requests and failed calls; and the proof that the  *)
(* orders with showtime_id behave as BoxOffice promises.                   *)
(***************************************************************************)
EXTENDS TicketDesk, SumTheorems, TLAPS

\* TypeOK but for available, which needs the number of seats of an order.
DeskTypes ==
  /\ status \in [Orders -> Status]
  /\ ticket \in [Orders -> [Seats -> TicketStatus]]
  /\ request \in [Requests -> Orders \cup {Idle}]
  /\ money \in [Orders -> {"paid", "voided", "manual_required"}]
  /\ closed \in BOOLEAN
  /\ faults \in 0..MaxFaults

\* Tickets exist for the selected seats of sold orders, and are valid only while
\* the order is confirmed; a cancel request asks about an order that was sold.
TicketsFollow ==
  /\ \A o \in Orders, s \in Seats : ticket[o][s] # "none" => s \in SeatsOf[o]
  /\ \A o \in Orders, s \in Seats : Valid(o, s) => status[o] = "confirmed"
  /\ \A r \in Requests : request[r] # Idle => status[request[r]] \in {"confirmed", "refunded"}
  /\ \A o \in Orders : status[o] = "refunded" => money[o] # "paid"

\* With showtime_id a seat has one valid ticket, and whoever has a confirmed order
\* has valid tickets for all of its seats.
OneTicket ==
  /\ \A o, p \in Linked, s \in Seats : Valid(o, s) /\ Valid(p, s) => o = p
  /\ \A o \in Linked : status[o] = "confirmed" => \A s \in SeatsOf[o] : Valid(o, s)

DeskInvariant == DeskTypes /\ TicketsFollow /\ OneTicket

LEMMA DeskKept == ASSUME DeskInvariant, [Next]_vars PROVE DeskInvariant'
<1> USE DeskConstants DEF DeskInvariant, DeskTypes, TicketsFollow, OneTicket, Valid, Status, TicketStatus
<1>1. ASSUME NEW o \in Orders, Open(o) \/ Drop(o) PROVE DeskInvariant'
  <2>1. CASE Open(o)
    BY <2>1 DEF Open
  <2>2. CASE Drop(o)
    BY <2>2 DEF Drop
  <2> QED BY <1>1, <2>1, <2>2
<1>2. ASSUME NEW o \in Orders, Sell(o) PROVE DeskInvariant'
  BY <1>2 DEF Sell, SeatTaken, Tickets
<1>3. ASSUME NEW o \in Orders, NEW r \in Requests, AskRefund(r, o) PROVE DeskInvariant'
  BY <1>3 DEF AskRefund
<1>4. ASSUME NEW o \in Orders, NEW s \in Seats, Validate(o, s) PROVE DeskInvariant'
  <2>1. /\ ticket[o][s] = "active" /\ status[o] = "confirmed"
        /\ UNCHANGED <<status, request, money, closed, faults>>
    BY <1>4 DEF Validate, Admissible
  <2>2. s \in SeatsOf[o]
    BY <2>1
  <2>3. CASE Duplicate(o, s) /\ ticket' = [ticket EXCEPT ![o][s] = "cancelled"]
    <3>1. o \notin Linked
      BY <2>1, <2>3 DEF Duplicate
    <3>2. \A p \in Orders, t \in Seats :
            ticket'[p][t] = IF p = o /\ t = s THEN "cancelled" ELSE ticket[p][t]
      BY <2>3
    <3>3. ticket' \in [Orders -> [Seats -> TicketStatus]]
      BY <2>3
    <3>4. DeskTypes'
      BY <2>1, <3>3
    <3>5. TicketsFollow'
      BY <2>1, <2>2, <3>2
    <3>6. OneTicket'
      BY <2>1, <3>1, <3>2
    <3> QED BY <3>4, <3>5, <3>6
  <2>4. CASE ticket' = [ticket EXCEPT ![o][s] = "used"]
    <3>1. \A p \in Orders, t \in Seats :
            ticket'[p][t] = IF p = o /\ t = s THEN "used" ELSE ticket[p][t]
      BY <2>4
    <3>2. ticket' \in [Orders -> [Seats -> TicketStatus]]
      BY <2>4
    <3>3. DeskTypes'
      BY <2>1, <3>2
    <3>4. TicketsFollow'
      <4>1. \A p \in Orders, t \in Seats : ticket'[p][t] # "none" => t \in SeatsOf[p]
        BY <2>2, <3>1
      <4>2. \A p \in Orders, t \in Seats : Valid(p, t)' => status'[p] = "confirmed"
        BY <2>1, <3>1
      <4> QED BY <2>1, <4>1, <4>2
    <3>5. OneTicket'
      BY <2>1, <3>1
    <3> QED BY <3>3, <3>4, <3>5
  <2> QED BY <1>4, <2>3, <2>4 DEF Validate
<1>5. ASSUME NEW r \in Requests, RefundHandled(r) PROVE DeskInvariant'
  BY <1>5 DEF RefundHandled
<1>6. ASSUME NEW r \in Requests, GiveBack(r) PROVE DeskInvariant'
  BY <1>6 DEF GiveBack, Answered, TicketsCancelled, Tickets
<1>7. ASSUME NEW r \in Requests, RefundFails(r) PROVE DeskInvariant'
  BY <1>7 DEF RefundFails, Fault
<1>8. CASE Crash
  BY <1>8 DEF Crash, Fault
<1>9. CASE Close \/ UNCHANGED vars
  BY <1>9 DEF Close, vars
<1> QED BY <1>1, <1>2, <1>3, <1>4, <1>5, <1>6, <1>7, <1>8, <1>9 DEF Next

LEMMA InvariantHolds == Spec => []DeskInvariant
<1>1. Init => DeskTypes
  <2>1. Init => closed \in BOOLEAN
    BY Zenon DEF Init
  <2>2. Init => ticket \in [Orders -> [Seats -> TicketStatus]] /\ status \in [Orders -> Status]
    BY DEF Init, Status, TicketStatus
  <2> QED BY <2>1, <2>2, DeskConstants DEF Init, DeskTypes
<1>2. Init => TicketsFollow /\ OneTicket
  BY DeskConstants DEF Init, TicketsFollow, OneTicket, Valid
<1> QED BY <1>1, <1>2, DeskKept, PTL DEF Spec, DeskInvariant

\* An order has finitely many seats.
LEMMA QuantityIsNatural == \A o \in Orders : Quantity(o) \in Nat
BY DeskConstants, FS_Subset, FS_CardinalityType DEF Quantity

\* Rows, tickets and requests keep their types, and available_tickets is never
\* negative, with any number of sales and refunds.
THEOREM TypeCorrect == Spec => []TypeOK
<1> DEFINE Counted == available \in Nat
<1>1. Init => Counted
  BY DeskConstants DEF Init
<1>2. DeskInvariant /\ Counted /\ [Next]_vars => Counted'
  <2> SUFFICES ASSUME DeskInvariant, available \in Nat, [Next]_vars, available' # available
               PROVE  available' \in Nat
    OBVIOUS
  <2>1. ASSUME NEW o \in Orders, Sell(o) PROVE available' \in Nat
    BY <2>1, QuantityIsNatural DEF Sell, Take
  <2>2. ASSUME NEW r \in Requests, GiveBack(r) PROVE available' \in Nat
    <3>1. request[r] \in Orders
      BY <2>2 DEF GiveBack, DeskInvariant, DeskTypes
    <3> QED BY <2>2, <3>1, QuantityIsNatural DEF GiveBack, AllBack
  <2> QED
    BY <2>1, <2>2 DEF Next, vars, Open, Drop, AskRefund, Validate, RefundHandled, RefundFails,
       Crash, Close
<1>3. DeskInvariant /\ Counted => TypeOK
  BY DEF DeskInvariant, DeskTypes, TypeOK
<1> HIDE DEF Counted
<1> QED BY <1>1, <1>2, <1>3, InvariantHolds, PTL DEF Spec


\* Only finitely many purchases were sold so far, and they add up.
SoldFinitely == IsFiniteSet(SoldOrders)

\* The steps that change which purchases are sold change available_tickets by as
\* many tickets; a second GiveBack of the same purchase only adds.
LEMMA CountFollows ==
  ASSUME DeskInvariant, available \in Nat, SoldFinitely, NothingHidden, [Next]_vars
  PROVE  SoldFinitely' /\ NothingHidden'
<1> DEFINE q == [o \in Orders |-> Quantity(o)]
           sold == Sum(q, SoldOrders)
<1>1. \A o \in Orders : q[o] \in Nat
  BY QuantityIsNatural
<1>2. sold \in Int /\ available + sold >= Capacity /\ Capacity \in Nat
  BY <1>1, SumIsInt, DeskConstants DEF SoldFinitely, SoldOrders, NothingHidden, SoldTickets, Sum
<1>3. SoldTickets' = Sum(q, SoldOrders')
  BY DEF SoldTickets, Sum
<1> HIDE DEF q, sold
<1>4. ASSUME NEW o \in Orders, Sell(o) PROVE SoldFinitely' /\ NothingHidden'
  <2>1. SoldOrders' = SoldOrders \cup {o} /\ SoldOrders = (SoldOrders \cup {o}) \ {o} /\ o \in SoldOrders'
    BY <1>4 DEF Sell, SoldOrders, DeskInvariant, DeskTypes
  <2>2. SoldFinitely'
    BY <2>1, FS_AddElement DEF SoldFinitely
  <2>3. Sum(q, SoldOrders') = q[o] + sold
    <3>1. \A p \in SoldOrders' : q[p] \in Int
      BY <1>1 DEF SoldOrders
    <3> QED BY <2>1, <2>2, <3>1, SumRemove DEF SoldFinitely, sold
  <2>4. available' >= available - q[o] /\ available' \in Int
    BY <1>1, <1>4, QuantityIsNatural DEF Sell, Take, q
  <2>5. available' + (q[o] + sold) >= Capacity
    BY <1>1, <1>2, <2>4
  <2> QED BY <1>3, <2>2, <2>3, <2>5 DEF NothingHidden
<1>5. ASSUME NEW r \in Requests, GiveBack(r) PROVE SoldFinitely' /\ NothingHidden'
  <2> DEFINE o == request[r]
  <2>1. o \in Orders /\ SoldOrders' = SoldOrders \ {o}
    BY <1>5 DEF GiveBack, SoldOrders, DeskInvariant, DeskTypes
  <2>2. available' = available + q[o] /\ q[o] \in Nat
    BY <1>1, <1>5, <2>1 DEF GiveBack, AllBack, q
  <2> HIDE DEF o
  <2>3. SoldFinitely'
    BY <2>1, FS_RemoveElement DEF SoldFinitely
  <2>4. CASE o \in SoldOrders
    <3>1. \A p \in SoldOrders : q[p] \in Int
      BY <1>1 DEF SoldOrders
    <3>2. sold = q[o] + Sum(q, SoldOrders')
      BY <2>1, <2>4, <3>1, SumRemove DEF SoldFinitely, sold
    <3>3. Sum(q, SoldOrders') \in Int
      BY <2>1, <2>3, <3>1, SumIsInt DEF SoldFinitely
    <3>4. available' + Sum(q, SoldOrders') >= Capacity
      BY <1>2, <2>2, <3>2, <3>3
    <3> QED BY <1>3, <2>3, <3>4 DEF NothingHidden
  <2>5. CASE o \notin SoldOrders
    <3>1. SoldOrders' = SoldOrders
      BY <2>1, <2>5
    <3>2. available' + sold >= Capacity
      BY <1>2, <2>2
    <3> QED BY <1>3, <2>3, <3>1, <3>2 DEF NothingHidden, sold
  <2> QED BY <2>4, <2>5
<1>6. ASSUME SoldOrders' = SoldOrders, available' = available PROVE SoldFinitely' /\ NothingHidden'
  BY <1>6 DEF SoldFinitely, NothingHidden, SoldTickets
<1>7. ASSUME NEW o \in Orders, Open(o) \/ Drop(o) PROVE SoldOrders' = SoldOrders /\ available' = available
  BY <1>7 DEF Open, Drop, SoldOrders, DeskInvariant, DeskTypes
<1>8. CASE UNCHANGED <<status, available>>
  BY <1>6, <1>8 DEF SoldOrders
<1> QED
  BY <1>4, <1>5, <1>6, <1>7, <1>8
  DEF Next, vars, AskRefund, Validate, RefundHandled, RefundFails, Crash, Close

\* available_tickets hides no ticket that could be sold: with what the confirmed
\* purchases took it is never less than what the film began with, though it is
\* cut off at 0 and a purchase may be given back twice.
THEOREM NothingIsHidden == Spec => []NothingHidden
<1>1. Init => SoldFinitely /\ NothingHidden
  <2> SUFFICES ASSUME Init PROVE SoldFinitely /\ NothingHidden
    OBVIOUS
  <2>1. SoldOrders = {}
    BY DEF Init, SoldOrders
  <2>2. SoldTickets = 0
    BY <2>1, SumUnfolds, FS_EmptySet DEF SoldTickets, Sum
  <2> QED BY <2>1, <2>2, FS_EmptySet, DeskConstants DEF Init, SoldFinitely, NothingHidden
<1>2. DeskInvariant /\ TypeOK /\ SoldFinitely /\ NothingHidden /\ [Next]_vars => SoldFinitely' /\ NothingHidden'
  BY CountFollows DEF TypeOK
<1> QED BY <1>1, <1>2, InvariantHolds, TypeCorrect, PTL DEF Spec

\* A purchase that was given back has no valid ticket and its money was dealt with
\* first, whatever other requests and validations come in between.
THEOREM RefundsAreOver == Spec => []RefundedIsOver
<1>1. DeskInvariant => RefundedIsOver
  BY DEF DeskInvariant, DeskTypes, TicketsFollow, RefundedIsOver, Valid, TicketStatus
<1> QED BY <1>1, InvariantHolds, PTL

\* Owners of confirmed orders with showtime_id have tickets that admit them: used
\* tickets of earlier owners of the seat are never taken for duplicates.
THEOREM OwnersAreAdmitted == Spec => []OwnersEnter
<1>1. DeskInvariant => OwnersEnter
  BY DeskConstants DEF DeskInvariant, OneTicket, OwnersEnter, Valid, Duplicate
<1> QED BY <1>1, InvariantHolds, PTL

\* What the map of occupied seats shows and what the conflict query finds agree.
THEOREM MapIsRight == Spec => []MapAgrees
<1>1. DeskInvariant => MapAgrees
  <2> SUFFICES ASSUME DeskInvariant, NEW o \in Linked \cup Dated, status[o] = "pending"
               PROVE  /\ SeatTaken(o) => SeatsOf[o] \cap OccupiedSeats(TRUE) # {}
                      /\ o \in Linked /\ SeatsOf[o] \cap OccupiedSeats(FALSE) # {} => SeatTaken(o)
    BY DEF MapAgrees
  <2>1. ASSUME SeatTaken(o) PROVE SeatsOf[o] \cap OccupiedSeats(TRUE) # {}
    <3>1. PICK p \in Orders \ {o}, s \in SeatsOf[o] :
             Valid(p, s) /\ (IF o \in Linked THEN p \in Linked
                             ELSE SameShow(o, p) /\ status[p] = "confirmed")
      BY <2>1 DEF SeatTaken
    <3>2. s \in OccupiedSeats(TRUE)
      BY <3>1, DeskConstants DEF OccupiedSeats, Valid, SameShow, DeskInvariant, TicketsFollow
    <3> QED BY <3>2
  <2>2. ASSUME o \in Linked, SeatsOf[o] \cap OccupiedSeats(FALSE) # {} PROVE SeatTaken(o)
    BY <2>2, DeskConstants DEF OccupiedSeats, SeatTaken, Valid
  <2> QED BY <2>1, <2>2
<1> QED BY <1>1, InvariantHolds, PTL

\* The second of two tickets for a seat does not open the door, except one with
\* showtime_id after one without.
THEOREM SecondsStayOut == Spec => SecondStaysOut
<1>1. DeskInvariant /\ [Next]_vars =>
        [\A o, p \in Dated, s \in Seats :
           o # p /\ ticket[p][s] = "used" /\ ticket[o][s] # "used" /\ ticket'[o][s] = "used"
             => o \in Linked /\ p \notin Linked]_vars
  <2> SUFFICES ASSUME DeskInvariant, Next, NEW o \in Dated, NEW p \in Dated, NEW s \in Seats,
                      o # p, ticket[p][s] = "used", ticket[o][s] # "used", ticket'[o][s] = "used"
               PROVE  o \in Linked /\ p \notin Linked
    OBVIOUS
  <2> USE DeskConstants DEF DeskInvariant, DeskTypes
  <2>1. ASSUME NEW q \in Orders, NEW t \in Seats, Validate(q, t) PROVE o \in Linked /\ p \notin Linked
    <3>1. q = o /\ t = s /\ ~Duplicate(o, s)
      BY <2>1 DEF Validate
    <3> QED BY <3>1 DEF Duplicate, SameShow
  <2>2. ASSUME NEW q \in Orders, Sell(q) PROVE FALSE
    BY <2>2 DEF Sell, Tickets
  <2>3. ASSUME NEW r \in Requests, GiveBack(r) PROVE FALSE
    BY <2>3 DEF GiveBack, TicketsCancelled, Tickets
  <2> QED
    BY <2>1, <2>2, <2>3 DEF Next, Open, Drop, AskRefund, RefundHandled, RefundFails, Crash, Close
<1> QED BY <1>1, InvariantHolds, PTL DEF Spec, SecondStaysOut
-------------------------------------------------------------------------------
\* What a step does to the orders with showtime_id.
LEMMA NextSimulates ==
  ASSUME DeskInvariant, [Next]_vars
  PROVE  [Office!Next]_[o \in Linked |-> status[o]]
<1> DEFINE order == [o \in Linked |-> status[o]]
<1> USE DeskConstants DEF DeskInvariant, DeskTypes
<1>1. ASSUME NEW o \in Orders, NEW from, NEW to,
             status[o] = from, status' = [status EXCEPT ![o] = to]
      PROVE  \/ o \notin Linked /\ UNCHANGED order
             \/ o \in Linked /\ Office!Move(o, from, to)
  BY <1>1 DEF Office!Move
<1>2. ASSUME NEW o \in Orders, Open(o) PROVE Office!Next \/ UNCHANGED order
  BY <1>1, <1>2 DEF Open, Office!Next, Office!Open
<1>3. ASSUME NEW o \in Orders, Drop(o) PROVE Office!Next \/ UNCHANGED order
  BY <1>1, <1>3 DEF Drop, Office!Next, Office!Drop
<1>4. ASSUME NEW o \in Orders, Sell(o) PROVE Office!Next \/ UNCHANGED order
  <2>1. ASSUME o \in Linked, NEW p \in Linked, order[p] = "confirmed" PROVE ~Office!Clash(o, p)
    BY <1>4, <2>1 DEF Sell, SeatTaken, OneTicket, Office!Clash
  <2> QED BY <1>1, <1>4, <2>1 DEF Sell, Office!Next, Office!Sell
<1>5. ASSUME NEW r \in Requests, GiveBack(r) PROVE Office!Next \/ UNCHANGED order
  <2>1. /\ request[r] \in Orders /\ status[request[r]] \in {"confirmed", "refunded"}
        /\ status' = [status EXCEPT ![request[r]] = "refunded"]
    BY <1>5 DEF GiveBack, TicketsFollow
  <2>2. CASE status[request[r]] = "confirmed"
    BY <1>1, <2>1, <2>2 DEF Office!Next, Office!GiveBack
  <2>3. CASE status[request[r]] = "refunded"
    BY <2>1, <2>3
  <2> QED BY <2>1, <2>2, <2>3
<1>6. CASE \/ \E o \in Orders : (\E r \in Requests : AskRefund(r, o)) \/ \E s \in Seats : Validate(o, s)
           \/ \E r \in Requests : RefundHandled(r) \/ RefundFails(r)
           \/ Crash \/ Close \/ UNCHANGED vars
  BY <1>6 DEF AskRefund, Validate, RefundHandled, RefundFails, Crash, Close, vars
<1> QED BY <1>2, <1>3, <1>4, <1>5, <1>6 DEF Next

\* Sales, refunds and new sales of the same seats, for orders with showtime_id, are
\* those that BoxOffice allows: the conflict query sees every valid ticket.
THEOREM DeskImplementsBoxOffice == Spec => ImplementsBoxOffice
<1>1. Init => Office!Init
  BY DeskConstants DEF Init, Office!Init
<1> QED BY <1>1, NextSimulates, InvariantHolds, PTL DEF Spec, ImplementsBoxOffice, Office!Spec
===============================================================================
