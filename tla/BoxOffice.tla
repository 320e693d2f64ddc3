------------------------------ MODULE BoxOffice ------------------------------
(***************************************************************************)
(* What the booking service promises about seats, whatever happens inside  *)
(* it: an order is opened once, is then either sold or dropped, a sold     *)
(* order may be given back, and two orders that are sold at the same time  *)
(* never share a seat.  The detailed modules implement this one.           *)
(***************************************************************************)

CONSTANTS Orders,      \* the orders that may ever be placed
          Seats,       \* the seats of one function
          SeatsOf      \* the seats each order asks for

VARIABLE order         \* the state of each order, as PurchaseStatus names it

OrderState == {"none", "pending", "confirmed", "cancelled", "refunded"}

\* Two different orders want a seat in common.
Clash(o, p) == o # p /\ SeatsOf[o] \cap SeatsOf[p] # {}

Init == order = [o \in Orders |-> "none"]

Move(o, from, to) ==
  /\ order[o] = from
  /\ order' = [order EXCEPT ![o] = to]

\* A purchase is stored as PENDING.
Open(o) == Move(o, "none", "pending")

\* The payment arrived and no sold order has any of the seats.
Sell(o) ==
  /\ \A p \in Orders : order[p] = "confirmed" => ~Clash(o, p)
  /\ Move(o, "pending", "confirmed")

\* The order comes to nothing; this decision is final.
Drop(o) == Move(o, "pending", "cancelled")

\* The owner gives a sold order back: its seats are for sale again.
GiveBack(o) == Move(o, "confirmed", "refunded")

Next == \E o \in Orders : Open(o) \/ Sell(o) \/ Drop(o) \/ GiveBack(o)

Spec == Init /\ [][Next]_order

TypeOK == order \in [Orders -> OrderState]

\* No seat is sold to two orders at the same time.
NoDoubleSale ==
  \A o, p \in Orders :
    order[o] = "confirmed" /\ order[p] = "confirmed" => ~Clash(o, p)
=============================================================================
