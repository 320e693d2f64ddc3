------------------------------ MODULE SeatHolds ------------------------------
(***************************************************************************)
(* The seats of one function: the check against sold tickets and the Redis *)
(* holds of POST /purchases, and what confirming, cancelling and refunding *)
(* an order do to holds and tickets.                                       *)
(*                                                                         *)
(* When an order is paid or cancelled is up to PurchaseSaga; here it may   *)
(* happen at any moment.  An order without showtime_id ("unlinked": the    *)
(* catalog did not answer when it was derived) takes no hold.  An order of *)
(* general admission selects no seat; its tickets are numbered GENERAL-1,  *)
(* GENERAL-2, ... in every order, so that Labels has General for each.     *)
(* The tickets of an order are valid while the order is confirmed.         *)
(*                                                                         *)
(* Redis may fail at any of these steps, the process may die, and a payment*)
(* context may be lost: the faults, counted and bounded by MaxFaults.      *)
(***************************************************************************)
EXTENDS Naturals

CONSTANTS
  Orders, Seats,
  Selected,          \* selected_seats of each order; {} for general admission
  General,           \* the label GENERAL-1
  Nobody, Request,   \* no hold, and the hold of a request that died
  Preferential,      \* the seats of the rows K to P
  HoldTTL,           \* seat_hold_ttl_seconds, in ticks
  Unlinkable,        \* orders whose showtime_id may stay unknown
  MaxFaults          \* bound of the model

ASSUME HoldConstants ==
  /\ Selected \in [Orders -> SUBSET Seats] /\ General \notin Seats
  /\ Preferential \subseteq Seats
  /\ {Nobody, Request} \cap Orders = {} /\ Nobody # Request
  /\ HoldTTL \in Nat \ {0} /\ MaxFaults \in Nat
  /\ Unlinkable \subseteq Orders

VARIABLES
  status,    \* purchases.status
  linked,    \* orders whose row has a showtime_id
  hold,      \* seat:hold:<showtime>:<seat>
  ttl,       \* ticks the hold has left
  asking,    \* requests past the sold check, waiting for the seat map
  promised,  \* ticks during which the seats of an order were promised to it
  returned,  \* orders that were paid and turned away at the confirmation
  stranded,  \* orders whose holds a fault has left to their time limit: the
             \* context that names them is gone, or their release has failed
  faults

holdVars == <<hold, ttl>>
vars == <<status, linked, holdVars, asking, promised, returned, stranded, faults>>

Status == {"none", "pending", "confirmed", "cancelled", "refunded"}

\* The seat_number of the tickets of an order.
Labels == [o \in Orders |-> IF Selected[o] = {} THEN {General} ELSE Selected[o]]

\* A ticket that is ACTIVE or USED.
Sold(p, s) == status[p] = "confirmed" /\ s \in Labels[p]
-------------------------------------------------------------------------------
(* Holds (app/core/redis_client.py).                                       *)

Fault == faults < MaxFaults /\ faults' = faults + 1
NoFault == UNCHANGED faults

\* hold_seat for every seat of S, then reassign_hold, which keeps the TTL and may
\* fail in silence: the seats of R stay with the request.
HoldForEver(o, S, R) ==            \* mutant: SET without keepttl
  /\ hold' = [s \in Seats |-> IF s \in R THEN Request ELSE IF s \in S THEN o ELSE hold[s]]
  /\ ttl' = [s \in Seats |-> IF s \in R THEN HoldTTL ELSE IF s \in S THEN 0 ELSE ttl[s]]
Take(o, S, R) ==
  /\ hold' = [s \in Seats |-> IF s \in R THEN Request ELSE IF s \in S THEN o ELSE hold[s]]
  /\ ttl' = [s \in Seats |-> IF s \in R \cup S THEN HoldTTL ELSE ttl[s]]

\* release_seats_for_order: the keys are deleted, whoever they belong to.
KeepHolds(S) == UNCHANGED holdVars         \* mutant: nothing is released
Release(S) ==
  /\ hold' = [s \in Seats |-> IF s \in S THEN Nobody ELSE hold[s]]
  /\ ttl' = [s \in Seats |-> IF s \in S THEN 0 ELSE ttl[s]]

\* It is no transaction and fails in silence: some of the keys may be left.
ReleaseFails(S) == Fault /\ \E T \in SUBSET S : Release(T)

Free(s) == hold[s] = Nobody
-------------------------------------------------------------------------------
(* create_purchase.                                                        *)

Insert(o) == status' = [status EXCEPT ![o] = "pending"] /\ UNCHANGED returned

\* The order is accepted and the customer sent to pay.
Accept(o) ==
  /\ Insert(o) /\ UNCHANGED stranded
  /\ promised' = [promised EXCEPT ![o] = HoldTTL]

\* No ticket of the function has a seat the client selected; then the request
\* waits for the seat map of catalog-service.
Ask(o) ==
  /\ status[o] = "none" /\ o \notin asking /\ Selected[o] # {}
  /\ \A p \in linked, s \in Selected[o] : ~Sold(p, s)
  /\ asking' = asking \cup {o}
  /\ UNCHANGED <<status, linked, holdVars, promised, returned, stranded, faults>>

\* The seat map has them available and all the holds are acquired.
Acquired(o) == o \in asking /\ \A s \in Selected[o] : Free(s)

Open(o) ==
  /\ Acquired(o)
  /\ \/ Take(o, Selected[o], {}) /\ NoFault
     \/ Fault /\ \E R \in SUBSET Selected[o] : Take(o, Selected[o], R)
  /\ Accept(o) /\ linked' = linked \cup {o} /\ asking' = asking \ {o}

\* The row is committed but cannot be read again: the client gets an error, the
\* context is deleted and the holds released, those of T excepted if that fails.
OpenFails(o) ==
  /\ Acquired(o) /\ Fault
  /\ \E T \in SUBSET Selected[o] : Take(o, T, {})
  /\ Insert(o) /\ linked' = linked \cup {o} /\ asking' = asking \ {o}
  /\ stranded' = stranded \cup {o} /\ UNCHANGED promised

\* General admission has nothing to hold.
OpenGeneral(o) ==
  /\ status[o] = "none" /\ Selected[o] = {}
  /\ Accept(o) /\ linked' = linked \cup {o}
  /\ UNCHANGED <<holdVars, asking, faults>>

OpenUnlinked(o) ==
  /\ status[o] = "none" /\ o \in Unlinkable \ asking
  /\ Accept(o) /\ UNCHANGED <<linked, holdVars, asking, faults>>

\* A request that ends without a row leaves the seats of S held by nobody's order.
Leave(o) == \E S \in SUBSET {s \in Selected[o] : Free(s)} : Take(Request, S, {})

\* The seat map refuses or does not answer, or a seat is held, or the row cannot
\* be stored: the seats already acquired are released.  The client may ask again.
Refuse(o) ==
  /\ o \in asking /\ asking' = asking \ {o}
  /\ \/ UNCHANGED holdVars /\ NoFault
     \/ Leave(o) /\ Fault
  /\ UNCHANGED <<status, linked, promised, returned, stranded>>

\* The process dies and starts again, perhaps while a request is holding seats:
\* the requests it was serving are gone, holds of theirs stay.
Crash ==
  /\ Fault /\ asking' = {}
  /\ UNCHANGED holdVars \/ \E o \in asking : Leave(o)
  /\ UNCHANGED <<status, linked, promised, returned, stranded>>

\* Redis loses the payment context of an order.
LoseContext(o) ==
  /\ status[o] = "pending" /\ o \notin stranded /\ Fault
  /\ stranded' = stranded \cup {o}
  /\ UNCHANGED <<status, linked, holdVars, asking, promised, returned>>
-------------------------------------------------------------------------------
(* Decisions about an order.                                               *)

DecideWrongColumn(o, to) ==        \* mutant: payment_info["status"] goes to status
  status' = [status EXCEPT ![o] = IF to = "cancelled" THEN "failed" ELSE to]
Decide(o, to) == status' = [status EXCEPT ![o] = to]

PendingUnchecked(o) == TRUE        \* mutant: no early return
StillPending(o) == status[o] = "pending"

\* The decision is committed first and its holds are released after that; Redis
\* may fail then, and the process may die.
Settle(o, to, S) ==
  /\ StillPending(o) /\ Decide(o, to)
  /\ \/ Release(S) /\ UNCHANGED <<asking, stranded>> /\ NoFault
     \/ /\ ReleaseFails(S) /\ stranded' = stranded \cup {o}
        /\ UNCHANGED asking \/ asking' = {}
  /\ UNCHANGED <<linked, promised>>

\* mark_purchase_cancelled: the seats of the rows A to J are released, if the
\* payment context is still there to name them.
Drop(o) ==
  Settle(o, "cancelled", IF o \in linked \ stranded THEN Selected[o] \ Preferential ELSE {})

Cancel(o) == Drop(o) /\ UNCHANGED returned

\* The conflict query of confirm_purchase_from_payment, by showtime_id or by
\* film, date and time; it leaves GENERAL-n out.
Conflict(o) ==
  \E p \in Orders \ {o}, s \in Selected[o] :
    Sold(p, s) /\ (o \in linked => p \in linked)

\* ix_ticket_showtime_seat refuses the tickets.
IndexRefuses(o) ==
  o \in linked /\ \E p \in linked \ {o} : \E l \in Labels[o] : Sold(p, l)

\* The payment is approved, but the tickets cannot be issued: it is returned.
TurnAway(o) ==
  /\ Conflict(o) \/ IndexRefuses(o)
  /\ Drop(o) /\ returned' = returned \cup {o}

\* The tickets are issued and the holds of their seats are released.
Confirm(o) ==
  /\ ~Conflict(o) /\ ~IndexRefuses(o)
  /\ Settle(o, "confirmed", IF o \in linked THEN Selected[o] ELSE {})
  /\ UNCHANGED returned

\* The owner cancels a confirmed purchase: its tickets are cancelled.
GiveBack(o) ==
  /\ status[o] = "confirmed" /\ Decide(o, "refunded")
  /\ UNCHANGED <<linked, holdVars, asking, promised, returned, stranded, faults>>

\* Redis deletes the holds whose time is over.
Tick ==
  /\ hold' = [s \in Seats |-> IF ttl[s] = 1 THEN Nobody ELSE hold[s]]
  /\ ttl' = [s \in Seats |-> IF ttl[s] > 0 THEN ttl[s] - 1 ELSE 0]
  /\ promised' = [o \in Orders |-> IF promised[o] > 0 THEN promised[o] - 1 ELSE 0]
  /\ UNCHANGED <<status, linked, asking, returned, stranded, faults>>

Init ==
  /\ status = [o \in Orders |-> "none"]
  /\ linked = {} /\ asking = {} /\ returned = {} /\ stranded = {}
  /\ hold = [s \in Seats |-> Nobody]
  /\ ttl = [s \in Seats |-> 0]
  /\ promised = [o \in Orders |-> 0]
  /\ faults = 0

Next ==
  \/ \E o \in Orders :
       \/ Ask(o) \/ Open(o) \/ OpenFails(o) \/ OpenGeneral(o) \/ OpenUnlinked(o) \/ Refuse(o)
       \/ LoseContext(o) \/ Cancel(o) \/ TurnAway(o) \/ Confirm(o) \/ GiveBack(o)
  \/ Crash \/ Tick

Spec == Init /\ [][Next]_vars

\* Only the clock is bound to go on.
FairSpec == Spec /\ WF_vars(Tick)
-------------------------------------------------------------------------------
TypeOK ==
  /\ status \in [Orders -> Status]
  /\ linked \subseteq Orders /\ asking \subseteq Orders /\ returned \subseteq Orders
  /\ stranded \subseteq Orders
  /\ hold \in [Seats -> Orders \cup {Nobody, Request}]
  /\ ttl \in [Seats -> 0..HoldTTL] /\ promised \in [Orders -> 0..HoldTTL]
  /\ faults \in 0..MaxFaults

\* A hold and its time go together: a seat is never held without a time limit,
\* which would take it out of sale for ever (reassign_hold keeps the TTL).
HeldSeatsExpire == \A s \in Seats : hold[s] # Nobody <=> ttl[s] > 0

\* The holds of an order go with it: none of its seats is still kept for it once
\* it is confirmed or cancelled, unless a fault hit this very order: Redis failed
\* or the process died at its decision, or its context had been lost.  Faults of
\* others do not matter.  (mark_purchase_cancelled leaves out the rows K to P.)
HoldsServePending ==
  \A s \in Seats \ Preferential :
    hold[s] \in Orders \ stranded => status[hold[s]] = "pending"

\* Every hold ends, so that a request that died does not keep a seat for ever.
SeatsComeBack == \A s \in Seats : hold[s] # Nobody ~> hold[s] = Nobody

\* The orders with showtime_id live as BoxOffice promises, refunds and sales of
\* the same seat afterwards included, whatever the others do.
Office == INSTANCE BoxOffice WITH
  Orders <- Orders \ Unlinkable, Seats <- Seats \cup {General},
  SeatsOf <- [o \in Orders \ Unlinkable |-> Labels[o]],
  order <- [o \in Orders \ Unlinkable |-> status[o]]
ImplementsBoxOffice == Office!Spec
-------------------------------------------------------------------------------
(* What the texts of the repository say and the code does not do; each one *)
(* is refuted by a run.                                                    *)

\* config.py:80 the seats are kept while the inventory decides and the customer
\* pays: nobody else is sent to pay for them meanwhile.
OneBuyerPerSeat ==
  \A o, p \in linked :
    /\ status[o] = "pending" /\ promised[o] > 0
    /\ status[p] = "pending" /\ promised[p] > 0
    /\ Selected[o] \cap Selected[p] # {}
    => o = p

\* booking.py:790 who is turned away by the unique index lost the seat to another
\* purchase.
TurnedAwayForASeat ==
  [][\A o \in returned' \ returned :
       \E p \in Orders \ {o} : \E s \in Selected[o] : Sold(p, s)]_vars
=============================================================================
