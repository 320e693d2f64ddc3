----------------------------- MODULE TicketDeskMC -----------------------------
(* Small instances of TicketDesk for TLC.                                  *)
EXTENDS TicketDesk, TLC

CONSTANTS o1, o2, o3, s1, s2

\* o1 wants a seat, the others want it together with a second one.
Overlapping == o1 :> {s1} @@ o2 :> {s1, s2} @@ o3 :> {s1, s2}

\* Everybody wants every seat.
SameSeats == [o \in Orders |-> Seats]
=============================================================================
