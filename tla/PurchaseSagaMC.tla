--------------------------- MODULE PurchaseSagaMC ---------------------------
(* Small instances of PurchaseSaga for TLC.                                *)
EXTENDS PurchaseSaga, TLC

\* Every order asks for the only seat.
OneSeat == [o \in Orders |-> Seats]

\* The orders are for different functions: no seat of one is a seat of another.
NoSeats == [o \in Orders |-> {}]

\* Orders are interchangeable in the runs whose properties are safety.
OrderSymmetry == Permutations(Orders)
=============================================================================
