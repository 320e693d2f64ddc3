---------------------------- MODULE SeatHoldsMC ----------------------------
(* Small instances of SeatHolds for TLC.                                   *)
EXTENDS SeatHolds, TLC

CONSTANTS o1, o2, o3, o4, s1, s2

\* o2 competes with o1 for one seat and with o3 for the other; o4 chooses none.
Overlapping == o1 :> {s1} @@ o2 :> {s1, s2} @@ o3 :> {s2} @@ o4 :> {}

\* Everybody wants the same seat.
SameSeat == [o \in Orders |-> Seats]

\* Nobody chooses a seat.
GeneralAdmission == [o \in Orders |-> {}]
=============================================================================
