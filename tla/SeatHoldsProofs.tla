---------------------------- MODULE SeatHoldsProofs ----------------------------
(***************************************************************************)
(* Safety of the seat holds for any orders, seats and duration of a hold,  *)
(* and any number of faults; and the proof that  the orders with           *)
(* showtime_id behave as BoxOffice promises.                               *)
(***************************************************************************)
EXTENDS SeatHolds, TLAPS

\* The rows: status and linked.
RowTypes ==
  /\ status \in [Orders -> Status]
  /\ linked \subseteq Orders /\ asking \subseteq Orders /\ returned \subseteq Orders
  /\ stranded \subseteq Orders
\* Redis, the clock and the faults.
HoldTypes ==
  /\ hold \in [Seats -> Orders \cup {Nobody, Request}]
  /\ ttl \in [Seats -> 0..HoldTTL] /\ promised \in [Orders -> 0..HoldTTL]
  /\ faults \in 0..MaxFaults

\* An order that asks has no row yet, and a row that is linked for certain is
\* linked from its insert on.
RowsAgree ==
  /\ \A o \in asking : status[o] = "none" /\ Selected[o] # {}
  /\ \A o \in Orders \ Unlinkable : status[o] # "none" => o \in linked
  /\ \A o \in linked : status[o] # "none"

\* A hold belongs to an order that selected the seat and has a showtime_id, so
\* that the release by its context, which names the selected seats, finds it.
HoldersSelected ==
  \A s \in Seats : hold[s] \in Orders => s \in Selected[hold[s]] /\ hold[s] \in linked

HoldInvariant ==
  /\ RowTypes /\ HoldTypes /\ RowsAgree /\ HoldersSelected
  /\ HeldSeatsExpire /\ HoldsServePending

\* What a step does to the rows, the holds and the rest is looked at by itself.
LEMMA RowsKept == ASSUME RowTypes, RowsAgree, [Next]_vars PROVE RowTypes' /\ RowsAgree'
<1> USE HoldConstants DEF RowTypes, RowsAgree, Status
<1>1. ASSUME NEW o \in Orders, Ask(o) \/ Refuse(o) \/ LoseContext(o) PROVE RowTypes' /\ RowsAgree'
  BY <1>1 DEF Ask, Refuse, LoseContext
<1>2. ASSUME NEW o \in Orders, Open(o) \/ OpenFails(o) \/ OpenGeneral(o) \/ OpenUnlinked(o)
      PROVE  RowTypes' /\ RowsAgree'
  BY <1>2 DEF Open, OpenFails, Acquired, OpenGeneral, OpenUnlinked, Accept, Insert
<1>3. ASSUME NEW o \in Orders, NEW to \in {"cancelled", "confirmed"}, NEW S,
             Settle(o, to, S), returned' \subseteq Orders
      PROVE  RowTypes' /\ RowsAgree'
  BY <1>3 DEF Settle, StillPending, Decide
<1>4. ASSUME NEW o \in Orders, Cancel(o) \/ TurnAway(o) \/ Confirm(o)
      PROVE  RowTypes' /\ RowsAgree'
  BY <1>3, <1>4 DEF Cancel, TurnAway, Confirm, Drop
<1>5. ASSUME NEW o \in Orders, GiveBack(o) PROVE RowTypes' /\ RowsAgree'
  BY <1>5 DEF GiveBack, Decide
<1>6. CASE Crash \/ Tick \/ UNCHANGED vars
  BY <1>6 DEF Crash, Tick, vars
<1> QED BY <1>1, <1>2, <1>4, <1>5, <1>6 DEF Next

\* The two ways a step writes holds: seats get an owner with a time, or none.
LEMMA TakeKeeps ==
  ASSUME HoldTypes, HeldSeatsExpire, NEW o \in Orders \cup {Request}, NEW S \in SUBSET Seats,
         NEW R \in SUBSET S, Take(o, S, R)
  PROVE  /\ hold' \in [Seats -> Orders \cup {Nobody, Request}] /\ ttl' \in [Seats -> 0..HoldTTL]
         /\ HeldSeatsExpire'
         /\ \A s \in Seats : hold'[s] = hold[s] \/ (s \in S /\ hold'[s] \in {o, Request})
  BY HoldConstants DEF HoldTypes, HeldSeatsExpire, Take

LEMMA ReleaseKeeps ==
  ASSUME HoldTypes, HeldSeatsExpire, NEW S, Release(S)
  PROVE  /\ hold' \in [Seats -> Orders \cup {Nobody, Request}] /\ ttl' \in [Seats -> 0..HoldTTL]
         /\ HeldSeatsExpire'
         /\ \A s \in Seats : hold'[s] = (IF s \in S THEN Nobody ELSE hold[s])
  BY HoldConstants DEF HoldTypes, HeldSeatsExpire, Release

\* A request that ends without a row leaves holds of no order.
LEMMA LeaveKeeps ==
  ASSUME RowTypes, HoldTypes, HeldSeatsExpire, NEW o \in Orders, Leave(o)
  PROVE  /\ hold' \in [Seats -> Orders \cup {Nobody, Request}] /\ ttl' \in [Seats -> 0..HoldTTL]
         /\ HeldSeatsExpire'
         /\ \A s \in Seats : hold'[s] \in Orders => hold'[s] = hold[s]
<1>1. PICK S \in SUBSET {s \in Selected[o] : Free(s)} : Take(Request, S, {})
  BY DEF Leave
<1>2. S \in SUBSET Seats /\ {} \in SUBSET S
  BY HoldConstants
<1> QED BY <1>1, <1>2, TakeKeeps, HoldConstants

\* A decision: whoever it concerns loses the holds of S, unless a fault cuts it.
LEMMA SettleKeeps ==
  ASSUME HoldInvariant, NEW o \in Orders, NEW to, NEW S, Settle(o, to, S),
         o \in linked \ stranded => Selected[o] \ Preferential \subseteq S
  PROVE  HoldTypes' /\ HoldersSelected' /\ HeldSeatsExpire' /\ HoldsServePending'
<1> USE HoldConstants DEF HoldInvariant, RowTypes, HoldTypes, HoldersSelected, HoldsServePending
<1>1. CASE Release(S) /\ UNCHANGED <<asking, stranded>> /\ NoFault
  BY <1>1, ReleaseKeeps DEF Settle, StillPending, Decide, NoFault
<1>2. CASE ReleaseFails(S) /\ stranded' = stranded \cup {o}
  <2>1. PICK T \in SUBSET S : Release(T)
    BY <1>2 DEF ReleaseFails
  <2>2. faults' \in 0..MaxFaults
    BY <1>2 DEF ReleaseFails, Fault
  <2>3. /\ status' = [status EXCEPT ![o] = to] /\ stranded' = stranded \cup {o}
        /\ UNCHANGED <<linked, promised>>
    BY <1>2 DEF Settle, Decide
  <2> QED BY <2>1, <2>2, <2>3, ReleaseKeeps
<1> QED BY <1>1, <1>2 DEF Settle

LEMMA HoldsKept ==
  ASSUME HoldInvariant, [Next]_vars
  PROVE  HoldTypes' /\ HoldersSelected' /\ HeldSeatsExpire' /\ HoldsServePending'
<1> DEFINE Goal == HoldTypes' /\ HoldersSelected' /\ HeldSeatsExpire' /\ HoldsServePending'
<1> SUFFICES Goal
  OBVIOUS
<1>0. RowTypes /\ HoldTypes /\ RowsAgree /\ HoldersSelected /\ HeldSeatsExpire /\ HoldsServePending
  BY DEF HoldInvariant
<1>f. ASSUME Fault \/ NoFault PROVE faults' \in 0..MaxFaults
  BY <1>0, <1>f, HoldConstants DEF Fault, NoFault, HoldTypes
<1>1. CASE (\E o \in Orders : Ask(o) \/ LoseContext(o)) \/ UNCHANGED vars
  BY <1>0, <1>1, <1>f
  DEF Ask, LoseContext, vars, holdVars, HoldTypes, HoldersSelected, HeldSeatsExpire, HoldsServePending
<1>2. ASSUME NEW o \in Orders, NEW S \in SUBSET Selected[o], NEW R \in SUBSET S, Take(o, S, R),
             faults' \in 0..MaxFaults, promised' \in [Orders -> 0..HoldTTL],
             status' = [status EXCEPT ![o] = "pending"], linked' = linked \cup {o},
             stranded \subseteq stranded'
      PROVE  Goal
  <2>1. S \in SUBSET Seats
    BY HoldConstants
  <2>2. /\ hold' \in [Seats -> Orders \cup {Nobody, Request}] /\ ttl' \in [Seats -> 0..HoldTTL]
        /\ HeldSeatsExpire'
        /\ \A s \in Seats : hold'[s] = hold[s] \/ (s \in S /\ hold'[s] \in {o, Request})
    BY <1>0, <1>2, <2>1, TakeKeeps
  <2>3. \A s \in Seats : hold'[s] \in Orders => hold'[s] = hold[s] \/ (s \in Selected[o] /\ hold'[s] = o)
    BY <2>2, HoldConstants
  <2>4. HoldTypes'
    BY <1>2, <2>2 DEF HoldTypes
  <2>5. HoldersSelected'
    BY <1>0, <1>2, <2>3 DEF HoldersSelected
  <2>6. HoldsServePending'
    BY <1>0, <1>2, <2>3 DEF HoldsServePending, RowTypes
  <2> QED BY <2>2, <2>4, <2>5, <2>6
<1>3. ASSUME NEW o \in Orders, Open(o) PROVE Goal
  <2>1. PICK R \in SUBSET Selected[o] : Take(o, Selected[o], R)
    BY <1>3 DEF Open
  <2>2. /\ faults' \in 0..MaxFaults /\ promised' \in [Orders -> 0..HoldTTL]
        /\ status' = [status EXCEPT ![o] = "pending"] /\ linked' = linked \cup {o}
        /\ stranded \subseteq stranded'
    BY <1>0, <1>3, <1>f, HoldConstants DEF Open, Accept, Insert, HoldTypes
  <2> QED BY <1>2, <2>1, <2>2
<1>4. ASSUME NEW o \in Orders, OpenFails(o) PROVE Goal
  <2>1. PICK T \in SUBSET Selected[o] : Take(o, T, {})
    BY <1>4 DEF OpenFails
  <2>2. /\ faults' \in 0..MaxFaults /\ promised' \in [Orders -> 0..HoldTTL]
        /\ status' = [status EXCEPT ![o] = "pending"] /\ linked' = linked \cup {o}
        /\ stranded \subseteq stranded'
    BY <1>0, <1>4, <1>f, HoldConstants DEF OpenFails, Insert, HoldTypes
  <2> QED BY <1>2, <2>1, <2>2
<1>5. ASSUME NEW o \in Orders, OpenGeneral(o) \/ OpenUnlinked(o) PROVE Goal
  BY <1>0, <1>5, HoldConstants DEF OpenGeneral, OpenUnlinked, Accept, Insert, holdVars, RowTypes,
     HoldTypes, HoldersSelected, HeldSeatsExpire, HoldsServePending
<1>6. ASSUME NEW o \in Orders, Cancel(o) \/ TurnAway(o) \/ Confirm(o) PROVE Goal
  BY <1>6, SettleKeeps DEF Cancel, TurnAway, Confirm, Drop
<1>7. ASSUME NEW o \in Orders, GiveBack(o) PROVE Goal
  BY <1>0, <1>7 DEF GiveBack, Decide, holdVars, RowTypes, HoldTypes, HoldersSelected,
     HeldSeatsExpire, HoldsServePending
<1>8. ASSUME (\E o \in Orders : Refuse(o)) \/ Crash PROVE Goal
  <2>1. faults' \in 0..MaxFaults /\ UNCHANGED <<status, linked, promised, stranded>>
    BY <1>8, <1>f DEF Refuse, Crash
  <2>2. CASE UNCHANGED holdVars
    BY <1>0, <2>1, <2>2 DEF holdVars, HoldTypes, HoldersSelected, HeldSeatsExpire, HoldsServePending
  <2>3. ASSUME NEW o \in Orders, Leave(o) PROVE Goal
    BY <1>0, <2>1, <2>3, LeaveKeeps, HoldConstants DEF HoldTypes, HoldersSelected, HoldsServePending
  <2>4. asking \subseteq Orders
    BY <1>0 DEF RowTypes
  <2> QED BY <1>8, <2>2, <2>3, <2>4 DEF Refuse, Crash
<1>9. CASE Tick
  BY <1>0, <1>9, HoldConstants DEF Tick, HoldTypes, HoldersSelected, HeldSeatsExpire, HoldsServePending
<1> HIDE DEF Goal
<1> QED BY <1>1, <1>3, <1>4, <1>5, <1>6, <1>7, <1>8, <1>9 DEF Next

LEMMA InvariantHolds == Spec => []HoldInvariant
<1>1. Init => HoldInvariant
  BY HoldConstants DEF Init, HoldInvariant, RowTypes, HoldTypes, RowsAgree, HoldersSelected,
     HeldSeatsExpire, HoldsServePending, Status
<1>2. HoldInvariant /\ [Next]_vars => HoldInvariant'
  BY RowsKept, HoldsKept DEF HoldInvariant
<1> QED BY <1>1, <1>2, PTL DEF Spec

\* Rows, holds and times keep their types and bounds.
THEOREM TypeCorrect == Spec => []TypeOK
<1>1. HoldInvariant => TypeOK
  BY DEF HoldInvariant, RowTypes, HoldTypes, TypeOK
<1> QED BY <1>1, InvariantHolds, PTL

\* Redis never keeps a seat without a time limit, whatever is held, reassigned
\* and released, whatever dies and whichever of these calls Redis fails.
THEOREM HoldsExpire == Spec => []HeldSeatsExpire
BY InvariantHolds, PTL DEF HoldInvariant

\* No seat of the rows A to J is kept for an order that was decided, unless Redis
\* failed or the process died at that decision or the context was gone before.
THEOREM HoldsFollowOrders == Spec => []HoldsServePending
BY InvariantHolds, PTL DEF HoldInvariant
-------------------------------------------------------------------------------
\* What a step does to the rows that are linked for certain.
LEMMA NextSimulates ==
  ASSUME RowTypes, RowsAgree, [Next]_vars
  PROVE  [Office!Next]_[o \in Orders \ Unlinkable |-> status[o]]
<1> DEFINE Sure == Orders \ Unlinkable
           order == [o \in Sure |-> status[o]]
<1> USE DEF RowTypes, RowsAgree
<1>1. ASSUME NEW o \in Orders, NEW from, NEW to,
             status[o] = from, status' = [status EXCEPT ![o] = to]
      PROVE  \/ o \in Unlinkable /\ UNCHANGED order
             \/ o \in Sure /\ Office!Move(o, from, to)
  BY <1>1 DEF Office!Move
<1>2. ASSUME NEW o \in Orders, Open(o) \/ OpenFails(o) \/ OpenGeneral(o) \/ OpenUnlinked(o)
      PROVE  Office!Next \/ UNCHANGED order
  <2>1. status[o] = "none" /\ status' = [status EXCEPT ![o] = "pending"]
    BY <1>2 DEF Open, OpenFails, Acquired, OpenGeneral, OpenUnlinked, Accept, Insert
  <2> QED BY <1>1, <2>1 DEF Office!Next, Office!Open
<1>3. ASSUME NEW o \in Orders, Cancel(o) \/ TurnAway(o) PROVE Office!Next \/ UNCHANGED order
  <2>1. status[o] = "pending" /\ status' = [status EXCEPT ![o] = "cancelled"]
    BY <1>3 DEF Cancel, TurnAway, Drop, Settle, StillPending, Decide
  <2> QED BY <1>1, <2>1 DEF Office!Next, Office!Drop
<1>4. ASSUME NEW o \in Orders, Confirm(o) PROVE Office!Next \/ UNCHANGED order
  <2>1. status[o] = "pending" /\ status' = [status EXCEPT ![o] = "confirmed"]
    BY <1>4 DEF Confirm, Settle, StillPending, Decide
  <2>2. ASSUME o \in Sure, NEW p \in Sure, order[p] = "confirmed" PROVE ~Office!Clash(o, p)
    BY <1>4, <2>1, <2>2 DEF Confirm, IndexRefuses, Sold, Office!Clash
  <2> QED BY <1>1, <2>1, <2>2 DEF Office!Next, Office!Sell
<1>5. ASSUME NEW o \in Orders, GiveBack(o) PROVE Office!Next \/ UNCHANGED order
  BY <1>1, <1>5 DEF GiveBack, Decide, Office!Next, Office!GiveBack
<1>6. CASE (\E o \in Orders : Ask(o) \/ Refuse(o) \/ LoseContext(o)) \/ Crash \/ Tick \/ UNCHANGED vars
  BY <1>6 DEF Ask, Refuse, LoseContext, Crash, Tick, vars
<1> QED BY <1>2, <1>3, <1>4, <1>5, <1>6 DEF Next

\* Orders with showtime_id live as BoxOffice promises: the conflict query and the
\* unique index together never let a seat be sold twice, whatever the holds do.
THEOREM HoldsImplementBoxOffice == Spec => ImplementsBoxOffice
<1>1. Init => Office!Init
  BY DEF Init, Office!Init
<1>2. HoldInvariant => RowTypes /\ RowsAgree
  BY DEF HoldInvariant
<1> QED
  BY <1>1, <1>2, NextSimulates, InvariantHolds, PTL DEF Spec, ImplementsBoxOffice, Office!Spec
=============================================================================
