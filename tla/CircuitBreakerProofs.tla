------------------------- MODULE CircuitBreakerProofs -------------------------
(***************************************************************************)
(* Safety of the circuit breaker for any number of callers, any threshold  *)
(* and recovery time, and any number of faults.  The key of failures lies  *)
(* between two histories: it counts no failure that came before the last   *)
(* success it was told of, and each fault hides at most one failure of     *)
(* those in a row from it.                                                 *)
(***************************************************************************)
EXTENDS CircuitBreaker, TLAPS

\* What the keys rest on.
CountsAgree ==
  /\ failures <= uncleared
  /\ streak <= failures + faults
  /\ tripped => uncleared >= Threshold
  /\ ~tripped => streak < Threshold + faults

\* TypeOK but for tripped, which needs no arithmetic.
Numbers ==
  /\ failures \in 0..Limit /\ left \in 0..Recovery
  /\ calling \subseteq Callers
  /\ streak \in 0..Limit /\ uncleared \in 0..Limit /\ faults \in 0..MaxFaults

BreakerInvariant == TypeOK /\ CountsAgree

LEMMA SwitchKept == BreakerInvariant /\ [Next]_vars => tripped' \in BOOLEAN
<1> SUFFICES ASSUME tripped \in BOOLEAN, [Next]_vars PROVE tripped' \in BOOLEAN
  BY DEF BreakerInvariant, TypeOK
<1>1. CASE UNCHANGED tripped
  BY <1>1
<1>2. ASSUME NEW count, NEW open \in BOOLEAN, NEW time,
             RecordFailure(count, open, time) \/ LoseFailure(count, open, time)
      PROVE  tripped' \in BOOLEAN
  BY <1>2, Zenon DEF RecordFailure, LoseFailure
<1>3. ASSUME RecordSuccess PROVE tripped' \in BOOLEAN
  BY <1>3 DEF RecordSuccess
<1>4. ASSUME NEW c \in Callers, Succeed(c) PROVE tripped' \in BOOLEAN
  BY <1>1, <1>3, <1>4 DEF Succeed, LoseSuccess, redisVars
<1>5. ASSUME NEW c \in Callers, Fail(c) PROVE tripped' \in BOOLEAN
  BY <1>2, <1>5 DEF Fail
<1>6. ASSUME NEW c \in Callers, BadBody(c) PROVE tripped' \in BOOLEAN
  BY <1>2, <1>6 DEF BadBody
<1>7. CASE Crash
  BY <1>1, <1>2, <1>3, <1>7 DEF Crash, LoseSuccess, redisVars
<1> QED
  BY <1>1, <1>4, <1>5, <1>6, <1>7 DEF Next, vars, redisVars, Call, Rejected, Tick

\* A failure adds one to the histories; Redis keeps up, or a fault is counted.
LEMMA FailureKeeps ==
  ASSUME Numbers, CountsAgree, tripped \in BOOLEAN, Failed,
         \/ RecordFailure(failures, tripped, left) /\ NoFault
         \/ LoseFailure(failures, tripped, left) /\ Fault
  PROVE  /\ failures' \in 0..Limit /\ left' \in 0..Recovery
         /\ streak' \in 0..Limit /\ uncleared' \in 0..Limit /\ faults' \in 0..MaxFaults
         /\ CountsAgree'
<1> USE BreakerConstants DEF Numbers, CountsAgree, AtMost, Limit, Failed, Incremented
<1>1. CASE LoseFailure(failures, tripped, left) /\ Fault
  <2>1. (failures' = failures \/ failures' = AtMost(failures + 1)) /\ faults' = faults + 1 /\ faults < MaxFaults
        /\ left' = left
    BY <1>1 DEF LoseFailure, Fault
  <2>2. tripped' <=> tripped
    BY <1>1, Zenon DEF LoseFailure
  <2> QED BY <2>1, <2>2
<1>2. CASE RecordFailure(failures, tripped, left) /\ NoFault
  <2>1. failures' = AtMost(failures + 1) /\ faults' = faults /\ (left' = left \/ left' = Recovery)
    BY <1>2 DEF RecordFailure, OpenFor, NoFault
  <2>2. Trips(Incremented(failures)) => tripped'
    BY <1>2, Zenon DEF RecordFailure
  <2>3. ~Trips(Incremented(failures)) => (tripped' <=> tripped)
    BY <1>2, Zenon DEF RecordFailure
  <2>4. Trips(Incremented(failures)) <=> AtMost(failures + 1) >= Threshold
    BY DEF Trips
  <2> QED BY <2>1, <2>2, <2>3, <2>4
<1> QED BY <1>1, <1>2

LEMMA NextKeeps == BreakerInvariant /\ [Next]_vars => BreakerInvariant'
<1> DEFINE Goal == Numbers' /\ CountsAgree'
<1> SUFFICES ASSUME Numbers, CountsAgree, tripped \in BOOLEAN, [Next]_vars PROVE Goal
  BY SwitchKept DEF BreakerInvariant, TypeOK, Numbers
<1> USE BreakerConstants DEF Numbers, CountsAgree, AtMost, Limit, redisVars, history
<1>1. ASSUME NEW c \in Callers, Call(c) PROVE Goal
  BY <1>1 DEF Call, NoFault, Fault
<1>2. ASSUME NEW c \in Callers, Succeed(c) PROVE Goal
  BY <1>2 DEF Succeed, Return, RecordSuccess, LoseSuccess, NoFault, Fault
<1>3. ASSUME NEW c \in Callers, Fail(c) PROVE Goal
  BY <1>3, FailureKeeps DEF Fail, Return
<1>4. ASSUME NEW c \in Callers, BadBody(c) PROVE Goal
  <2>1. streak' = 1 /\ calling' \subseteq calling
    BY <1>4 DEF BadBody, Return
  <2>2. CASE uncleared' = 1 /\ RecordFailure(0, FALSE, 0) /\ NoFault
    <3>1. failures' = 1 /\ faults' = faults /\ (left' = 0 \/ left' = Recovery)
      BY <2>2 DEF RecordFailure, Incremented, OpenFor, NoFault
    <3>2. tripped' <=> Trips(Incremented(0))
      BY <2>2, Zenon DEF RecordFailure
    <3> QED BY <2>1, <2>2, <3>1, <3>2 DEF Trips, Incremented
  <2>3. CASE uncleared' = 1 /\ LoseFailure(0, FALSE, 0) /\ Fault
    <3>1. ~tripped' /\ (failures' = 0 \/ failures' = 1) /\ left' = 0
      BY <2>3 DEF LoseFailure, Incremented
    <3> QED BY <2>1, <2>3, <3>1 DEF Fault
  <2>4. CASE /\ uncleared' = AtMost(uncleared + 1) /\ Fault
             /\ \/ RecordFailure(failures, tripped, left)
                \/ LoseFailure(failures, tripped, left)
    <3>1. (failures' = failures \/ failures' = AtMost(failures + 1)) /\ (left' = left \/ left' = Recovery)
      BY <2>4 DEF RecordFailure, LoseFailure, Incremented, OpenFor
    <3>2. tripped' => tripped \/ (Trips(Incremented(failures)) /\ failures' = Incremented(failures))
      BY <2>4, Zenon DEF RecordFailure, LoseFailure
    <3>3. faults' = faults + 1 /\ faults < MaxFaults /\ uncleared' = AtMost(uncleared + 1)
      BY <2>4 DEF Fault
    <3>4. tripped' => tripped \/ (failures' = AtMost(failures + 1) /\ failures' >= Threshold)
      BY <3>1, <3>2 DEF Trips, Incremented
    <3>5. tripped' => uncleared' >= Threshold
      BY <3>3, <3>4
    <3> QED BY <2>1, <3>1, <3>3, <3>5
  <2> QED BY <1>4, <2>2, <2>3, <2>4 DEF BadBody
<1>5. ASSUME NEW c \in Callers, Rejected(c) PROVE Goal
  BY <1>5 DEF Rejected, Return, NoFault
<1>6. CASE Crash
  <2>1. CASE UNCHANGED <<redisVars, history>>
    BY <1>6, <2>1 DEF Crash, Fault
  <2>2. CASE streak' = 0 /\ (RecordSuccess \/ LoseSuccess)
    BY <1>6, <2>2 DEF Crash, Fault, RecordSuccess, LoseSuccess
  <2>3. CASE Failed /\ LoseFailure(failures, tripped, left)
    BY <1>6, <2>3, FailureKeeps DEF Crash
  <2> QED BY <1>6, <2>1, <2>2, <2>3 DEF Crash
<1>7. CASE Tick
  BY <1>7 DEF Tick
<1>8. CASE UNCHANGED vars
  BY <1>8 DEF vars
<1> HIDE DEF Goal
<1> QED BY <1>1, <1>2, <1>3, <1>4, <1>5, <1>6, <1>7, <1>8 DEF Next

LEMMA InvariantHolds == Spec => []BreakerInvariant
<1>1. Init => BreakerInvariant
  <2>1. Init => tripped \in BOOLEAN /\ ~tripped
    BY Zenon DEF Init
  <2>2. Init => Numbers /\ (~tripped => CountsAgree)
    BY BreakerConstants DEF Init, Numbers, CountsAgree, Limit
  <2> QED BY <2>1, <2>2 DEF BreakerInvariant, TypeOK, Numbers
<1> QED BY <1>1, NextKeeps, PTL DEF Spec

\* The keys, the callers and the counters keep their types and bounds.
THEOREM TypeCorrect == Spec => []TypeOK
BY InvariantHolds, PTL DEF BreakerInvariant

\* The circuit refuses a call only after FAILURE_THRESHOLD failures since the last
\* success it was told of, with any number of callers whose answers overlap,
\* restarts and failures of Redis.
THEOREM OpensForFailures == Spec => []OpenAfterFailures
<1>1. BreakerInvariant => OpenAfterFailures
  BY DEF BreakerInvariant, CountsAgree, OpenAfterFailures, IsOpen
<1> QED BY <1>1, InvariantHolds, PTL

\* FAILURE_THRESHOLD failures in a row trip the circuit, and one more for every
\* restart or failure of Redis since the service began.
THEOREM NoticesOutages == Spec => []OutageNoticed
<1>1. BreakerInvariant => OutageNoticed
  BY BreakerConstants DEF BreakerInvariant, TypeOK, CountsAgree, Limit, OutageNoticed
<1> QED BY <1>1, InvariantHolds, PTL
=============================================================================
