---------------------------- MODULE CircuitBreaker ----------------------------
(***************************************************************************)
(* The circuit breaker of the refund calls: call_refund_service and the    *)
(* two Redis keys of app/core/circuit_breaker.py, which the consumer, the  *)
(* reconciler and the requests share.  A caller waits for payment-service  *)
(* between its check and what it records; the rest of a call is one step.  *)
(* A Redis that does not answer reads as a closed circuit, and what was to *)
(* be recorded is lost in silence, wholly or after its first command; such *)
(* faults and restarts are counted and bounded by MaxFaults.               *)
(***************************************************************************)
EXTENDS Naturals, FiniteSets

CONSTANTS
  Callers,      \* tasks that may call payment-service at the same time
  Threshold,    \* FAILURE_THRESHOLD
  Recovery,     \* RECOVERY_TIMEOUT, in ticks
  MaxFaults     \* bound of the model

ASSUME BreakerConstants ==
  /\ IsFiniteSet(Callers) /\ Threshold \in Nat \ {0} /\ Recovery \in Nat \ {0}
  /\ MaxFaults \in Nat

VARIABLES
  failures,   \* cb:payment:failures, up to Limit; no key reads as 0
  tripped,    \* the key cb:payment:open_until exists
  left,       \* ticks until open_until; 0 when it has passed
  calling,    \* callers that wait for payment-service
  streak,     \* history: failures in a row, since the last success
  uncleared,  \* history: failures since the last success that Redis was told of
  faults

redisVars == <<failures, tripped, left>>
history   == <<streak, uncleared>>
vars == <<redisVars, calling, history, faults>>

\* Counting further tells nothing apart that a property speaks of.
Limit == Threshold + MaxFaults + 1
AtMost(n) == IF n < Limit THEN n ELSE Limit

IsOpen == tripped /\ left > 0

AlwaysPasses == TRUE               \* mutant: the circuit is not looked at
Passes == ~IsOpen
-------------------------------------------------------------------------------
Fault == faults < MaxFaults /\ faults' = faults + 1
NoFault == UNCHANGED faults

\* A caller passes the check and waits for the answer of payment-service.
Call(c) ==
  /\ c \notin calling
  /\ \/ Passes /\ NoFault
     \/ IsOpen /\ Fault
  /\ calling' = calling \cup {c}
  /\ UNCHANGED <<redisVars, history>>

\* record_success deletes both keys, or fails without a word.
RecordSuccess == failures' = 0 /\ tripped' = FALSE /\ left' = 0 /\ uncleared' = 0
LoseSuccess   == UNCHANGED <<redisVars, uncleared>>

\* record_failure, on the keys as it finds them: INCR, then SET open_until once
\* the threshold is reached.
StartAgain(count) == 1             \* mutant: the earlier failures are forgotten
Incremented(count) == AtMost(count + 1)

TripEarly(count) == count >= Threshold - 1       \* mutant: off by one
Trips(count) == count >= Threshold

Prolonged == left + Recovery       \* mutant: counted from the old open_until
OpenFor == Recovery

RecordFailure(count, open, time) ==
  /\ failures' = Incremented(count)
  /\ \/ Trips(Incremented(count)) /\ tripped' = TRUE /\ left' = OpenFor
     \/ ~Trips(Incremented(count)) /\ tripped' = open /\ left' = time

\* It fails at the INCR, or between the INCR and the SET.
LoseFailure(count, open, time) ==
  /\ failures' \in {count, Incremented(count)}
  /\ tripped' = open /\ left' = time

Return(c) == c \in calling /\ calling' = calling \ {c}

\* 2xx
Succeed(c) ==
  /\ Return(c) /\ streak' = 0
  /\ \/ RecordSuccess /\ NoFault
     \/ LoseSuccess /\ Fault

\* 5xx, a timeout, no connection.
Failed == streak' = AtMost(streak + 1) /\ uncleared' = AtMost(uncleared + 1)

Fail(c) ==
  /\ Return(c) /\ Failed
  /\ \/ RecordFailure(failures, tripped, left) /\ NoFault
     \/ LoseFailure(failures, tripped, left) /\ Fault

\* 2xx with a body that is not JSON: the success is recorded, then the failure.
BadBody(c) ==
  /\ Return(c) /\ streak' = 1
  /\ \/ /\ uncleared' = 1
        /\ \/ RecordFailure(0, FALSE, 0) /\ NoFault
           \/ LoseFailure(0, FALSE, 0) /\ Fault
     \/ /\ uncleared' = AtMost(uncleared + 1) /\ Fault
        /\ \/ RecordFailure(failures, tripped, left)
           \/ LoseFailure(failures, tripped, left)

\* 4xx: the caller gets an error, nothing is recorded.
Rejected(c) == Return(c) /\ UNCHANGED <<redisVars, history>> /\ NoFault

\* The process dies: while its callers wait, or when one of them had an answer.
Crash ==
  /\ Fault
  /\ calling # {} /\ calling' = {}
  /\ \/ UNCHANGED <<redisVars, history>>
     \/ streak' = 0 /\ (RecordSuccess \/ LoseSuccess)
     \/ Failed /\ LoseFailure(failures, tripped, left)

Tick ==
  /\ left > 0 /\ left' = left - 1
  /\ UNCHANGED <<failures, tripped, calling, history, faults>>

Init ==
  /\ failures = 0 /\ tripped = FALSE /\ left = 0
  /\ calling = {} /\ streak = 0 /\ uncleared = 0 /\ faults = 0

Next ==
  \/ \E c \in Callers : Call(c) \/ Succeed(c) \/ Fail(c) \/ BadBody(c) \/ Rejected(c)
  \/ Crash \/ Tick

Spec == Init /\ [][Next]_vars

\* Time goes on.  Nobody has to call, and payment-service need not answer.
FairSpec == Spec /\ WF_vars(Tick)
-------------------------------------------------------------------------------
TypeOK ==
  /\ failures \in 0..Limit /\ tripped \in BOOLEAN /\ left \in 0..Recovery
  /\ calling \subseteq Callers
  /\ streak \in 0..Limit /\ uncleared \in 0..Limit /\ faults \in 0..MaxFaults

\* Calls are refused only after Threshold failures with no success among them that
\* Redis was told of, however the answers of concurrent calls, restarts and
\* failures of Redis interleave.  (Not for failures in a row, as the comment of
\* FAILURE_THRESHOLD says: a success whose DEL fails does not clear the count.)
OpenAfterFailures == IsOpen => uncleared >= Threshold

\* An outage is noticed: after Threshold failures in a row the circuit has been
\* tripped, and every restart and failure of Redis puts that off by one failure at
\* most.  It stays tripped until a call succeeds, so that one failed probe opens
\* it again.
OutageNoticed == streak >= Threshold + faults => tripped

\* The circuit does not stay open for ever: the calls that were under way when
\* it opened can put the time off, but no new one can.
OpenEnds == IsOpen ~> ~IsOpen
=============================================================================
