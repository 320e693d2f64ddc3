-------------------------- MODULE PurchaseSagaProofs --------------------------
(* Proofs about PurchaseSaga for any orders, seats, timeouts and faults.   *)
EXTENDS PurchaseSaga, TLAPS

\* A suspended task holds an order and the message it is handling, if any.
LEMMA TaskTypes ==
  ASSUME FlowTypes, NEW t \in Tasks, task[t].at # "idle"
  PROVE  /\ task[t] \in Suspended
         /\ task[t].order \in Orders /\ task[t].msg \in Messages \cup {NoMessage}
BY DEF FlowTypes, Suspended, Idle

\* However a handler waits, ends or is cut, the tasks and the pass keep their types.
LEMMA EndingTypes ==
  ASSUME FlowTypes, NEW t \in Tasks, NEW o \in Orders, NEW m \in Messages \cup {NoMessage},
         NEW w \in Awaits,
         Suspend(t, w, o, m) \/ Finish(t, o, m) \/ Interrupt(t, o, m) \/ Restart
  PROVE  FlowTypes'
<1>1. (task \in [Tasks -> {Idle} \cup Suspended])'
  BY DEF FlowTypes, Suspend, Finish, Commit, Interrupt, Raise, Restart, Suspended
<1>2. (pass \in [todo : SUBSET Orders, seen : [Orders -> PaymentStatus]])'
  BY DEF FlowTypes, Suspend, Finish, Leave, Interrupt, Raise, Restart, NoPass, PaymentStatus
<1>3. (inbox \subseteq Messages /\ due \in BOOLEAN /\ settled \subseteq Orders /\ escalated \subseteq Orders)'
  BY DEF FlowTypes, Suspend, Finish, Commit, Interrupt, Raise, Restart
<1> QED BY <1>1, <1>2, <1>3 DEF FlowTypes

LEMMA RestartTypes ==
  ASSUME FlowTypes, Restart
  PROVE  FlowTypes'
<1>1. "consumer" \in Tasks /\ "releasing" \in Awaits
  BY DEF Tasks, Awaits
<1>2. CASE Orders = {}
  BY <1>2 DEF FlowTypes, Restart, NoPass
<1>3. CASE Orders # {}
  BY <1>1, <1>3, EndingTypes
<1> QED BY <1>2, <1>3

\* Faults are counted up to their bound.
LEMMA FaultCount ==
  ASSUME FaultTypes, NEW kind, Fault(kind) \/ NoFault
  PROVE  FaultTypes'
BY SagaConstants DEF FaultTypes, Fault, NoFault

LEMMA EndingFaults ==
  ASSUME FaultTypes, NEW t, NEW o, NEW m, Interrupt(t, o, m) \/ Restart
  PROVE  FaultTypes'
BY FaultCount DEF Interrupt, Raise, Restart

-------------------------------------------------------------------------------
(* Type correctness: one lemma for each operation.                         *)

LEMMA MarkCancelledTypes ==
  ASSUME TypeOK, NEW t \in Tasks, NEW o \in Orders, NEW m \in Messages \cup {NoMessage},
         NEW release \in BOOLEAN, NEW refund \in BOOLEAN,
         MarkCancelled(t, o, m, release, refund)
  PROVE  TypeOK'
<1>1. PurchaseTypes'
  BY DEF TypeOK, MarkCancelled, PurchaseTypes, purchaseVars, Status, PaymentStatus, AlreadyDecided
<1>2. ContextTypes'
  BY DEF TypeOK, MarkCancelled, ContextTypes
<1>3. SentTypes'
  BY DEF TypeOK, MarkCancelled, SentTypes, PublishRelease
<1>4. FlowTypes'
  BY EndingTypes DEF TypeOK, MarkCancelled, Awaits
<1>5. FaultTypes'
  BY FaultCount, EndingFaults DEF TypeOK, MarkCancelled, PublishRelease
<1>6. TimerTypes' /\ WorldTypes'
  BY DEF TypeOK, MarkCancelled, TimerTypes, WorldTypes, timerVars, worldVars
<1> QED BY <1>1, <1>2, <1>3, <1>4, <1>5, <1>6 DEF TypeOK

LEMMA TriggerPaymentTypes ==
  ASSUME TypeOK, NEW t \in Tasks, NEW o \in Orders, NEW m \in Messages \cup {NoMessage},
         TriggerPayment(t, o, m)
  PROVE  TypeOK'
<1>1. CASE Expired(o) /\ MarkCancelled(t, o, m, TRUE, FALSE)
  BY <1>1, MarkCancelledTypes
<1>2. CASE UNCHANGED <<purchaseVars, context, timerVars, sentVars, worldVars>>
           /\ Finish(t, o, m) /\ NoFault
  BY <1>2, EndingTypes, FaultCount
     DEF TypeOK, PurchaseTypes, ContextTypes, TimerTypes, SentTypes, WorldTypes,
         purchaseVars, timerVars, sentVars, worldVars, Awaits
<1>3. CASE ~(\/ Expired(o) /\ MarkCancelled(t, o, m, TRUE, FALSE)
             \/ UNCHANGED <<purchaseVars, context, timerVars, sentVars, worldVars>>
                /\ Finish(t, o, m) /\ NoFault)
  <2>1. /\ ~Expired(o)
        /\ context' = [context EXCEPT ![o] = [state |-> "payment_initiated",
                          attempts |-> AtMost(context[o].attempts + 1, MaxAttempts)]]
        /\ since' = [since EXCEPT ![o] = 0]
        /\ left' = [left EXCEPT ![o] = LinkLife(o)]
        /\ UNCHANGED <<status, age, releases, worldVars>>
        /\ \/ /\ paymentStatus' = IF status[o] = "pending"
                    THEN [paymentStatus EXCEPT ![o] = "payment_initiated"] ELSE paymentStatus
              /\ Publish(o, "payment.initiated")
              /\ Suspend(t, "initiating", o, m)
           \/ Interrupt(t, o, m) /\ UNCHANGED <<paymentStatus, published>>
    BY <1>3 DEF TriggerPayment
  <2>2. context[o] \in Context
    BY <2>1 DEF TypeOK, ContextTypes, Expired
  <2>3. ContextTypes'
    BY <2>1, <2>2, SagaConstants DEF TypeOK, ContextTypes, Context, ContextState, AtMost
  <2>4. TimerTypes'
    BY <2>1, SagaConstants DEF TypeOK, TimerTypes, NoLink, LinkLife
  <2>5. PurchaseTypes'
    BY <2>1 DEF TypeOK, PurchaseTypes, PaymentStatus
  <2>6. SentTypes'
    BY <2>1 DEF TypeOK, SentTypes, Publish, Topics
  <2>7. FlowTypes'
    BY <2>1, EndingTypes DEF TypeOK, Awaits
  <2>8. FaultTypes'
    BY <2>1, FaultCount, EndingFaults DEF TypeOK, Publish
  <2>9. WorldTypes'
    BY <2>1 DEF TypeOK, WorldTypes, worldVars
  <2> QED BY <2>3, <2>4, <2>5, <2>6, <2>7, <2>8, <2>9 DEF TypeOK
<1> QED BY <1>1, <1>2, <1>3

LEMMA ConfirmPurchaseTypes ==
  ASSUME TypeOK, NEW t \in Tasks, NEW o \in Orders, NEW m \in Messages \cup {NoMessage},
         ConfirmPurchase(t, o, m)
  PROVE  TypeOK'
<1>1. CASE MarkCancelled(t, o, m, TRUE, TRUE)
  BY <1>1, MarkCancelledTypes
<1>2. CASE ~MarkCancelled(t, o, m, TRUE, TRUE)
  <2>1. PurchaseTypes'
    BY <1>2 DEF TypeOK, PurchaseTypes, ConfirmPurchase, purchaseVars, Status, PaymentStatus, LateReturned, SeatsFree
  <2>2. SentTypes'
    <3>1. UNCHANGED releases /\ (UNCHANGED published \/ Publish(o, "purchase.confirmed"))
      BY <1>2 DEF ConfirmPurchase, sentVars, LateReturned, SeatsFree
    <3> QED BY <3>1 DEF TypeOK, SentTypes, Publish, Topics
  <2>3. FlowTypes'
    BY <1>2, EndingTypes DEF TypeOK, ConfirmPurchase, Awaits, LateReturned, SeatsFree
  <2>4. FaultTypes'
    BY <1>2, FaultCount, EndingFaults DEF TypeOK, ConfirmPurchase, Publish, LateReturned, SeatsFree
  <2>5. ContextTypes' /\ TimerTypes' /\ WorldTypes'
    BY <1>2 DEF TypeOK, ContextTypes, TimerTypes, WorldTypes, ConfirmPurchase, timerVars, worldVars, LateReturned, SeatsFree
  <2> QED BY <2>1, <2>2, <2>3, <2>4, <2>5 DEF TypeOK
<1> QED BY <1>1, <1>2

LEMMA CreatePurchaseTypes ==
  ASSUME TypeOK, NEW o \in Orders, CreatePurchase(o)
  PROVE  TypeOK'
<1>1. PurchaseTypes'
  BY DEF TypeOK, PurchaseTypes, CreatePurchase, Status, PaymentStatus
<1>2. ContextTypes'
  BY SagaConstants DEF TypeOK, ContextTypes, CreatePurchase, Context, ContextState, NewContext
<1>3. SentTypes'
  BY DEF TypeOK, SentTypes, CreatePurchase, Publish, Topics
<1>4. FlowTypes'
  <2>1. CASE UNCHANGED flowVars
    BY <2>1 DEF TypeOK, FlowTypes, flowVars
  <2>2. CASE Restart
    BY <2>2, RestartTypes DEF TypeOK
  <2> QED BY <2>1, <2>2 DEF CreatePurchase
<1>5. FaultTypes'
  BY FaultCount, EndingFaults DEF TypeOK, CreatePurchase, Publish
<1>6. TimerTypes' /\ WorldTypes'
  BY DEF TypeOK, TimerTypes, WorldTypes, CreatePurchase, timerVars, worldVars
<1> QED BY <1>1, <1>2, <1>3, <1>4, <1>5, <1>6 DEF TypeOK

LEMMA ConsumeTypes ==
  ASSUME TypeOK, NEW m \in Messages, Consume(m) \/ ConsumeFails(m)
  PROVE  TypeOK'
<1>1. m.order \in Orders /\ "consumer" \in Tasks
  BY DEF Messages, Tasks
<1>2. CASE ConsumeFails(m)
  BY <1>1, <1>2, EndingTypes, EndingFaults
     DEF ConsumeFails, Interrupt, Awaits, TypeOK, PurchaseTypes, ContextTypes, TimerTypes,
         SentTypes, WorldTypes, purchaseVars, timerVars, sentVars, worldVars
<1>3. CASE Finish("consumer", m.order, m) /\ NoFault
           /\ UNCHANGED <<purchaseVars, context, timerVars, sentVars, worldVars>>
  BY <1>1, <1>3, EndingTypes, FaultCount
     DEF Awaits, TypeOK, PurchaseTypes, ContextTypes, TimerTypes,
         SentTypes, WorldTypes, purchaseVars, timerVars, sentVars, worldVars
<1>4. CASE \/ TriggerPayment("consumer", m.order, m)
           \/ ConfirmPurchase("consumer", m.order, m)
           \/ \E release \in BOOLEAN : MarkCancelled("consumer", m.order, m, release, FALSE)
  BY <1>1, <1>4, TriggerPaymentTypes, ConfirmPurchaseTypes, MarkCancelledTypes
<1> QED BY <1>2, <1>3, <1>4 DEF Consume

LEMMA ReconcileTypes ==
  ASSUME TypeOK, NEW o \in Orders, Reconcile(o)
  PROVE  TypeOK'
<1> DEFINE t == "reconciler"
<1>1. t \in Tasks /\ NoMessage \in Messages \cup {NoMessage}
  BY DEF Tasks
<1>2. CASE Finish(t, o, NoMessage) /\ NoFault
           /\ UNCHANGED <<purchaseVars, context, timerVars, sentVars, worldVars>>
  BY <1>1, <1>2, EndingTypes, FaultCount
     DEF Awaits, TypeOK, PurchaseTypes, ContextTypes, TimerTypes,
         SentTypes, WorldTypes, purchaseVars, timerVars, sentVars, worldVars
<1>3. CASE \/ TriggerPayment(t, o, NoMessage)
           \/ \E release, refund \in BOOLEAN : MarkCancelled(t, o, NoMessage, release, refund)
  BY <1>1, <1>3, TriggerPaymentTypes, MarkCancelledTypes
<1>4. ShouldRelease(o) \in BOOLEAN
  BY DEF ShouldRelease
<1> QED BY <1>2, <1>3, <1>4 DEF Reconcile, LateInventory

LEMMA ResumeTypes ==
  ASSUME TypeOK, NEW t \in Tasks, Resume(t)
  PROVE  TypeOK'
<1> DEFINE o == task[t].order
           m == task[t].msg
<1>1. o \in Orders /\ m \in Messages \cup {NoMessage}
  BY TaskTypes DEF TypeOK, Resume, PaymentInitiated, Released, PurchaseConfirmed, RefundUncollectable
<1>2. CASE PaymentInitiated(t)
  <2>1. PurchaseTypes' /\ ContextTypes'
    BY <1>1, <1>2 DEF TypeOK, PurchaseTypes, ContextTypes, PaymentInitiated, PaymentStatus,
       Context, ContextState, Expired
  <2>2. FlowTypes' /\ FaultTypes'
    <3>1. Finish(t, o, m) \/ Interrupt(t, o, m)
      BY <1>2 DEF PaymentInitiated
    <3>2. NoFault \/ Fault("raise") \/ Fault("crash")
      BY <1>2 DEF PaymentInitiated, Interrupt, Raise, Restart
    <3>3. FaultTypes'
      BY <3>2, FaultCount DEF TypeOK
    <3>4. "initiating" \in Awaits
      BY DEF Awaits
    <3> QED BY <1>1, <3>1, <3>3, <3>4, EndingTypes DEF TypeOK
  <2>3. TimerTypes' /\ SentTypes' /\ WorldTypes'
    BY <1>2 DEF TypeOK, TimerTypes, SentTypes, WorldTypes, PaymentInitiated, timerVars, sentVars, worldVars
  <2> QED BY <2>1, <2>2, <2>3 DEF TypeOK
<1>3. CASE Released(t)
  <2>1. FlowTypes'
    BY <1>1, <1>3, EndingTypes DEF TypeOK, Released, Awaits
  <2> QED
    BY <1>3, <2>1 DEF TypeOK, PurchaseTypes, ContextTypes, TimerTypes, SentTypes, WorldTypes,
       FaultTypes, Released, purchaseVars, timerVars, sentVars, worldVars
<1>4. CASE PurchaseConfirmed(t)
  <2>1. FlowTypes' /\ FaultTypes'
    BY <1>1, <1>4, EndingTypes, FaultCount, EndingFaults
       DEF TypeOK, PurchaseConfirmed, Interrupt, Awaits
  <2>2. ContextTypes'
    BY <1>1, <1>4 DEF TypeOK, ContextTypes, PurchaseConfirmed
  <2> QED
    BY <1>4, <2>1, <2>2 DEF TypeOK, PurchaseTypes, TimerTypes, SentTypes, WorldTypes,
       PurchaseConfirmed, purchaseVars, timerVars, sentVars, worldVars
<1>5. CASE RefundUncollectable(t)
  <2>1. FlowTypes'
    <3>1. CASE Finish(t, o, m)
      BY <1>1, <3>1, EndingTypes DEF TypeOK, Awaits
    <3>2. CASE Commit(t, o, m) /\ Leave(t, o) /\ escalated' = escalated \cup {o}
      BY <1>1, <3>2 DEF TypeOK, FlowTypes, Commit, Leave, PaymentStatus
    <3> QED BY <1>5, <3>1, <3>2 DEF RefundUncollectable
  <2>2. FaultTypes'
    BY <1>5, FaultCount DEF TypeOK, RefundUncollectable
  <2>3. WorldTypes'
    BY <1>1, <1>5 DEF TypeOK, WorldTypes, RefundUncollectable
  <2> QED
    BY <1>5, <2>1, <2>2, <2>3 DEF TypeOK, PurchaseTypes, ContextTypes, TimerTypes, SentTypes,
       RefundUncollectable, purchaseVars, timerVars, sentVars
<1> QED BY <1>2, <1>3, <1>4, <1>5 DEF Resume

LEMMA PassTypes ==
  ASSUME TypeOK, StartPass \/ PassFails \/ Crash
  PROVE  TypeOK'
<1>1. FlowTypes'
  <2>1. CASE StartPass
    BY <2>1 DEF TypeOK, PurchaseTypes, FlowTypes, StartPass, PaymentStatus, Seen
  <2>2. CASE PassFails
    BY <2>2, EndingTypes DEF TypeOK, FlowTypes, PassFails, Interrupt, Tasks, Awaits
  <2>3. CASE Crash
    BY <2>3, RestartTypes DEF TypeOK, Crash
  <2> QED BY <2>1, <2>2, <2>3
<1>2. FaultTypes'
  BY EndingFaults DEF TypeOK, FaultTypes, StartPass, PassFails, Crash, Interrupt
<1> QED
  BY <1>1, <1>2 DEF TypeOK, PurchaseTypes, ContextTypes, TimerTypes, SentTypes, WorldTypes,
     StartPass, PassFails, Crash, purchaseVars, timerVars, sentVars, worldVars

LEMMA ClockTypes ==
  ASSUME TypeOK, Tick \/ \E o \in Orders : LoseContext(o)
  PROVE  TypeOK'
<1>1. CASE Tick
  <2>1. TimerTypes'
    BY <1>1, SagaConstants DEF TypeOK, TimerTypes, Tick, AtMost, NoLink
  <2> QED
    BY <1>1, <2>1 DEF TypeOK, PurchaseTypes, ContextTypes, SentTypes, FlowTypes, WorldTypes,
       FaultTypes, Tick, purchaseVars, sentVars, worldVars
<1>2. ASSUME NEW o \in Orders, LoseContext(o)
      PROVE  TypeOK'
  BY <1>2, FaultCount DEF TypeOK, PurchaseTypes, ContextTypes, TimerTypes, SentTypes, FlowTypes,
     WorldTypes, LoseContext, purchaseVars, timerVars, sentVars, flowVars, worldVars
<1> QED BY <1>1, <1>2

LEMMA WorldStepTypes ==
  ASSUME TypeOK, World
  PROVE  TypeOK'
<1>1. PICK o \in Orders :
        \/ InventoryDecides(o) \/ InventoryAnnounces(o) \/ InventoryReleases(o)
        \/ StartPayment(o) \/ SettlePayment(o) \/ PaymentAnnounces(o)
  BY DEF World
<1>2. ASSUME NEW topic \in Handled, Announce(topic, o)
      PROVE  TypeOK'
  BY <1>2 DEF TypeOK, PurchaseTypes, ContextTypes, TimerTypes, SentTypes, FlowTypes, WorldTypes,
     FaultTypes, Announce, Message, Messages, purchaseVars, timerVars, sentVars, worldVars
<1>3. CASE InventoryAnnounces(o) \/ PaymentAnnounces(o)
  BY <1>2, <1>3 DEF InventoryAnnounces, PaymentAnnounces, Handled
<1>4. CASE InventoryDecides(o) \/ InventoryReleases(o) \/ StartPayment(o) \/ SettlePayment(o)
  <2>1. WorldTypes'
    BY <1>4, SagaConstants DEF TypeOK, WorldTypes, InventoryDecides, InventoryReleases,
       StartPayment, SettlePayment, Pay
  <2> QED
    BY <1>4, <2>1 DEF TypeOK, PurchaseTypes, ContextTypes, TimerTypes, SentTypes, FlowTypes,
       FaultTypes, InventoryDecides, InventoryReleases, StartPayment, SettlePayment, Pay,
       purchaseVars, timerVars, sentVars, flowVars
<1> QED BY <1>1, <1>3, <1>4

LEMMA InitTypes == Init => TypeOK
BY SagaConstants DEF Init, TypeOK, PurchaseTypes, ContextTypes, TimerTypes, SentTypes, FlowTypes,
   WorldTypes, FaultTypes, Status, PaymentStatus, NoLink, NoPass, Tasks

LEMMA NextTypes == TypeOK /\ [Next]_vars => TypeOK'
<1> SUFFICES ASSUME TypeOK, [Next]_vars PROVE TypeOK'
  OBVIOUS
<1>1. CASE Service
  BY <1>1, CreatePurchaseTypes, ReconcileTypes, ConsumeTypes, ResumeTypes, PassTypes, ClockTypes
     DEF Service
<1>2. CASE World
  BY <1>2, WorldStepTypes
<1>3. CASE UNCHANGED vars
  BY <1>3 DEF TypeOK, PurchaseTypes, ContextTypes, TimerTypes, SentTypes, FlowTypes, WorldTypes,
     FaultTypes, vars, purchaseVars, timerVars, sentVars, flowVars, worldVars
<1> QED BY <1>1, <1>2, <1>3 DEF Next

\* Every variable keeps its type, for any number of orders and any timeouts: in
\* particular a suspended handler always holds an order and its message, and the
\* countdown of a payment link never passes the end of its margin.
THEOREM TypeCorrect == Spec => []TypeOK
BY InitTypes, NextTypes, PTL DEF Spec
-------------------------------------------------------------------------------
(* The saga implements BoxOffice.                                          *)

\* A step of the saga is a step of BoxOffice on the stored status, or leaves it alone.
LEMMA CancelSimulates ==
  ASSUME TypeOK, NEW t, NEW o \in Orders, NEW m, NEW release, NEW refund,
         MarkCancelled(t, o, m, release, refund)
  PROVE  UNCHANGED status \/ Office!Drop(o)
BY DEF MarkCancelled, purchaseVars, Office!Drop, Office!Move, AlreadyDecided

LEMMA TriggerSimulates ==
  ASSUME TypeOK, NEW t, NEW o \in Orders, NEW m, TriggerPayment(t, o, m)
  PROVE  UNCHANGED status \/ Office!Drop(o)
BY CancelSimulates DEF TriggerPayment, purchaseVars

LEMMA ConfirmSimulates ==
  ASSUME TypeOK, NEW t, NEW o \in Orders, NEW m, ConfirmPurchase(t, o, m)
  PROVE  UNCHANGED status \/ Office!Drop(o) \/ Office!Sell(o)
BY CancelSimulates
   DEF ConfirmPurchase, purchaseVars, Office!Sell, Office!Move, Office!Clash, Clash, LateReturned, SeatsFree

LEMMA NextSimulates == TypeOK /\ [Next]_vars => [Office!Next]_status
<1> SUFFICES ASSUME TypeOK, [Next]_vars, ~UNCHANGED status PROVE Office!Next
  OBVIOUS
<1>1. ASSUME NEW o \in Orders, CreatePurchase(o) PROVE Office!Open(o)
  BY <1>1 DEF CreatePurchase, Office!Open, Office!Move
<1>2. ASSUME NEW o \in Orders, Reconcile(o) PROVE Office!Drop(o)
  <2>1. \/ TriggerPayment("reconciler", o, NoMessage)
        \/ \E release, refund : MarkCancelled("reconciler", o, NoMessage, release, refund)
    BY <1>2 DEF Reconcile, LateInventory, purchaseVars
  <2> QED BY <2>1, CancelSimulates, TriggerSimulates
<1>3. ASSUME NEW m \in Messages, Consume(m) PROVE Office!Drop(m.order) \/ Office!Sell(m.order)
  <2>1. m.order \in Orders
    BY DEF Messages
  <2> QED
    BY <1>3, <2>1, CancelSimulates, TriggerSimulates, ConfirmSimulates DEF Consume, purchaseVars
<1>4. CASE World
  BY <1>4 DEF World, InventoryDecides, InventoryAnnounces, InventoryReleases, StartPayment,
     SettlePayment, PaymentAnnounces, Announce, Pay, purchaseVars
<1>5. CASE \/ \E m \in Messages : ConsumeFails(m)
           \/ \E o \in Orders : LoseContext(o)
           \/ \E t \in Tasks : Resume(t)
           \/ StartPass \/ PassFails \/ Crash \/ Tick
  BY <1>5 DEF ConsumeFails, LoseContext, Resume, PaymentInitiated, Released, PurchaseConfirmed,
     RefundUncollectable, StartPass, PassFails, Crash, Tick, purchaseVars
<1>6. CASE Service
  <2>1. \A m \in Messages : m.order \in Orders
    BY DEF Messages
  <2> QED BY <1>1, <1>2, <1>3, <1>5, <1>6, <2>1 DEF Service, Office!Next
<1> QED BY <1>4, <1>6 DEF Next, vars, purchaseVars

\* Whatever the consumer, the reconciler, the other services and the faults do,
\* the stored status of the orders behaves as BoxOffice promises: an order is
\* decided once, and sold only while no sold order has one of its seats.
THEOREM SagaImplementsBoxOffice == Spec => ImplementsBoxOffice
<1>1. Init => Office!Init
  BY DEF Init, Office!Init
<1> QED BY <1>1, NextSimulates, TypeCorrect, PTL DEF Spec, ImplementsBoxOffice, Office!Spec

\* No seat is sold twice: the conflict query and the commit of
\* confirm_purchase_from_payment are enough, whatever is suspended meanwhile.
THEOREM NeverSoldTwice == Spec => []NoDoubleSale
<1>1. Init => NoDoubleSale
  BY DEF Init, NoDoubleSale
<1>2. TypeOK /\ NoDoubleSale /\ [Next]_vars => NoDoubleSale'
  <2> SUFFICES ASSUME TypeOK, NoDoubleSale, [Office!Next]_status,
                      NEW o \in Orders, NEW p \in Orders,
                      status'[o] = "confirmed", status'[p] = "confirmed", Clash(o, p)
               PROVE  FALSE
    BY NextSimulates DEF NoDoubleSale, Clash
  <2> USE DEF TypeOK, PurchaseTypes
  <2>1. Clash(p, o)
    BY DEF Clash
  <2>2. CASE status[o] = "confirmed" /\ status[p] = "confirmed"
    BY <2>2 DEF NoDoubleSale
  <2>3. ASSUME NEW q \in Orders, status[q] # "confirmed", status'[q] = "confirmed"
        PROVE  Office!Sell(q) /\ \A r \in Orders \ {q} : status'[r] = status[r]
    BY <2>3 DEF Office!Next, Office!Open, Office!Sell, Office!Drop, Office!GiveBack, Office!Move
  <2>4. CASE status[o] # "confirmed"
    BY <2>1, <2>3, <2>4 DEF Office!Sell, Office!Clash, Clash
  <2>5. CASE status[p] # "confirmed"
    BY <2>1, <2>3, <2>5 DEF Office!Sell, Office!Clash, Clash
  <2> QED BY <2>2, <2>4, <2>5
<1> QED BY <1>1, <1>2, TypeCorrect, PTL DEF Spec
=============================================================================
