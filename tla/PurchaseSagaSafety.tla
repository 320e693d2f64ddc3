-------------------------- MODULE PurchaseSagaSafety --------------------------
(* SagaInvariant is inductive: the proofs that what the service tells the  *)
(* other services, the customer and the operators agrees with what it      *)
(* stored, for any orders, timeouts and faults.  Then the expiry of the    *)
(* links and the stock: a payment follows a reservation, and a release     *)
(* follows a payment that came to nothing.                                 *)
EXTENDS PurchaseSagaProofs

Decisive == OutboxMatchesDecision /\ AnnouncedHasContext /\ NothingBefore
Flowing  == TaskShape /\ PaidIsAnswered /\ SuccessMeansCharged

-------------------------------------------------------------------------------
(* Events, contexts and the stored decision.                               *)

LEMMA CancelDecisive ==
  ASSUME TypeOK, Decisive, NEW t, NEW o \in Orders, NEW m, NEW release, NEW refund,
         MarkCancelled(t, o, m, release, refund)
  PROVE  Decisive'
<1> USE DEF TypeOK, PurchaseTypes, SentTypes, ContextTypes, Decisive, OutboxMatchesDecision,
            AnnouncedHasContext, NothingBefore
<1>1. CASE UNCHANGED <<status, context, published, releases>>
  BY <1>1
<1>2. CASE status[o] = "pending"
  <2>1. /\ status' = [status EXCEPT ![o] = "cancelled"]
        /\ UNCHANGED published
        /\ context' = [context EXCEPT ![o] = NoContext] \/ UNCHANGED context
        /\ releases' = [releases EXCEPT ![o] = @ + 1] \/ UNCHANGED releases
    BY <1>2 DEF MarkCancelled, PublishRelease, AlreadyDecided
  <2>2. releases[o] = 0 /\ "purchase.confirmed" \notin published[o]
    BY <1>2
  <2> QED BY <2>1, <2>2
<1> QED BY <1>1, <1>2 DEF MarkCancelled, purchaseVars, AlreadyDecided

LEMMA TriggerDecisive ==
  ASSUME TypeOK, Decisive, NEW t, NEW o \in Orders, NEW m, TriggerPayment(t, o, m)
  PROVE  Decisive'
<1>1. CASE MarkCancelled(t, o, m, TRUE, FALSE)
  BY <1>1, CancelDecisive
<1>2. CASE UNCHANGED <<status, context, published, releases>>
  BY <1>2 DEF Decisive, OutboxMatchesDecision, AnnouncedHasContext, NothingBefore
<1>3. CASE /\ ~MarkCancelled(t, o, m, TRUE, FALSE)
           /\ ~UNCHANGED <<status, context, published, releases>>
  <2>1. /\ UNCHANGED <<status, releases>> /\ ~Expired(o)
        /\ UNCHANGED published \/ published' = [published EXCEPT ![o] = @ \cup {"payment.initiated"}]
        /\ \E a : context' = [context EXCEPT ![o] = [state |-> "payment_initiated", attempts |-> a]]
    BY <1>3 DEF TriggerPayment, purchaseVars, sentVars, Publish
  <2>2. OutboxMatchesDecision'
    BY <2>1 DEF TypeOK, SentTypes, Decisive, OutboxMatchesDecision
  <2>3. status[o] # "none"
    BY <2>1 DEF Decisive, NothingBefore, Expired
  <2>4. AnnouncedHasContext' /\ NothingBefore'
    BY <2>1, <2>3 DEF TypeOK, ContextTypes, SentTypes, Decisive, AnnouncedHasContext, NothingBefore, NoContext
  <2> QED BY <2>2, <2>4 DEF Decisive
<1> QED BY <1>1, <1>2, <1>3

LEMMA ConfirmDecisive ==
  ASSUME TypeOK, Decisive, NEW t, NEW o \in Orders, NEW m, ConfirmPurchase(t, o, m)
  PROVE  Decisive'
<1>1. CASE MarkCancelled(t, o, m, TRUE, TRUE)
  BY <1>1, CancelDecisive
<1>2. CASE UNCHANGED <<status, context, published, releases>>
  BY <1>2 DEF Decisive, OutboxMatchesDecision, AnnouncedHasContext, NothingBefore
<1>3. CASE ~MarkCancelled(t, o, m, TRUE, TRUE) /\ ~UNCHANGED <<status, context, published, releases>>
  <2>1. /\ status[o] = "pending" /\ status' = [status EXCEPT ![o] = "confirmed"]
        /\ UNCHANGED <<context, releases>>
        /\ UNCHANGED published \/ published' = [published EXCEPT ![o] = @ \cup {"purchase.confirmed"}]
    BY <1>3 DEF ConfirmPurchase, purchaseVars, sentVars, Publish, LateReturned, SeatsFree
  <2> QED
    BY <2>1 DEF TypeOK, PurchaseTypes, SentTypes, Decisive, OutboxMatchesDecision, AnnouncedHasContext,
       NothingBefore
<1> QED BY <1>1, <1>2, <1>3

LEMMA CreateDecisive ==
  ASSUME TypeOK, Decisive, NEW o \in Orders, CreatePurchase(o)
  PROVE  Decisive'
<1>1. /\ status[o] = "none" /\ status' = [status EXCEPT ![o] = "pending"]
      /\ \E c : /\ context' = [context EXCEPT ![o] = c]
                /\ c # NoContext \/ UNCHANGED published
      /\ UNCHANGED releases
      /\ UNCHANGED published \/ published' = [published EXCEPT ![o] = @ \cup {"order.created"}]
  BY DEF CreatePurchase, Publish, NewContext, NoContext
<1>2. AnnouncedHasContext' /\ NothingBefore'
  BY <1>1 DEF TypeOK, PurchaseTypes, ContextTypes, SentTypes, Decisive, AnnouncedHasContext, NothingBefore
<1>3. OutboxMatchesDecision'
  BY <1>1 DEF TypeOK, PurchaseTypes, SentTypes, Decisive, OutboxMatchesDecision
<1> QED BY <1>2, <1>3 DEF Decisive

LEMMA ResumeDecisive ==
  ASSUME TypeOK, Decisive, TaskShape, NEW t \in Tasks, Resume(t)
  PROVE  Decisive'
<1>1. UNCHANGED <<status, published, releases>>
  BY DEF Resume, PaymentInitiated, Released, PurchaseConfirmed, RefundUncollectable,
     purchaseVars, sentVars
<1>2. OutboxMatchesDecision'
  BY <1>1 DEF Decisive, OutboxMatchesDecision
<1>3. AnnouncedHasContext' /\ NothingBefore'
  <2>1. CASE UNCHANGED context
    BY <1>1, <2>1 DEF Decisive, AnnouncedHasContext, NothingBefore
  <2>2. CASE PaymentInitiated(t) /\ ~UNCHANGED context
    <3>1. PICK state \in ContextState :
            context' = [context EXCEPT ![task[t].order].state = state]
      BY <2>2 DEF PaymentInitiated, ContextState
    <3>2. context[task[t].order] \in Context /\ context[task[t].order] # NoContext
      BY <2>2, TaskTypes DEF PaymentInitiated, TypeOK, ContextTypes, Expired
    <3> QED
      BY <1>1, <3>1, <3>2 DEF TypeOK, ContextTypes, Context, ContextState, Decisive,
         AnnouncedHasContext, NothingBefore, NoContext
  <2>3. CASE PurchaseConfirmed(t) /\ ~UNCHANGED context
    <3>1. status[task[t].order] = "confirmed"
      BY <2>3 DEF TaskShape, PurchaseConfirmed, Idle
    <3> QED
      BY <1>1, <2>3, <3>1 DEF PurchaseConfirmed, TypeOK, ContextTypes, Decisive, AnnouncedHasContext,
         NothingBefore
  <2> QED BY <2>1, <2>2, <2>3 DEF Resume, Released, RefundUncollectable
<1> QED BY <1>2, <1>3 DEF Decisive

LEMMA NextDecisive ==
  ASSUME TypeOK, Decisive, TaskShape, [Next]_vars
  PROVE  Decisive'
<1>1. ASSUME UNCHANGED <<status, published, releases>>,
             \A o \in Orders : UNCHANGED (context[o]) \/ (context[o] # NoContext /\ context'[o] = Evicted)
      PROVE  Decisive'
  BY <1>1 DEF Decisive, OutboxMatchesDecision, AnnouncedHasContext, NothingBefore, Evicted, NoContext
<1>2. ASSUME NEW o \in Orders, Reconcile(o) PROVE Decisive'
  <2>1. \/ UNCHANGED <<status, context, published, releases>>
        \/ TriggerPayment("reconciler", o, NoMessage)
        \/ \E release, refund : MarkCancelled("reconciler", o, NoMessage, release, refund)
    BY <1>2 DEF Reconcile, LateInventory, purchaseVars, sentVars
  <2> QED BY <1>1, <2>1, CancelDecisive, TriggerDecisive
<1>3. ASSUME NEW m \in Messages, Consume(m) PROVE Decisive'
  <2>1. m.order \in Orders
    BY DEF Messages
  <2> QED
    BY <1>1, <1>3, <2>1, CancelDecisive, TriggerDecisive, ConfirmDecisive
       DEF Consume, purchaseVars, sentVars
<1>4. CASE World
  BY <1>1, <1>4 DEF World, InventoryDecides, InventoryAnnounces, InventoryReleases, StartPayment,
     SettlePayment, PaymentAnnounces, Announce, Pay, purchaseVars, sentVars
<1>5. ASSUME NEW o \in Orders, LoseContext(o) PROVE Decisive'
  BY <1>1, <1>5 DEF LoseContext, Expired, TypeOK, ContextTypes, purchaseVars, sentVars
<1>6. CASE (\E m \in Messages : ConsumeFails(m)) \/ StartPass \/ PassFails \/ Crash \/ Tick
           \/ UNCHANGED vars
  BY <1>1, <1>6 DEF ConsumeFails, StartPass, PassFails, Crash, Tick, vars, purchaseVars, sentVars
<1> QED
  BY <1>2, <1>3, <1>4, <1>5, <1>6, CreateDecisive, ResumeDecisive DEF Next, Service
-------------------------------------------------------------------------------
(* Suspended handlers, committed messages and the customer's money.        *)

\* What no step takes back: a confirmed order, captured and returned money.
Kept ==
  \A o \in Orders :
    /\ status[o] = "confirmed" => status'[o] = "confirmed"
    /\ payment[o] = "refunded" => payment'[o] = "refunded"
    /\ payment[o] = "captured" => payment'[o] \in {"captured", "refunded"}

\* The task t runs a handler for the order o, because of the message m.
Handles(t, o, m) ==
  \/ t = "consumer" /\ m \in inbox /\ m.order = o
  \/ t = "reconciler" /\ m = NoMessage

LEMMA NoMessageIsNone == NoMessage \notin Messages /\ NoMessage.topic # "payment.success"
<1>1. NoMessage.topic = "none"
  BY DEF NoMessage
<1>2. \A m \in Messages : m.topic \in Handled
  BY DEF Messages
<1> QED BY <1>1, <1>2 DEF Handled

\* The messages that stay or leave the inbox leave the other facts alone.
LEMMA ChargedKept ==
  ASSUME SuccessMeansCharged, Kept, inbox' \subseteq inbox
  PROVE  SuccessMeansCharged'
BY DEF SuccessMeansCharged, Kept

LEMMA SuspendFlowing ==
  ASSUME TypeOK, Flowing, Kept, NEW t \in Tasks, NEW o \in Orders, NEW m, NEW w \in Awaits,
         Handles(t, o, m), Suspend(t, w, o, m),
         w = "confirming" => status'[o] = "confirmed",
         m.topic = "payment.success" => w \in {"confirming", "refunding", "releasing_to_refund"}
  PROVE  Flowing'
<1>1. task' = [task EXCEPT ![t] = [at |-> w, order |-> o, msg |-> m]]
      /\ UNCHANGED <<inbox, settled, escalated>>
  BY DEF Suspend
<1>2. PaidIsAnswered' /\ SuccessMeansCharged'
  BY <1>1, ChargedKept DEF Flowing, PaidIsAnswered, Kept, TypeOK, FlowTypes
<1>3. TaskShape'
  <2>1. ASSUME NEW u \in Tasks, u # t, task[u] # Idle
        PROVE  task[u].at = "confirming" => status'[task[u].order] = "confirmed"
    BY <2>1, TaskTypes DEF TypeOK, FlowTypes, Suspended, Awaits, Flowing, TaskShape, Kept
  <2> QED
    BY <1>1, <2>1 DEF TypeOK, FlowTypes, Flowing, TaskShape, Handles, Tasks, Idle
<1> QED BY <1>2, <1>3 DEF Flowing

LEMMA CommitFlowing ==
  ASSUME TypeOK, Flowing, Kept, NEW t \in Tasks, NEW o \in Orders, NEW m,
         Handles(t, o, m), Commit(t, o, m), escalated \subseteq escalated',
         m.topic = "payment.success" =>
           status'[o] = "confirmed" \/ payment'[o] = "refunded" \/ o \in escalated'
  PROVE  Flowing'
<1>1. /\ task' = [task EXCEPT ![t] = Idle]
      /\ inbox' = inbox \ {m}
      /\ settled' \subseteq settled \cup {o}
      /\ settled' \subseteq settled \/ m.topic = "payment.success"
  BY DEF Commit
<1>2. PaidIsAnswered' /\ SuccessMeansCharged'
  BY <1>1, ChargedKept DEF Flowing, PaidIsAnswered, Kept, TypeOK, FlowTypes
<1>3. TaskShape'
  <2>1. ASSUME NEW u \in Tasks, u # t, task[u] # Idle
        PROVE  task[u].at = "confirming" => status'[task[u].order] = "confirmed"
    BY <2>1, TaskTypes DEF TypeOK, FlowTypes, Suspended, Awaits, Flowing, TaskShape, Kept
  <2>2. ASSUME t = "reconciler", task["consumer"] # Idle
        PROVE  task["consumer"].msg \in inbox'
    BY <1>1, <2>2, NoMessageIsNone DEF TypeOK, FlowTypes, Flowing, TaskShape, Handles
  <2> QED
    BY <1>1, <2>1, <2>2 DEF TypeOK, FlowTypes, Flowing, TaskShape, Tasks
<1> QED BY <1>2, <1>3 DEF Flowing

LEMMA InterruptFlowing ==
  ASSUME TypeOK, Flowing, Kept, NEW t \in Tasks, NEW o \in Orders, NEW m,
         Handles(t, o, m), Interrupt(t, o, m)
  PROVE  Flowing'
<1>1. CASE Raise(t, o, m)
  <2>1. m.topic = "payment.success" => o \in escalated'
    BY <1>1, NoMessageIsNone DEF Raise, Handles
  <2> QED BY <1>1, <2>1, CommitFlowing DEF Raise
<1>2. CASE Restart
  BY <1>2, ChargedKept DEF Restart, Flowing, TaskShape, PaidIsAnswered, Kept, TypeOK, FlowTypes, Tasks
<1> QED BY <1>1, <1>2 DEF Interrupt

LEMMA CancelFlowing ==
  ASSUME TypeOK, Flowing, NEW t \in Tasks, NEW o \in Orders, NEW m, NEW release \in BOOLEAN,
         NEW refund \in BOOLEAN, Handles(t, o, m), MarkCancelled(t, o, m, release, refund),
         m.topic = "payment.success" => release /\ refund
  PROVE  Flowing'
<1>1. Kept
  BY DEF MarkCancelled, Kept, purchaseVars, worldVars, TypeOK, PurchaseTypes, AlreadyDecided
<1>2. \/ Interrupt(t, o, m)
      \/ m.topic # "payment.success" /\ Finish(t, o, m)
      \/ Suspend(t, "refunding", o, m)
      \/ Suspend(t, "releasing_to_refund", o, m)
      \/ m.topic # "payment.success" /\ Suspend(t, "releasing", o, m)
  BY DEF MarkCancelled, AlreadyDecided
<1>3. CASE m.topic # "payment.success" /\ Finish(t, o, m)
  BY <1>1, <1>3, CommitFlowing DEF Finish
<1> QED BY <1>1, <1>2, <1>3, InterruptFlowing, SuspendFlowing DEF Awaits

LEMMA TriggerFlowing ==
  ASSUME TypeOK, Flowing, NEW t \in Tasks, NEW o \in Orders, NEW m, Handles(t, o, m),
         TriggerPayment(t, o, m), m.topic # "payment.success"
  PROVE  Flowing'
<1>1. CASE MarkCancelled(t, o, m, TRUE, FALSE)
  BY <1>1, CancelFlowing
<1>2. CASE ~MarkCancelled(t, o, m, TRUE, FALSE)
  <2>1. UNCHANGED <<status, payment>>
        /\ (Finish(t, o, m) \/ Suspend(t, "initiating", o, m) \/ Interrupt(t, o, m))
    BY <1>2 DEF TriggerPayment, purchaseVars, worldVars
  <2>2. Kept
    BY <2>1 DEF Kept
  <2>3. CASE Finish(t, o, m)
    BY <2>2, <2>3, CommitFlowing DEF Finish
  <2> QED BY <2>1, <2>2, <2>3, SuspendFlowing, InterruptFlowing DEF Awaits
<1> QED BY <1>1, <1>2

LEMMA ConfirmFlowing ==
  ASSUME TypeOK, Flowing, NEW t \in Tasks, NEW o \in Orders, NEW m, Handles(t, o, m),
         ConfirmPurchase(t, o, m)
  PROVE  Flowing'
<1>1. CASE MarkCancelled(t, o, m, TRUE, TRUE)
  BY <1>1, CancelFlowing
<1>2. CASE ~MarkCancelled(t, o, m, TRUE, TRUE)
  <2>1. Kept
    BY <1>2 DEF ConfirmPurchase, Kept, purchaseVars, worldVars, TypeOK, PurchaseTypes, LateReturned, SeatsFree
  <2>2. \/ Finish(t, o, m) /\ status'[o] = "confirmed"
        \/ Suspend(t, "refunding", o, m)
        \/ Suspend(t, "confirming", o, m) /\ status'[o] = "confirmed"
        \/ Interrupt(t, o, m)
    BY <1>2 DEF ConfirmPurchase, purchaseVars, TypeOK, PurchaseTypes, LateReturned, SeatsFree
  <2>3. CASE Finish(t, o, m) /\ status'[o] = "confirmed"
    BY <2>1, <2>3, CommitFlowing DEF Finish
  <2> QED BY <2>1, <2>2, <2>3, SuspendFlowing, InterruptFlowing DEF Awaits
<1> QED BY <1>1, <1>2

LEMMA ResumeFlowing ==
  ASSUME TypeOK, Flowing, NEW t \in Tasks, Resume(t)
  PROVE  Flowing'
<1> DEFINE o == task[t].order
           m == task[t].msg
<1>1. task[t].at # "idle" /\ task[t] # Idle
  BY DEF Resume, PaymentInitiated, Released, PurchaseConfirmed, RefundUncollectable, Idle
<1>2. o \in Orders /\ Handles(t, o, m)
  BY <1>1, TaskTypes DEF TypeOK, Flowing, TaskShape, Handles, Tasks
<1>3. m.topic = "payment.success" =>
        task[t].at \in {"confirming", "refunding", "releasing_to_refund"}
  BY <1>1 DEF Flowing, TaskShape
<1>4. UNCHANGED payment => Kept
  BY DEF Kept, Resume, PaymentInitiated, Released, PurchaseConfirmed, RefundUncollectable, purchaseVars
<1>5. CASE PaymentInitiated(t)
  <2>1. Kept
    BY <1>4, <1>5 DEF PaymentInitiated, worldVars
  <2>2. CASE Finish(t, o, m)
    BY <1>2, <1>3, <1>5, <2>1, <2>2, CommitFlowing DEF PaymentInitiated, Finish
  <2> QED BY <1>2, <1>5, <2>1, <2>2, InterruptFlowing DEF PaymentInitiated, Interrupt
<1>6. CASE Released(t)
  <2>1. Kept
    BY <1>4, <1>6 DEF Released, worldVars
  <2>2. CASE Finish(t, o, m) /\ task[t].at = "releasing"
    BY <1>2, <1>3, <2>1, <2>2, CommitFlowing DEF Finish
  <2> QED BY <1>2, <1>6, <2>1, <2>2, SuspendFlowing DEF Released, Awaits
<1>7. CASE PurchaseConfirmed(t)
  <2>1. Kept /\ status'[o] = "confirmed"
    BY <1>1, <1>4, <1>7 DEF PurchaseConfirmed, worldVars, purchaseVars, Flowing, TaskShape
  <2>2. CASE Finish(t, o, m)
    BY <1>2, <2>1, <2>2, CommitFlowing DEF Finish
  <2> QED BY <1>2, <1>7, <2>1, <2>2, InterruptFlowing DEF PurchaseConfirmed, Interrupt
<1>8. CASE RefundUncollectable(t)
  <2>1. payment' \in {payment, [payment EXCEPT ![o] = "refunded"]} /\ UNCHANGED status
    BY <1>8 DEF RefundUncollectable, purchaseVars
  <2>2. Kept
    BY <1>2, <2>1 DEF Kept, TypeOK, WorldTypes
  <2>3. CASE /\ Finish(t, o, m)
             /\ payment' = IF payment[o] = "captured"
                           THEN [payment EXCEPT ![o] = "refunded"] ELSE payment
    <3>1. m.topic = "payment.success" => m = Message("payment.success", o) /\ m \in inbox
      BY <1>2, NoMessageIsNone DEF Handles, TypeOK, FlowTypes, Messages, Message
    <3>2. m.topic = "payment.success" => payment[o] \in {"captured", "refunded"}
      BY <1>2, <3>1 DEF Flowing, SuccessMeansCharged
    <3>3. m.topic = "payment.success" => payment'[o] = "refunded"
      BY <1>2, <2>3, <3>2 DEF TypeOK, WorldTypes
    <3> QED BY <1>2, <2>2, <2>3, <3>3, CommitFlowing DEF Finish
  <2>4. CASE Commit(t, o, m) /\ escalated' = escalated \cup {o}
    BY <1>2, <2>2, <2>4, CommitFlowing
  <2> QED BY <1>8, <2>3, <2>4 DEF RefundUncollectable
<1> QED BY <1>5, <1>6, <1>7, <1>8 DEF Resume

LEMMA NextFlowing ==
  ASSUME TypeOK, Flowing, [Next]_vars
  PROVE  Flowing'
<1>1. ASSUME Kept, UNCHANGED <<task, settled, escalated>>, inbox \subseteq inbox',
             SuccessMeansCharged'
      PROVE  Flowing'
  <2>1. ASSUME NEW t \in Tasks, task[t] # Idle
        PROVE  task[t].at = "confirming" => status'[task[t].order] = "confirmed"
    BY <1>1, <2>1, TaskTypes DEF TypeOK, FlowTypes, Suspended, Awaits, Flowing, TaskShape, Kept
  <2> QED BY <1>1, <2>1 DEF Flowing, TaskShape, PaidIsAnswered, Kept, TypeOK, FlowTypes
<1>2. UNCHANGED <<status, payment>> => Kept
  BY DEF Kept
<1>3. ASSUME NEW o \in Orders, CreatePurchase(o) PROVE Flowing'
  <2>1. Kept
    BY <1>3 DEF CreatePurchase, Kept, TypeOK, PurchaseTypes, worldVars, NewContext
  <2>2. CASE UNCHANGED flowVars
    BY <1>1, <2>1, <2>2, ChargedKept DEF flowVars, Flowing
  <2>3. CASE Restart
    BY <2>1, <2>3, ChargedKept DEF Restart, Flowing, TaskShape, PaidIsAnswered, Kept, TypeOK, FlowTypes, Tasks
  <2> QED BY <1>3, <2>2, <2>3 DEF CreatePurchase, NewContext
<1>4. ASSUME NEW o \in Orders, Reconcile(o) PROVE Flowing'
  <2>1. Handles("reconciler", o, NoMessage) /\ NoMessage.topic # "payment.success"
        /\ "reconciler" \in Tasks /\ ShouldRelease(o) \in BOOLEAN
    BY NoMessageIsNone DEF Handles, Tasks, ShouldRelease
  <2>2. \/ Finish("reconciler", o, NoMessage) /\ UNCHANGED <<status, payment>>
        \/ TriggerPayment("reconciler", o, NoMessage)
        \/ \E release, refund \in BOOLEAN : MarkCancelled("reconciler", o, NoMessage, release, refund)
    BY <1>4, <2>1 DEF Reconcile, LateInventory, purchaseVars, worldVars
  <2>3. CASE Finish("reconciler", o, NoMessage) /\ UNCHANGED <<status, payment>>
    BY <1>2, <2>1, <2>3, CommitFlowing DEF Finish
  <2> QED BY <2>1, <2>2, <2>3, CancelFlowing, TriggerFlowing
<1>5. ASSUME NEW m \in Messages, Consume(m) \/ ConsumeFails(m) PROVE Flowing'
  <2>1. Handles("consumer", m.order, m) /\ "consumer" \in Tasks /\ m.order \in Orders
    BY <1>5 DEF Handles, Tasks, Messages, Consume, ConsumeFails
  <2>2. CASE ConsumeFails(m)
    BY <1>2, <2>1, <2>2, InterruptFlowing DEF ConsumeFails, Interrupt, purchaseVars, worldVars
  <2>3. CASE Finish("consumer", m.order, m) /\ UNCHANGED <<status, payment>>
             /\ m.topic # "payment.success"
    BY <1>2, <2>1, <2>3, CommitFlowing DEF Finish
  <2> QED
    BY <1>5, <2>1, <2>2, <2>3, CancelFlowing, TriggerFlowing, ConfirmFlowing
       DEF Consume, purchaseVars, worldVars
<1>6. ASSUME NEW t \in Tasks, Resume(t) PROVE Flowing'
  BY <1>6, ResumeFlowing
<1>7. CASE StartPass \/ Tick \/ (\E o \in Orders : LoseContext(o)) \/ UNCHANGED vars
  BY <1>1, <1>2, <1>7, ChargedKept DEF Flowing, StartPass, Tick, LoseContext, vars,
     purchaseVars, flowVars, worldVars
<1>8. CASE PassFails
  <2>1. PICK o \in Orders : Raise("reconciler", o, NoMessage)
    BY <1>8 DEF PassFails, TypeOK, FlowTypes
  <2> QED
    BY <1>2, <1>8, <2>1, InterruptFlowing DEF PassFails, Handles, Interrupt, Tasks, purchaseVars, worldVars
<1>9. CASE Crash
  BY <1>2, <1>9, ChargedKept DEF Crash, Restart, Flowing, TaskShape, PaidIsAnswered, Kept, TypeOK,
     FlowTypes, Tasks, purchaseVars, worldVars
<1>10. CASE World
  <2>1. PICK o \in Orders :
          \/ InventoryDecides(o) \/ InventoryAnnounces(o) \/ InventoryReleases(o)
          \/ StartPayment(o) \/ SettlePayment(o) \/ PaymentAnnounces(o)
    BY <1>10 DEF World
  <2>2. CASE InventoryDecides(o) \/ InventoryReleases(o)
    BY <1>1, <1>2, <2>2, ChargedKept DEF InventoryDecides, InventoryReleases, Flowing,
       purchaseVars, flowVars
  <2>3. CASE StartPayment(o) \/ SettlePayment(o)
    <3>1. Kept
      BY <2>3 DEF StartPayment, SettlePayment, Pay, Kept, TypeOK, WorldTypes, purchaseVars
    <3> QED
      BY <1>1, <2>3, <3>1, ChargedKept DEF StartPayment, SettlePayment, Pay, Flowing, flowVars
  <2>4. CASE InventoryAnnounces(o) \/ PaymentAnnounces(o)
    <3>1. Kept /\ UNCHANGED <<task, settled, escalated, payment>> /\ inbox \subseteq inbox'
      BY <1>2, <2>4 DEF InventoryAnnounces, PaymentAnnounces, Announce, purchaseVars, worldVars
    <3>2. SuccessMeansCharged'
      BY <2>4, <3>1 DEF InventoryAnnounces, PaymentAnnounces, Announce, Message, Flowing,
         SuccessMeansCharged
    <3> QED BY <1>1, <3>1, <3>2
  <2> QED BY <2>1, <2>2, <2>3, <2>4
<1> QED BY <1>3, <1>4, <1>5, <1>6, <1>7, <1>8, <1>9, <1>10 DEF Next, Service
-------------------------------------------------------------------------------
LEMMA InvariantHolds == Spec => []SagaInvariant
<1>1. Init => SagaInvariant
  <2>1. Init => Decisive /\ Flowing
    BY DEF Init, Decisive, Flowing, OutboxMatchesDecision, AnnouncedHasContext, NothingBefore, PaidIsAnswered,
       TaskShape, SuccessMeansCharged, Tasks
  <2> QED BY <2>1, InitTypes DEF SagaInvariant, Decisive, Flowing
<1>2. SagaInvariant /\ [Next]_vars => SagaInvariant'
  BY NextTypes, NextDecisive, NextFlowing DEF SagaInvariant, Decisive, Flowing
<1> QED BY <1>1, <1>2, PTL DEF Spec

\* What the other services are told agrees with the stored decision: stock is
\* released only for a cancelled order and once, a confirmation is announced
\* only for a confirmed order.
THEOREM OutboxAgrees == Spec => []OutboxMatchesDecision
BY InvariantHolds, PTL DEF SagaInvariant

\* An order that is pending and of which any service was told has its payment
\* context, unless Redis lost it: only a request that failed after its commit
\* leaves a pending row without one, and order.created is not sent for that row.
THEOREM AnnouncedKeepContext == Spec => []AnnouncedHasContext
BY InvariantHolds, PTL DEF SagaInvariant

\* A payment.success that was handled and committed left the customer with the
\* seats, with the money back, or with a person in charge, whatever failed.
THEOREM PaymentsAnswered == Spec => []PaidIsAnswered
BY InvariantHolds, PTL DEF SagaInvariant

\* The whole invariant holds: besides the properties above, what a suspended
\* handler relies on when it goes on, and that payment.success means money.
THEOREM SagaInvariantHolds == Spec => []SagaInvariant
BY InvariantHolds
-------------------------------------------------------------------------------
(* The expiry of the link.                                                 *)

\* Until the first attempt of a payment there is no link, and before the
\* purchase there is no context either.
Linked(o) ==
  /\ status[o] = "none" => Expired(o) /\ left[o] = NoLink
  /\ ~Expired(o) /\ context[o].attempts = 0 => left[o] = NoLink
LinkFollowsAttempts == \A o \in Orders : Linked(o)

\* A step that leaves the link of an order and its number of attempts alone.
Calm(o) ==
  /\ left'[o] = left[o] /\ (status[o] # "none" => status'[o] # "none")
  /\ \/ context'[o] = context[o] \/ Expired(o)'
     \/ ~Expired(o) /\ context'[o].attempts = context[o].attempts

LEMMA CalmKeepsLink ==
  ASSUME NEW o \in Orders, Linked(o), Calm(o)
  PROVE  Linked(o)'
BY DEF Linked, Calm, Expired

\* No step undoes a purchase.
LEMMA StaysOpened ==
  ASSUME TypeOK, [Next]_vars, NEW o \in Orders, status[o] # "none"
  PROVE  status'[o] # "none"
<1>1. [Office!Next]_status
  BY NextSimulates
<1> QED BY <1>1 DEF TypeOK, PurchaseTypes, Office!Next, Office!Open, Office!Sell, Office!Drop,
           Office!GiveBack, Office!Move

\* What a cancellation, a trigger of the payment and the creation do to an order.
LEMMA CancelLinks ==
  ASSUME TypeOK, [Next]_vars, LinkFollowsAttempts, NEW t, NEW o \in Orders, NEW m,
         NEW release, NEW refund, MarkCancelled(t, o, m, release, refund)
  PROVE  LinkFollowsAttempts' /\ UNCHANGED left
<1>1. UNCHANGED left /\ (UNCHANGED context \/ context' = [context EXCEPT ![o] = NoContext])
  BY DEF MarkCancelled, timerVars
<1>2. \A p \in Orders : Calm(p)
  BY <1>1, StaysOpened DEF Calm, Expired, TypeOK, ContextTypes
<1> QED BY <1>1, <1>2, CalmKeepsLink DEF LinkFollowsAttempts

LEMMA TriggerLinks ==
  ASSUME TypeOK, [Next]_vars, LinkFollowsAttempts, NEW t, NEW o \in Orders, NEW m,
         TriggerPayment(t, o, m)
  PROVE  /\ LinkFollowsAttempts'
         /\ \A p \in Orders : left[p] # NoLink => left'[p] = left[p]
<1>1. CASE MarkCancelled(t, o, m, TRUE, FALSE)
  BY <1>1, CancelLinks
<1>2. CASE UNCHANGED <<context, timerVars>>
  <2>1. \A p \in Orders : Calm(p)
    BY <1>2, StaysOpened DEF Calm, timerVars
  <2> QED BY <1>2, <2>1, CalmKeepsLink DEF LinkFollowsAttempts, timerVars
<1>3. CASE ~MarkCancelled(t, o, m, TRUE, FALSE) /\ ~UNCHANGED <<context, timerVars>>
  <2> DEFINE n == AtMost(context[o].attempts + 1, MaxAttempts)
  <2>1. /\ ~Expired(o)
        /\ context' = [context EXCEPT ![o] = [state |-> "payment_initiated", attempts |-> n]]
        /\ left' = [left EXCEPT ![o] = LinkLife(o)]
    BY <1>3 DEF TriggerPayment
  <2>2. context[o].attempts \in Nat /\ n # 0
    BY <2>1, SagaConstants DEF TypeOK, ContextTypes, Context, Expired, AtMost
  <2>3. Linked(o) /\ status[o] # "none"
    BY <2>1 DEF LinkFollowsAttempts, Linked
  <2>4. left[o] # NoLink => left'[o] = left[o]
    BY <2>1, <2>3 DEF TypeOK, TimerTypes, Linked, LinkLife
  <2>5. Linked(o)'
    <3>1. context'[o].attempts = n
      BY <2>1 DEF TypeOK, ContextTypes
    <3> QED BY <2>2, <2>3, <3>1, StaysOpened DEF Linked
  <2>6. ASSUME NEW p \in Orders \ {o} PROVE Calm(p) /\ left'[p] = left[p]
    BY <2>1, StaysOpened DEF Calm, TypeOK, TimerTypes, ContextTypes
  <2> QED BY <2>4, <2>5, <2>6, CalmKeepsLink DEF LinkFollowsAttempts
<1> QED BY <1>1, <1>2, <1>3

NoLater == \A o \in Orders : left[o] # NoLink => left'[o] <= left[o]

LEMMA NextLinks ==
  ASSUME TypeOK, LinkFollowsAttempts, [Next]_vars
  PROVE  LinkFollowsAttempts' /\ NoLater
<1>0. \A o \in Orders : left[o] \in Int
  BY SagaConstants DEF TypeOK, TimerTypes, NoLink
<1>a. ASSUME UNCHANGED left, \A o \in Orders : Calm(o)
      PROVE  LinkFollowsAttempts' /\ NoLater
  BY <1>0, <1>a, CalmKeepsLink DEF LinkFollowsAttempts, NoLater
<1>b. ASSUME UNCHANGED <<context, left>>
      PROVE  LinkFollowsAttempts' /\ NoLater
  BY <1>a, <1>b, StaysOpened DEF Calm
<1>c. ASSUME NEW t, NEW o \in Orders, NEW m, TriggerPayment(t, o, m)
      PROVE  LinkFollowsAttempts' /\ NoLater
  BY <1>0, <1>c, TriggerLinks DEF NoLater
<1>d. ASSUME NEW t, NEW o \in Orders, NEW m, NEW release, NEW refund,
             MarkCancelled(t, o, m, release, refund)
      PROVE  LinkFollowsAttempts' /\ NoLater
  BY <1>0, <1>d, CancelLinks DEF NoLater
<1>1. ASSUME NEW o \in Orders, CreatePurchase(o) PROVE LinkFollowsAttempts' /\ NoLater
  <2>1. /\ status[o] = "none" /\ UNCHANGED left
        /\ \E c : context' = [context EXCEPT ![o] = c]
        /\ status' = [status EXCEPT ![o] = "pending"]
    BY <1>1 DEF CreatePurchase, timerVars
  <2>2. Linked(o)'
    BY <2>1 DEF Linked, LinkFollowsAttempts, TypeOK, PurchaseTypes
  <2>3. ASSUME NEW p \in Orders \ {o} PROVE Calm(p)
    BY <2>1, StaysOpened DEF Calm, TypeOK, ContextTypes
  <2> QED BY <1>0, <2>1, <2>2, <2>3, CalmKeepsLink DEF LinkFollowsAttempts, NoLater
<1>2. ASSUME NEW o \in Orders, Reconcile(o) PROVE LinkFollowsAttempts' /\ NoLater
  <2>1. \/ UNCHANGED <<context, left>>
        \/ TriggerPayment("reconciler", o, NoMessage)
        \/ \E release, refund : MarkCancelled("reconciler", o, NoMessage, release, refund)
    BY <1>2 DEF Reconcile, LateInventory, timerVars
  <2> QED BY <1>b, <1>c, <1>d, <2>1
<1>3. ASSUME NEW m \in Messages, Consume(m) PROVE LinkFollowsAttempts' /\ NoLater
  <2>1. m.order \in Orders
    BY DEF Messages
  <2>2. \/ UNCHANGED <<context, left>>
        \/ TriggerPayment("consumer", m.order, m)
        \/ \E release, refund : MarkCancelled("consumer", m.order, m, release, refund)
    BY <1>3 DEF Consume, ConfirmPurchase, timerVars
  <2> QED BY <1>b, <1>c, <1>d, <2>1, <2>2
<1>4. ASSUME NEW o \in Orders, LoseContext(o) PROVE LinkFollowsAttempts' /\ NoLater
  <2>1. \A p \in Orders : Calm(p)
    BY <1>4, StaysOpened DEF Calm, LoseContext, Expired, timerVars, TypeOK, ContextTypes
  <2> QED BY <1>4, <1>a, <2>1 DEF LoseContext, timerVars
<1>5. ASSUME NEW t \in Tasks, Resume(t) PROVE LinkFollowsAttempts' /\ NoLater
  <2>1. CASE PaymentInitiated(t) /\ ~UNCHANGED context
    <3> DEFINE o == task[t].order
    <3>1. PICK state : context' = [context EXCEPT ![o].state = state]
      BY <2>1 DEF PaymentInitiated
    <3>2. ~Expired(o) /\ o \in Orders
      BY <2>1, TaskTypes DEF PaymentInitiated, TypeOK
    <3>3. context'[o].attempts = context[o].attempts
      BY <3>1, <3>2 DEF TypeOK, ContextTypes, Expired, Context
    <3> HIDE DEF o
    <3>4. \A p \in Orders : Calm(p)
      BY <2>1, <3>1, <3>2, <3>3, StaysOpened
         DEF Calm, PaymentInitiated, timerVars, TypeOK, ContextTypes
    <3> QED BY <1>a, <2>1, <3>4 DEF PaymentInitiated, timerVars
  <2>2. CASE PurchaseConfirmed(t) /\ ~UNCHANGED context
    <3>1. context' = [context EXCEPT ![task[t].order] = NoContext] /\ UNCHANGED left
      BY <2>2 DEF PurchaseConfirmed, timerVars
    <3>2. \A p \in Orders : Calm(p)
      BY <3>1, StaysOpened DEF Calm, Expired, TypeOK, ContextTypes
    <3> QED BY <1>a, <3>1, <3>2
  <2>3. UNCHANGED left
    BY <1>5 DEF Resume, PaymentInitiated, Released, PurchaseConfirmed, RefundUncollectable, timerVars
  <2> QED BY <1>5, <1>b, <2>1, <2>2, <2>3 DEF Resume, Released, RefundUncollectable
<1>6. CASE Tick
  <2>1. \A o \in Orders : left'[o] = IF left[o] \in (1 - Grace)..Checkout THEN left[o] - 1 ELSE left[o]
    BY <1>6 DEF Tick
  <2>2. UNCHANGED <<status, context>>
    BY <1>6 DEF Tick, purchaseVars
  <2>3. NoLater /\ \A o \in Orders : left[o] = NoLink => left'[o] = NoLink
    BY <1>0, <2>1, SagaConstants DEF NoLater, NoLink
  <2> QED BY <2>2, <2>3 DEF LinkFollowsAttempts, Linked, Expired
<1>7. CASE World
  BY <1>7, <1>b DEF World, InventoryDecides, InventoryAnnounces, InventoryReleases, StartPayment,
     SettlePayment, PaymentAnnounces, Announce, Pay, timerVars
<1>8. CASE \/ \E m \in Messages : ConsumeFails(m)
           \/ StartPass \/ PassFails \/ Crash \/ UNCHANGED vars
  BY <1>8, <1>b DEF ConsumeFails, StartPass, PassFails, Crash, timerVars, vars
<1> QED BY <1>1, <1>2, <1>3, <1>4, <1>5, <1>6, <1>7, <1>8 DEF Next, Service

\* The link of a payment expires when the customer was told it would, through
\* every retry, restart and lost context.
THEOREM LinkKeepsItsHour == Spec => LinkNeverExtended
<1>1. Init => LinkFollowsAttempts
  BY DEF Init, LinkFollowsAttempts, Linked, Expired
<1>2. TypeOK /\ LinkFollowsAttempts /\ [Next]_vars => LinkFollowsAttempts' /\ NoLater
  BY NextLinks
<1>3. NoLater => \A o \in Orders : left[o] # NoLink => left'[o] <= left[o]
  BY DEF NoLater
<1> QED BY <1>1, <1>2, <1>3, TypeCorrect, PTL DEF Spec, LinkNeverExtended
-------------------------------------------------------------------------------
(* Stock and payment.                                                      *)

Started == ContextState \ {"awaiting_inventory"}
Waiting == {"pending_inventory", "payment_initiated", "awaiting_payment_result", "payment_retry"}

\* What the announcements, the context, the rows and the pass say of the stock
\* of an order, and what a handler that asked for the payment still relies on.
KnownOf(o) ==
  /\ Message("inventory.reserved", o) \in inbox => Reserved(o)
  /\ Message("inventory.insufficient", o) \in inbox => inventory[o] = "insufficient"
  /\ inventory[o] = "released" => releases[o] > 0
  /\ context[o].state \in Started => Reserved(o)
  /\ status[o] = "pending" => paymentStatus[o] \in Waiting
  /\ o \in pass.todo => pass.seen[o] \in Waiting
StockKnown ==
  /\ PaymentNeedsStock
  /\ \A o \in Orders : KnownOf(o)
  /\ \A t \in Tasks : task[t].at = "initiating" => Reserved(task[t].order)

\* A step that asks for no payment of stock that is not reserved.
Prudent ==
  /\ inbox' \subseteq inbox
  /\ \A o \in pass'.todo : o \in pass.todo /\ pass'.seen[o] = pass.seen[o]
  /\ UNCHANGED inventory /\ \A o \in Orders : releases'[o] >= releases[o]
  /\ \A o \in Orders :
       /\ "payment.initiated" \in published'[o] => "payment.initiated" \in published[o] \/ Reserved(o)
       /\ context'[o].state \in Started => context[o].state \in Started \/ Reserved(o)
       /\ status'[o] = "pending" => paymentStatus'[o] \in Waiting
  /\ \A t \in Tasks : task'[t].at = "initiating" => task'[t] = task[t] \/ Reserved(task'[t].order)

LEMMA PrudentKnows ==
  ASSUME TypeOK, TypeOK', StockKnown, Prudent
  PROVE  StockKnown'
<1>1. \A o \in Orders : releases[o] \in Nat /\ releases'[o] \in Nat
  BY DEF TypeOK, SentTypes
<1>2. ASSUME NEW o \in Orders PROVE Reserved(o)' = Reserved(o)
  BY DEF Prudent, Reserved
<1>3. PaymentNeedsStock'
  BY <1>2 DEF Prudent, StockKnown, PaymentNeedsStock
<1>4. ASSUME NEW o \in Orders PROVE KnownOf(o)'
  <2>1. KnownOf(o)
    BY DEF StockKnown
  <2> QED BY <1>1, <1>2, <2>1 DEF Prudent, KnownOf, Message
<1>5. ASSUME NEW t \in Tasks, task'[t].at = "initiating" PROVE Reserved(task[t].order)'
  <2>1. task'[t].order \in Orders
    BY <1>5 DEF TypeOK, FlowTypes, Suspended, Idle
  <2> QED BY <1>2, <1>5, <2>1 DEF Prudent, StockKnown
<1> QED BY <1>3, <1>4, <1>5 DEF StockKnown

\* The ways a handler waits (at w) or ends; however it does, the messages and
\* the pass only shrink.
Ends(t, w, o, m) ==
  Suspend(t, w, o, m) \/ (Commit(t, o, m) /\ Leave(t, o)) \/ Interrupt(t, o, m) \/ Restart
Shrinks(w, o) ==
  /\ inbox' \subseteq inbox
  /\ \A p \in pass'.todo : p \in pass.todo /\ pass'.seen[p] = pass.seen[p]
  /\ \A u \in Tasks : task'[u].at = "initiating" =>
       task'[u] = task[u] \/ (w = "initiating" /\ task'[u].order = o)

LEMMA EndingShrinks ==
  ASSUME TypeOK, NEW t \in Tasks, NEW o \in Orders, NEW m, NEW w \in Awaits, Ends(t, w, o, m)
  PROVE  Shrinks(w, o)
<1> USE DEF Ends
<1>1. inbox' \subseteq inbox
  BY DEF Suspend, Commit, Interrupt, Raise, Restart
<1>2. \A p \in pass'.todo : p \in pass.todo /\ pass'.seen[p] = pass.seen[p]
  <2>1. pass' \in {pass, NoPass}
        \/ pass' = [todo |-> pass.todo \ {o}, seen |-> [pass.seen EXCEPT ![o] = "none"]]
    BY DEF Suspend, Leave, Interrupt, Raise, Restart
  <2> QED BY <2>1 DEF NoPass, TypeOK, FlowTypes
<1>3. ASSUME NEW u \in Tasks, task'[u].at = "initiating"
      PROVE  task'[u] = task[u] \/ (w = "initiating" /\ task'[u].order = o)
  <2>1. \/ task' = [task EXCEPT ![t] = [at |-> w, order |-> o, msg |-> m]]
        \/ task' = [task EXCEPT ![t] = Idle]
        \/ task' = [v \in Tasks |-> Idle]
    BY DEF Suspend, Commit, Interrupt, Raise, Restart
  <2> QED BY <1>3, <2>1 DEF Idle, TypeOK, FlowTypes
<1> QED BY <1>1, <1>2, <1>3 DEF Shrinks

LEMMA CancelPrudent ==
  ASSUME TypeOK, StockKnown, NEW t \in Tasks, NEW o \in Orders, NEW m,
         NEW release, NEW refund, MarkCancelled(t, o, m, release, refund)
  PROVE  Prudent
<1>1. \/ Ends(t, "refunding", o, m) \/ Ends(t, "releasing", o, m)
      \/ Ends(t, "releasing_to_refund", o, m)
  <2>1. \/ Finish(t, o, m) \/ Interrupt(t, o, m) \/ Suspend(t, "refunding", o, m)
        \/ Suspend(t, "releasing", o, m) \/ Suspend(t, "releasing_to_refund", o, m)
    BY DEF MarkCancelled, AlreadyDecided
  <2> QED BY <2>1 DEF Ends, Finish
<1>2. Shrinks("refunding", o) \/ Shrinks("releasing", o) \/ Shrinks("releasing_to_refund", o)
  BY <1>1, EndingShrinks DEF Awaits
<1>3. /\ UNCHANGED <<published, inventory>>
      /\ UNCHANGED <<status, paymentStatus>> \/ status' = [status EXCEPT ![o] = "cancelled"]
      /\ \A p \in Orders \ {o} : paymentStatus'[p] = paymentStatus[p]
      /\ UNCHANGED context \/ context' = [context EXCEPT ![o] = NoContext]
      /\ UNCHANGED releases \/ releases' = [releases EXCEPT ![o] = @ + 1]
  BY DEF MarkCancelled, PublishRelease, purchaseVars, worldVars, TypeOK, PurchaseTypes
<1>4. \A p \in Orders : releases'[p] >= releases[p]
  BY <1>3 DEF TypeOK, SentTypes
<1>5. ASSUME NEW p \in Orders
      PROVE  /\ context'[p].state \in Started => context[p].state \in Started
             /\ status'[p] = "pending" => paymentStatus'[p] \in Waiting
  <2>1. KnownOf(p)
    BY DEF StockKnown
  <2> QED BY <1>3, <2>1 DEF KnownOf, NoContext, Started, ContextState, TypeOK, ContextTypes, PurchaseTypes
<1> QED BY <1>2, <1>3, <1>4, <1>5 DEF Prudent, Shrinks

LEMMA TriggerPrudent ==
  ASSUME TypeOK, StockKnown, NEW t \in Tasks, NEW o \in Orders, NEW m,
         TriggerPayment(t, o, m), Reserved(o)
  PROVE  Prudent
<1>1. CASE MarkCancelled(t, o, m, TRUE, FALSE)
  BY <1>1, CancelPrudent
<1>2. CASE ~MarkCancelled(t, o, m, TRUE, FALSE)
  <2>1. /\ Finish(t, o, m) \/ Interrupt(t, o, m) \/ Suspend(t, "initiating", o, m)
        /\ UNCHANGED <<status, releases, inventory>>
        /\ \A p \in Orders \ {o} : published'[p] = published[p] /\ context'[p] = context[p]
        /\ \/ UNCHANGED paymentStatus
           \/ paymentStatus' = [paymentStatus EXCEPT ![o] = "payment_initiated"]
    BY <1>2 DEF TriggerPayment, Publish, purchaseVars, sentVars, worldVars, TypeOK, SentTypes, ContextTypes
  <2>2. "initiating" \in Awaits /\ Ends(t, "initiating", o, m)
    BY <2>1 DEF Awaits, Ends, Finish
  <2>3. Shrinks("initiating", o)
    BY <2>2, EndingShrinks
  <2>4. ASSUME NEW p \in Orders PROVE status'[p] = "pending" => paymentStatus'[p] \in Waiting
    <3>1. KnownOf(p)
      BY DEF StockKnown
    <3> QED BY <2>1, <3>1 DEF KnownOf, Waiting, TypeOK, PurchaseTypes
  <2>5. \A p \in Orders : releases'[p] >= releases[p]
    BY <2>1 DEF TypeOK, SentTypes
  <2> QED BY <2>1, <2>3, <2>4, <2>5 DEF Prudent, Shrinks
<1> QED BY <1>1, <1>2

LEMMA ConfirmPrudent ==
  ASSUME TypeOK, StockKnown, NEW t \in Tasks, NEW o \in Orders, NEW m, ConfirmPurchase(t, o, m)
  PROVE  Prudent
<1>1. CASE MarkCancelled(t, o, m, TRUE, TRUE)
  BY <1>1, CancelPrudent
<1>2. CASE ~MarkCancelled(t, o, m, TRUE, TRUE)
  <2>1. /\ \/ Finish(t, o, m) \/ Interrupt(t, o, m)
           \/ Suspend(t, "refunding", o, m) \/ Suspend(t, "confirming", o, m)
        /\ UNCHANGED <<context, releases, inventory>>
        /\ UNCHANGED published \/ published' = [published EXCEPT ![o] = @ \cup {"purchase.confirmed"}]
        /\ UNCHANGED <<status, paymentStatus>> \/ status' = [status EXCEPT ![o] = "confirmed"]
        /\ \A p \in Orders \ {o} : paymentStatus'[p] = paymentStatus[p]
    BY <1>2 DEF ConfirmPurchase, Publish, LateReturned, SeatsFree, purchaseVars, sentVars, worldVars,
       TypeOK, PurchaseTypes
  <2>a. Ends(t, "refunding", o, m) \/ Ends(t, "confirming", o, m)
    BY <2>1 DEF Ends, Finish
  <2>2. Shrinks("refunding", o) \/ Shrinks("confirming", o)
    BY <2>a, EndingShrinks DEF Awaits
  <2>3. ASSUME NEW p \in Orders
        PROVE  /\ status'[p] = "pending" => paymentStatus'[p] \in Waiting
               /\ "payment.initiated" \in published'[p] => "payment.initiated" \in published[p]
    <3>1. KnownOf(p)
      BY DEF StockKnown
    <3> QED BY <2>1, <3>1 DEF KnownOf, TypeOK, PurchaseTypes, SentTypes
  <2>4. \A p \in Orders : releases'[p] >= releases[p]
    BY <2>1 DEF TypeOK, SentTypes
  <2> QED BY <2>1, <2>2, <2>3, <2>4 DEF Prudent, Shrinks
<1> QED BY <1>1, <1>2

\* A step that ends a handler, or stops the process, and changes nothing else.
LEMMA QuietPrudent ==
  ASSUME TypeOK, StockKnown, NEW t \in Tasks, NEW o \in Orders, NEW m, Ends(t, "refunding", o, m),
         UNCHANGED <<purchaseVars, context, sentVars, inventory>>
  PROVE  Prudent
<1>1. Shrinks("refunding", o)
  BY EndingShrinks DEF Awaits
<1>2. \A p \in Orders : releases'[p] >= releases[p]
  BY DEF sentVars, TypeOK, SentTypes
<1> QED BY <1>1, <1>2 DEF Prudent, Shrinks, StockKnown, KnownOf, purchaseVars, sentVars

LEMMA CreatePrudent ==
  ASSUME TypeOK, StockKnown, NEW o \in Orders, CreatePurchase(o)
  PROVE  Prudent
<1>1. Shrinks("refunding", o)
  <2>1. CASE Restart
    BY <2>1, EndingShrinks DEF Ends, Awaits, Tasks
  <2>2. CASE UNCHANGED flowVars
    BY <2>2 DEF Shrinks, flowVars
  <2> QED BY <2>1, <2>2 DEF CreatePurchase, NewContext
<1>2. /\ UNCHANGED <<inventory, releases>>
      /\ status' = [status EXCEPT ![o] = "pending"]
      /\ paymentStatus' = [paymentStatus EXCEPT ![o] = "pending_inventory"]
      /\ UNCHANGED published \/ published' = [published EXCEPT ![o] = @ \cup {"order.created"}]
      /\ \/ context' = [context EXCEPT ![o] = NewContext]
         \/ context' = [context EXCEPT ![o] = NoContext]
  BY DEF CreatePurchase, Publish, worldVars
<1>3. \A p \in Orders : releases'[p] >= releases[p]
  BY <1>2 DEF TypeOK, SentTypes
<1>4. ASSUME NEW p \in Orders
      PROVE  /\ context'[p].state \in Started => context[p].state \in Started
             /\ status'[p] = "pending" => paymentStatus'[p] \in Waiting
             /\ "payment.initiated" \in published'[p] => "payment.initiated" \in published[p]
  <2>1. KnownOf(p)
    BY DEF StockKnown
  <2> QED
    BY <1>2, <2>1 DEF KnownOf, Started, ContextState, Waiting, NewContext, NoContext, TypeOK,
       ContextTypes, PurchaseTypes, SentTypes
<1> QED BY <1>1, <1>2, <1>3, <1>4 DEF Prudent, Shrinks

LEMMA ReconcilePrudent ==
  ASSUME TypeOK, StockKnown, NEW o \in Orders, Reconcile(o)
  PROVE  Prudent
<1> DEFINE t == "reconciler"
<1>1. t \in Tasks
  BY DEF Tasks
<1>2. CASE Finish(t, o, NoMessage)
           /\ UNCHANGED <<purchaseVars, context, timerVars, sentVars, worldVars>>
  BY <1>1, <1>2, QuietPrudent DEF Ends, Finish, worldVars
<1>3. CASE \E release, refund : MarkCancelled(t, o, NoMessage, release, refund)
  BY <1>1, <1>3, CancelPrudent
<1>4. ASSUME TriggerPayment(t, o, NoMessage),
             \/ inventory[o] = "reserved"
             \/ context[o].state \in {"payment_retry", "awaiting_payment_result"}
      PROVE  Prudent
  <2>1. Reserved(o)
    BY <1>4 DEF StockKnown, KnownOf, Started, ContextState, Reserved
  <2> QED BY <1>1, <1>4, <2>1, TriggerPrudent
<1> QED BY <1>2, <1>3, <1>4 DEF Reconcile, LateInventory

LEMMA ConsumePrudent ==
  ASSUME TypeOK, StockKnown, NEW m \in Messages, Consume(m) \/ ConsumeFails(m)
  PROVE  Prudent
<1> DEFINE o == m.order
           t == "consumer"
<1>1. t \in Tasks /\ o \in Orders /\ m = Message(m.topic, o)
  BY DEF Tasks, Messages, Message
<1>2. CASE ConsumeFails(m)
  BY <1>1, <1>2, QuietPrudent DEF ConsumeFails, Ends, Interrupt, worldVars
<1>3. CASE Finish(t, o, m) /\ UNCHANGED <<purchaseVars, context, timerVars, sentVars, worldVars>>
  BY <1>1, <1>3, QuietPrudent DEF Ends, Finish, worldVars
<1>4. CASE \E release, refund : MarkCancelled(t, o, m, release, refund)
  BY <1>1, <1>4, CancelPrudent
<1>5. CASE ConfirmPurchase(t, o, m)
  BY <1>1, <1>5, ConfirmPrudent
<1>6. CASE TriggerPayment(t, o, m) /\ m.topic = "inventory.reserved" /\ m \in inbox
  BY <1>1, <1>6, TriggerPrudent DEF StockKnown, KnownOf
<1> QED BY <1>2, <1>3, <1>4, <1>5, <1>6 DEF Consume

LEMMA ResumePrudent ==
  ASSUME TypeOK, StockKnown, NEW t \in Tasks, Resume(t)
  PROVE  Prudent
<1> DEFINE o == task[t].order
           m == task[t].msg
<1>1. o \in Orders
  BY TaskTypes DEF TypeOK, Resume, PaymentInitiated, Released, PurchaseConfirmed, RefundUncollectable
<1>2. UNCHANGED <<status, published, releases, inventory>>
  BY DEF Resume, PaymentInitiated, Released, PurchaseConfirmed, RefundUncollectable,
     purchaseVars, sentVars, worldVars
<1>3. Ends(t, "refunding", o, m)
  <2>1. \/ Finish(t, o, m) \/ Raise(t, o, m) \/ Restart \/ Suspend(t, "refunding", o, m)
        \/ Commit(t, o, m) /\ Leave(t, o)
    BY DEF Resume, PaymentInitiated, Released, PurchaseConfirmed, RefundUncollectable, Interrupt
  <2> QED BY <2>1 DEF Ends, Finish, Interrupt
<1>4. Shrinks("refunding", o)
  BY <1>1, <1>3, EndingShrinks DEF Awaits
<1>5. \/ UNCHANGED paymentStatus
      \/ \E s \in Waiting : paymentStatus' = [paymentStatus EXCEPT ![o] = s]
  BY DEF Resume, PaymentInitiated, Released, PurchaseConfirmed, RefundUncollectable, purchaseVars, Waiting
<1>6. \/ UNCHANGED context
      \/ task[t].at = "initiating" /\ \E s : context' = [context EXCEPT ![o].state = s]
      \/ context' = [context EXCEPT ![o] = NoContext]
  BY DEF Resume, PaymentInitiated, Released, PurchaseConfirmed, RefundUncollectable
<1>7. \A p \in Orders : releases'[p] >= releases[p]
  BY <1>2 DEF TypeOK, SentTypes
<1>8. ASSUME NEW p \in Orders
      PROVE  /\ context'[p].state \in Started => context[p].state \in Started \/ Reserved(p)
             /\ status'[p] = "pending" => paymentStatus'[p] \in Waiting
  <2>1. KnownOf(p) /\ (task[t].at = "initiating" => Reserved(o))
    BY DEF StockKnown
  <2>2. context'[p].state \in Started => context[p].state \in Started \/ Reserved(p)
    <3>1. CASE context' = [context EXCEPT ![o] = NoContext]
      BY <3>1 DEF NoContext, Started, ContextState, TypeOK, ContextTypes
    <3>2. CASE task[t].at = "initiating" /\ \E s : context' = [context EXCEPT ![o].state = s]
      <4>1. p = o => Reserved(p)
        BY <2>1, <3>2
      <4>2. p # o => context'[p] = context[p]
        BY <3>2 DEF TypeOK, ContextTypes
      <4> QED BY <4>1, <4>2
    <3> QED BY <1>6, <3>1, <3>2
  <2> QED BY <1>2, <1>5, <2>1, <2>2 DEF KnownOf, TypeOK, PurchaseTypes
<1> QED BY <1>2, <1>4, <1>7, <1>8 DEF Prudent, Shrinks

LEMMA WorldKnows ==
  ASSUME TypeOK, StockKnown, World
  PROVE  StockKnown'
<1>1. PICK o \in Orders :
        \/ InventoryDecides(o) \/ InventoryAnnounces(o) \/ InventoryReleases(o)
        \/ StartPayment(o) \/ SettlePayment(o) \/ PaymentAnnounces(o)
  BY DEF World
<1>2. CASE InventoryAnnounces(o) \/ PaymentAnnounces(o)
  <2>1. /\ UNCHANGED <<purchaseVars, context, sentVars, inventory, task, pass>>
        /\ inbox' \subseteq inbox \cup {Message(topic, o) : topic \in Handled}
        /\ Message("inventory.reserved", o) \in inbox' =>
             Message("inventory.reserved", o) \in inbox \/ Reserved(o)
        /\ Message("inventory.insufficient", o) \in inbox' =>
             Message("inventory.insufficient", o) \in inbox \/ inventory[o] = "insufficient"
    BY <1>2 DEF InventoryAnnounces, PaymentAnnounces, Announce, Message, Handled, Reserved, worldVars
  <2>2. ASSUME NEW p \in Orders PROVE KnownOf(p)'
    <3>1. KnownOf(p)
      BY DEF StockKnown
    <3> QED BY <2>1, <3>1 DEF KnownOf, Reserved, Message, purchaseVars, sentVars
  <2> QED BY <2>1, <2>2 DEF StockKnown, PaymentNeedsStock, Reserved, sentVars
<1>3. CASE InventoryDecides(o) \/ InventoryReleases(o)
  <2>1. /\ UNCHANGED <<purchaseVars, context, sentVars, inbox, task, pass>>
        /\ \A p \in Orders \ {o} : inventory'[p] = inventory[p]
        /\ \/ inventory[o] = "none" /\ inventory'[o] \in {"reserved", "insufficient"}
           \/ inventory[o] = "reserved" /\ inventory'[o] = "released" /\ releases[o] > 0
    BY <1>3, SagaConstants DEF InventoryDecides, InventoryReleases, flowVars, TypeOK, WorldTypes
  <2>2. \A p \in Orders : Reserved(p) => Reserved(p)'
    BY <2>1 DEF Reserved
  <2>3. ASSUME NEW p \in Orders PROVE KnownOf(p)'
    <3>1. KnownOf(p)
      BY DEF StockKnown
    <3> QED BY <2>1, <2>2, <3>1 DEF KnownOf, Message, purchaseVars, sentVars
  <2>4. \A t \in Tasks : task[t].at = "initiating" => task[t].order \in Orders
    BY TaskTypes DEF TypeOK
  <2> QED BY <2>1, <2>2, <2>3, <2>4 DEF StockKnown, PaymentNeedsStock, sentVars
<1>4. CASE StartPayment(o) \/ SettlePayment(o)
  BY <1>4 DEF StartPayment, SettlePayment, Pay, StockKnown, PaymentNeedsStock, KnownOf, Reserved,
     purchaseVars, sentVars, flowVars
<1> QED BY <1>1, <1>2, <1>3, <1>4

LEMMA NextKnows == TypeOK /\ StockKnown /\ [Next]_vars => StockKnown'
<1> SUFFICES ASSUME TypeOK, StockKnown, [Next]_vars PROVE StockKnown'
  OBVIOUS
<1>1. TypeOK'
  BY NextTypes
<1>2. CASE Prudent
  BY <1>1, <1>2, PrudentKnows
<1>3. CASE StartPass
  <2>1. /\ UNCHANGED <<purchaseVars, context, sentVars, inventory, inbox, task>>
        /\ \A o \in pass'.todo : status[o] = "pending" /\ pass'.seen[o] = paymentStatus[o]
    BY <1>3 DEF StartPass, Seen, worldVars
  <2>2. ASSUME NEW o \in Orders PROVE KnownOf(o)'
    <3>1. KnownOf(o)
      BY DEF StockKnown
    <3> QED BY <2>1, <3>1 DEF KnownOf, Reserved, purchaseVars, sentVars
  <2> QED BY <2>1, <2>2 DEF StockKnown, PaymentNeedsStock, Reserved, sentVars
<1>4. CASE Crash \/ PassFails
  <2>1. Orders # {} =>
          \E t \in Tasks, o \in Orders : Ends(t, "refunding", o, NoMessage)
    BY <1>4 DEF Crash, PassFails, Ends, Interrupt, Tasks, TypeOK, FlowTypes
  <2>2. UNCHANGED <<purchaseVars, context, sentVars, inventory>>
    BY <1>4 DEF Crash, PassFails, worldVars
  <2>3. CASE Orders # {}
    BY <1>2, <2>1, <2>2, <2>3, QuietPrudent
  <2>4. CASE Orders = {}
    BY <1>4, <2>4 DEF Crash, PassFails, Restart, TypeOK, FlowTypes, StockKnown, PaymentNeedsStock, Idle
  <2> QED BY <2>3, <2>4
<1>5. CASE Tick \/ UNCHANGED vars
  BY <1>5 DEF Tick, StockKnown, PaymentNeedsStock, KnownOf, Reserved, vars, purchaseVars, sentVars,
     flowVars, worldVars
<1>6. ASSUME NEW o \in Orders, LoseContext(o) PROVE StockKnown'
  <2>1. /\ UNCHANGED <<purchaseVars, sentVars, inventory, inbox, task, pass>>
        /\ \A p \in Orders : context'[p].state \in Started => context[p].state \in Started
    BY <1>6 DEF LoseContext, Evicted, Started, ContextState, worldVars, flowVars, TypeOK, ContextTypes
  <2> QED BY <2>1 DEF StockKnown, PaymentNeedsStock, KnownOf, Reserved, purchaseVars, sentVars
<1> QED
  BY <1>2, <1>3, <1>4, <1>5, <1>6, WorldKnows, CreatePrudent, ReconcilePrudent, ConsumePrudent,
     ResumePrudent DEF Next, Service

LEMMA InitKnows == Init => StockKnown
BY DEF Init, StockKnown, PaymentNeedsStock, KnownOf, Started, ContextState, NoContext, NoPass, Idle, Tasks

\* A customer is asked to pay only for stock that inventory-service reserved,
\* however its announcements, the passes of the reconciler and faults interleave.
THEOREM PaymentFollowsStock == Spec => []PaymentNeedsStock
<1>1. StockKnown => PaymentNeedsStock
  BY DEF StockKnown
<1> QED BY <1>1, InitKnows, NextKnows, TypeCorrect, PTL DEF Spec
-------------------------------------------------------------------------------
(* Stock is released with the purchase, as long as nothing fails.          *)

\* Nothing has failed so far but calls that return money.
Undisturbed == "blind" \notin FaultKinds /\ (faults = 0 \/ FaultKinds \subseteq {"refund"})

\* The contexts live as long as their orders are pending: they are deleted with
\* the cancellation and lost in no other way.
ContextFollows ==
  \A o \in Orders : /\ context[o] # Evicted
                    /\ status[o] = "pending" => context[o] # NoContext
                    /\ status[o] = "cancelled" => context[o] = NoContext
Orderly == ContextFollows /\ StockFollowsPayment

LEMMA OnlyRefundsFail ==
  ASSUME TypeOK, Undisturbed', NEW kind, Fault(kind)
  PROVE  kind = "refund"
BY SagaConstants DEF TypeOK, FaultTypes, Undisturbed, Fault

\* Faults are never taken back.
LEMMA FaultsAddUp ==
  ASSUME TypeOK, [Next]_vars, Undisturbed'
  PROVE  Undisturbed
<1> DEFINE Counted == NoFault \/ \E kind : Fault(kind)
<1>1. ASSUME NEW t, NEW o, NEW m, Interrupt(t, o, m) \/ Restart \/ Raise(t, o, m)
      PROVE  Counted
  BY <1>1 DEF Interrupt, Raise, Restart
<1>2. ASSUME NEW o, NEW topic, Publish(o, topic) \/ PublishRelease(o)
      PROVE  Counted
  BY <1>2 DEF Publish, PublishRelease
<1>3. ASSUME NEW t, NEW o, NEW m, NEW release, NEW refund, MarkCancelled(t, o, m, release, refund)
      PROVE  Counted
  <2> HIDE DEF Counted
  <2>1. NoFault \/ PublishRelease(o) \/ Interrupt(t, o, m)
    BY <1>3 DEF MarkCancelled, AlreadyDecided
  <2>2. NoFault => Counted
    BY DEF Counted
  <2> QED BY <1>1, <1>2, <2>1, <2>2
<1>4. ASSUME NEW t, NEW o, NEW m, TriggerPayment(t, o, m)
      PROVE  Counted
  BY <1>1, <1>2, <1>3, <1>4 DEF TriggerPayment
<1>5. ASSUME NEW t, NEW o, NEW m, ConfirmPurchase(t, o, m)
      PROVE  Counted
  BY <1>1, <1>2, <1>3, <1>5 DEF ConfirmPurchase, LateReturned, SeatsFree
<1>6. ASSUME NEW t, Resume(t)
      PROVE  Counted
  BY <1>1, <1>6 DEF Resume, PaymentInitiated, Released, PurchaseConfirmed, RefundUncollectable, NoFault
<1>7. ASSUME NEW o \in Orders, CreatePurchase(o) \/ Reconcile(o) \/ LoseContext(o)
      PROVE  Counted
  BY <1>1, <1>2, <1>3, <1>4, <1>7 DEF CreatePurchase, Reconcile, LateInventory, LoseContext
<1>8. ASSUME NEW m \in Messages, Consume(m) \/ ConsumeFails(m)
      PROVE  Counted
  BY <1>1, <1>3, <1>4, <1>5, <1>8 DEF Consume, ConsumeFails
<1>9. NoFault => Counted
  OBVIOUS
<1> HIDE DEF Counted
<1>10. PassFails \/ Crash => Counted
  BY <1>1 DEF PassFails, Crash
<1>11. ASSUME StartPass \/ Tick \/ UNCHANGED vars \/ World
       PROVE  Counted
  <2>1. NoFault
    BY <1>11 DEF StartPass, Tick, vars, World, InventoryDecides, InventoryAnnounces,
       InventoryReleases, StartPayment, SettlePayment, PaymentAnnounces, Announce, Pay, NoFault
  <2> QED BY <1>9, <2>1
<1>a. Counted
  BY <1>6, <1>7, <1>8, <1>10, <1>11 DEF Next, Service
<1>12. faults \in Nat /\ (faults' = faults \/ faults' = faults + 1)
  BY <1>a, SagaConstants DEF Counted, TypeOK, FaultTypes, NoFault, Fault
<1> QED BY <1>12 DEF Undisturbed

LEMMA CancelOrderly ==
  ASSUME TypeOK, Decisive, Orderly, Undisturbed', NEW t, NEW o \in Orders, NEW m,
         NEW release \in BOOLEAN, NEW refund, MarkCancelled(t, o, m, release, refund),
         status[o] = "pending" /\ "payment.initiated" \in published[o] => release
  PROVE  Orderly'
<1>1. CASE UNCHANGED <<status, context, published, releases>>
  BY <1>1 DEF Orderly, ContextFollows, StockFollowsPayment, Expired
<1>2. CASE status[o] = "pending"
  <2>1. ~Interrupt(t, o, m) /\ ~Fault("publish")
    BY OnlyRefundsFail DEF Interrupt, Raise, Restart
  <2>2. /\ status' = [status EXCEPT ![o] = "cancelled"]
        /\ context' = [context EXCEPT ![o] = NoContext]
        /\ UNCHANGED published
        /\ releases' = IF release THEN [releases EXCEPT ![o] = @ + 1] ELSE releases
    BY <1>2, <2>1 DEF MarkCancelled, AlreadyDecided, PublishRelease
  <2>3. releases[o] = 0
    BY <1>2 DEF Decisive, OutboxMatchesDecision, TypeOK, SentTypes
  <2>4. ContextFollows'
    BY <2>2 DEF Orderly, ContextFollows, Expired, NoContext, Evicted, TypeOK, PurchaseTypes, ContextTypes
  <2>5. "payment.initiated" \in published[o] => releases'[o] = 1
    BY <1>2, <2>2, <2>3 DEF TypeOK, SentTypes
  <2>6. StockFollowsPayment'
    BY <2>2, <2>5 DEF Orderly, StockFollowsPayment, TypeOK, PurchaseTypes, SentTypes
  <2> QED BY <2>4, <2>6 DEF Orderly
<1> QED BY <1>1, <1>2 DEF MarkCancelled, AlreadyDecided, purchaseVars

LEMMA TriggerOrderly ==
  ASSUME TypeOK, Decisive, Orderly, Undisturbed', NEW t, NEW o \in Orders, NEW m,
         TriggerPayment(t, o, m)
  PROVE  Orderly'
<1>1. CASE MarkCancelled(t, o, m, TRUE, FALSE)
  BY <1>1, CancelOrderly
<1>2. CASE UNCHANGED <<status, context, published, releases>>
  BY <1>2 DEF Orderly, ContextFollows, StockFollowsPayment, Expired
<1>3. CASE ~MarkCancelled(t, o, m, TRUE, FALSE) /\ ~UNCHANGED <<status, context, published, releases>>
  <2>1. /\ ~Expired(o) /\ UNCHANGED <<status, releases>>
        /\ \E a : context' = [context EXCEPT ![o] = [state |-> "payment_initiated", attempts |-> a]]
        /\ \A p \in Orders \ {o} : published'[p] = published[p]
    BY <1>3 DEF TriggerPayment, Publish, purchaseVars, sentVars, TypeOK, SentTypes
  <2>2. status[o] # "cancelled"
    BY <2>1 DEF Orderly, ContextFollows, Expired
  <2>3. ContextFollows'
    BY <2>1, <2>2 DEF Orderly, ContextFollows, Expired, NoContext, Evicted, TypeOK, ContextTypes
  <2>4. StockFollowsPayment'
    BY <2>1, <2>2 DEF Orderly, StockFollowsPayment
  <2> QED BY <2>3, <2>4 DEF Orderly
<1> QED BY <1>1, <1>2, <1>3

LEMMA ConfirmOrderly ==
  ASSUME TypeOK, Decisive, Orderly, Undisturbed', NEW t, NEW o \in Orders, NEW m,
         ConfirmPurchase(t, o, m)
  PROVE  Orderly'
<1>1. CASE MarkCancelled(t, o, m, TRUE, TRUE)
  BY <1>1, CancelOrderly
<1>2. CASE UNCHANGED <<status, context, published, releases>>
  BY <1>2 DEF Orderly, ContextFollows, StockFollowsPayment, Expired
<1>3. CASE ~MarkCancelled(t, o, m, TRUE, TRUE) /\ ~UNCHANGED <<status, context, published, releases>>
  <2>1. /\ status' = [status EXCEPT ![o] = "confirmed"] /\ UNCHANGED <<context, releases>>
        /\ \A p \in Orders \ {o} : published'[p] = published[p]
    BY <1>3 DEF ConfirmPurchase, LateReturned, SeatsFree, Publish, purchaseVars, sentVars, TypeOK, SentTypes
  <2> QED BY <2>1 DEF Orderly, ContextFollows, StockFollowsPayment, Expired, TypeOK, PurchaseTypes
<1> QED BY <1>1, <1>2, <1>3

LEMMA SameOrderly ==
  ASSUME Orderly, UNCHANGED <<status, context, published, releases>>
  PROVE  Orderly'
BY DEF Orderly, ContextFollows, StockFollowsPayment, Expired

\* The row that the pass read may be old; what it says is still enough to know
\* that the stock of an order which started to pay has to go back.
LEMMA ReconcileOrderly ==
  ASSUME TypeOK, Decisive, StockKnown, Orderly, Undisturbed', Undisturbed,
         NEW o \in Orders, Reconcile(o)
  PROVE  Orderly'
<1> DEFINE t == "reconciler"
           Cancels(release, refund) == MarkCancelled(t, o, NoMessage, release, refund)
<1>1. CASE UNCHANGED <<status, context, published, releases>>
  BY <1>1, SameOrderly
<1>2. CASE TriggerPayment(t, o, NoMessage)
  BY <1>2, TriggerOrderly
<1>3. CASE Cancels(TRUE, FALSE) \/ Cancels(TRUE, TRUE)
  BY <1>3, CancelOrderly
<1>4. CASE Expired(o) /\ Cancels(ShouldRelease(o), FALSE)
  <2>1. status[o] # "pending" /\ ShouldRelease(o) \in BOOLEAN
    BY <1>4 DEF Expired, Orderly, ContextFollows, ShouldRelease
  <2> QED BY <1>4, <2>1, CancelOrderly
<1>5. CASE inventory[o] # "reserved" /\ Cancels(FALSE, FALSE)
  <2>1. status[o] = "pending" => "payment.initiated" \notin published[o]
    BY <1>5 DEF StockKnown, PaymentNeedsStock, KnownOf, Reserved, Decisive, OutboxMatchesDecision
  <2> QED BY <1>5, <2>1, CancelOrderly
<1>6. CASE /\ age[o] > Stale /\ Cancels(ShouldRelease(o), FALSE) /\ o \in pass.todo
           /\ ~(pass.seen[o] = "pending_inventory" /\ age[o] > InventoryTimeout)
  <2>1. age[o] > InventoryTimeout
    BY <1>6, SagaConstants DEF TypeOK, TimerTypes
  <2>2. ShouldRelease(o) = TRUE
    BY <1>6, <2>1 DEF ShouldRelease, StockKnown, KnownOf, Waiting
  <2> QED BY <1>6, <2>2, CancelOrderly
<1>7. "blind" \notin FaultKinds
  BY DEF Undisturbed
<1> HIDE DEF Cancels
<1>8. \/ UNCHANGED <<status, context, published, releases>>
      \/ TriggerPayment(t, o, NoMessage)
      \/ Cancels(TRUE, FALSE) \/ Cancels(TRUE, TRUE)
      \/ Expired(o) /\ Cancels(ShouldRelease(o), FALSE)
      \/ inventory[o] # "reserved" /\ Cancels(FALSE, FALSE)
      \/ /\ age[o] > Stale /\ Cancels(ShouldRelease(o), FALSE) /\ o \in pass.todo
         /\ ~(pass.seen[o] = "pending_inventory" /\ age[o] > InventoryTimeout)
  BY <1>7 DEF Reconcile, LateInventory, Cancels, purchaseVars, sentVars
<1> QED BY <1>1, <1>2, <1>3, <1>4, <1>5, <1>6, <1>8

LEMMA ConsumeOrderly ==
  ASSUME TypeOK, Decisive, StockKnown, Orderly, Undisturbed', NEW m \in Messages, Consume(m)
  PROVE  Orderly'
<1> DEFINE o == m.order
           t == "consumer"
<1>1. o \in Orders /\ m = Message(m.topic, o)
  BY DEF Messages, Message
<1>2. CASE UNCHANGED <<purchaseVars, context, timerVars, sentVars, worldVars>>
  BY <1>2, SameOrderly DEF purchaseVars, sentVars
<1>3. CASE TriggerPayment(t, o, m) \/ ConfirmPurchase(t, o, m) \/ MarkCancelled(t, o, m, TRUE, FALSE)
  BY <1>1, <1>3, TriggerOrderly, ConfirmOrderly, CancelOrderly
<1>4. CASE m.topic = "inventory.insufficient" /\ m \in inbox /\ MarkCancelled(t, o, m, FALSE, FALSE)
  <2>1. inventory[o] = "insufficient"
    BY <1>1, <1>4 DEF StockKnown, KnownOf
  <2>2. "payment.initiated" \notin published[o]
    BY <1>1, <2>1 DEF StockKnown, PaymentNeedsStock, Reserved
  <2> QED BY <1>1, <1>4, <2>2, CancelOrderly
<1> QED BY <1>2, <1>3, <1>4 DEF Consume

LEMMA ResumeOrderly ==
  ASSUME TypeOK, TaskShape, Orderly, NEW t \in Tasks, Resume(t)
  PROVE  Orderly'
<1> DEFINE o == task[t].order
           Records(s) == context' = [context EXCEPT ![o].state = s]
           Notes == ~Expired(o) /\ (Records("awaiting_payment_result") \/ Records("payment_retry"))
           Deletes == context' = [context EXCEPT ![o] = NoContext] /\ task[t].at = "confirming"
<1>1. UNCHANGED <<status, published, releases>>
  BY DEF Resume, PaymentInitiated, Released, PurchaseConfirmed, RefundUncollectable, purchaseVars, sentVars
<1>2. CASE UNCHANGED context
  BY <1>1, <1>2, SameOrderly
<1>3. CASE context' = [context EXCEPT ![o] = NoContext] /\ status[o] = "confirmed"
  BY <1>1, <1>3 DEF Orderly, ContextFollows, StockFollowsPayment, Expired, NoContext, Evicted,
     TypeOK, ContextTypes
<1>4. CASE Notes
  <2>1. o \in Orders => context'[o] \notin {Evicted, NoContext} /\ status[o] # "cancelled"
    BY <1>4 DEF Orderly, ContextFollows, Evicted, NoContext, Expired, ContextState, TypeOK,
       ContextTypes, Context
  <2>2. \A p \in Orders \ {o} : context'[p] = context[p]
    BY <1>4 DEF TypeOK, ContextTypes
  <2>3. ContextFollows'
    BY <1>1, <2>1, <2>2 DEF Orderly, ContextFollows, Expired
  <2> QED BY <1>1, <2>3 DEF Orderly, StockFollowsPayment
<1>5. UNCHANGED context \/ Deletes \/ Notes
  <2>1. PaymentInitiated(t) => UNCHANGED context \/ Notes
    BY DEF PaymentInitiated
  <2>2. PurchaseConfirmed(t) => UNCHANGED context \/ Deletes
    BY DEF PurchaseConfirmed
  <2> HIDE DEF Deletes, Notes
  <2> QED BY <2>1, <2>2 DEF Resume, Released, RefundUncollectable
<1>6. task[t].at = "confirming" => status[o] = "confirmed"
  BY TaskTypes DEF TypeOK, TaskShape, Idle
<1> QED BY <1>2, <1>3, <1>4, <1>5, <1>6

LEMMA NextOrderly ==
  ASSUME TypeOK, Decisive, TaskShape, StockKnown, Orderly, Undisturbed, Undisturbed', [Next]_vars
  PROVE  Orderly'
<1>1. ~Restart /\ ~Fault("evict") /\ ~Fault("raise")
  BY OnlyRefundsFail DEF Restart
<1>2. ASSUME NEW o \in Orders, CreatePurchase(o) PROVE Orderly'
  <2>1. /\ status' = [status EXCEPT ![o] = "pending"] /\ UNCHANGED releases
        /\ context' = [context EXCEPT ![o] = NewContext]
        /\ \A p \in Orders \ {o} : published'[p] = published[p]
    BY <1>1, <1>2 DEF CreatePurchase, Publish, TypeOK, SentTypes
  <2>2. ContextFollows'
    BY <2>1 DEF Orderly, ContextFollows, NewContext, NoContext, Evicted, TypeOK, PurchaseTypes, ContextTypes
  <2>3. StockFollowsPayment'
    BY <2>1 DEF Orderly, StockFollowsPayment, TypeOK, PurchaseTypes
  <2> QED BY <2>2, <2>3 DEF Orderly
<1>3. \A o \in Orders : ~LoseContext(o)
  BY <1>1 DEF LoseContext
<1>4. CASE \/ \E m \in Messages : ConsumeFails(m)
           \/ StartPass \/ PassFails \/ Crash \/ Tick \/ World \/ UNCHANGED vars
  <2>1. UNCHANGED <<status, context, published, releases>>
    BY <1>4 DEF ConsumeFails, StartPass, PassFails, Crash, Tick, World, InventoryDecides,
       InventoryAnnounces, InventoryReleases, StartPayment, SettlePayment, PaymentAnnounces,
       Announce, Pay, vars, purchaseVars, sentVars
  <2> QED BY <2>1, SameOrderly
<1> QED
  BY <1>2, <1>3, <1>4, ReconcileOrderly, ConsumeOrderly, ResumeOrderly DEF Next, Service

LEMMA StockHolds == Spec => [](Undisturbed => Orderly)
<1>1. Init => Orderly
  BY DEF Init, Orderly, ContextFollows, StockFollowsPayment, NoContext, Evicted
<1>2. Init => (Undisturbed => Orderly)
  BY <1>1
<1>3. SagaInvariant /\ StockKnown /\ (Undisturbed => Orderly) /\ [Next]_vars => (Undisturbed => Orderly)'
  BY FaultsAddUp, NextOrderly DEF SagaInvariant, Decisive
<1>4. SagaInvariant => TypeOK
  BY DEF SagaInvariant
<1> QED BY <1>2, <1>3, <1>4, InvariantHolds, InitKnows, NextKnows, PTL DEF Spec

\* As long as nothing failed but calls that return money, an order that started
\* to pay and is cancelled has had its stock released, once, even when the
\* reconciler decided on a row it read before the payment began.
THEOREM StockIsReleased == Spec => [](Undisturbed => StockFollowsPayment)
<1>1. (Undisturbed => Orderly) => (Undisturbed => StockFollowsPayment)
  BY DEF Orderly
<1> QED BY <1>1, StockHolds, PTL

\* Where Kafka, Redis, the database and the process do not fail, the stock of
\* every cancelled order that started to pay is released.
THEOREM StockIsAlwaysReleased ==
  ASSUME FaultKinds \subseteq {"refund"}
  PROVE  Spec => []StockFollowsPayment
<1>1. (Undisturbed => StockFollowsPayment) => StockFollowsPayment
  BY DEF Undisturbed
<1> QED BY <1>1, StockIsReleased, PTL
=============================================================================
