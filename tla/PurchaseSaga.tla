----------------------------- MODULE PurchaseSaga -----------------------------
(***************************************************************************)
(* The purchase saga of the booking service: one asyncio process whose     *)
(* Kafka consumer and reconciler share the purchases table, the Redis      *)
(* payment context and the Kafka topics with inventory-service and         *)
(* payment-service.                                                        *)
(*                                                                         *)
(* The event loop is not preemptive, so a step is the code between two     *)
(* awaits that really suspend (a Kafka publish, the refund call).  A task  *)
(* that is suspended records where.  What can go wrong inside a step (the  *)
(* process dies, Redis or the database raises) is a fault that cuts the    *)
(* step after its commit.  Faults are counted and bounded by MaxFaults;    *)
(* FaultKinds says which of them a model allows.                           *)
(*                                                                         *)
(* SeatsOf is what the tickets of an order are labelled with: the selected *)
(* seats, or GENERAL-1, GENERAL-2, ... when none was selected; the query   *)
(* for conflicts and the unique index of the tickets cover both and end    *)
(* in the same way.  Every order here names its function by showtime_id    *)
(* (SeatHolds also has those that do not), and a confirmed order stays so  *)
(* (giving it back is modelled in TicketDesk).                             *)
(***************************************************************************)
EXTENDS Naturals, Integers, FiniteSets

CONSTANTS
  Orders, Seats, SeatsOf,  \* the orders, the seats and those each order asks for
  MaxAttempts,             \* PAYMENT_MAX_INIT_ATTEMPTS
  Guard,                   \* _PAYMENT_IN_FLIGHT_GUARD_SECONDS, in ticks
  Retry,                   \* PAYMENT_RETRY_INTERVAL_SECONDS
  InventoryTimeout,        \* INVENTORY_DECISION_TIMEOUT_SECONDS
  Stale,                   \* PAYMENT_FLOW_STALE_SECONDS
  Checkout,                \* PAYMENT_CHECKOUT_TTL_SECONDS
  Grace,                   \* PAYMENT_RESULT_GRACE_SECONDS
  Decisions, Outcomes,     \* what inventory-service and a payment may answer
  MaxFaults, FaultKinds    \* how many faults, and of which kinds

ASSUME SagaConstants ==
  /\ SeatsOf \in [Orders -> SUBSET Seats]
  /\ {MaxAttempts, Guard, Retry, InventoryTimeout, Checkout} \subseteq Nat \ {0}
  /\ {Stale, Grace, MaxFaults} \subseteq Nat
  /\ Guard <= Retry /\ InventoryTimeout <= Stale /\ Stale <= Checkout
  /\ Decisions \subseteq {"reserved", "insufficient"} /\ Outcomes \subseteq {"captured", "declined"}
  /\ FaultKinds \subseteq {"publish", "raise", "crash", "evict", "blind", "refund"}

VARIABLES
  status,         \* purchases.status of each order; "none" before the insert
  paymentStatus,  \* purchases.payment_info["status"]
  context,        \* the pending payment context in Redis
  age,            \* ticks since created_at, up to Stale + 1
  since,          \* ticks since last_attempt_at, up to Retry + 1
  left,           \* ticks until payment_expires_at, down to -Grace
  published,      \* the topics booking has published for each order
  releases,       \* how many inventory.release were published
  inbox,          \* Kafka messages for booking whose offset is not committed
  task,           \* where the consumer and the reconciler are suspended
  pass,           \* the reconciler's pass: orders left and what it read of them
  due,            \* the reconciler is not sleeping between two passes
  settled,        \* orders whose payment.success was handled and committed
  escalated,      \* orders left to a person: an error log or the dead letter topic
  inventory,      \* inventory-service: its decision for each order
  payment,        \* payment-service and Wompi: what happened to the money
  faults          \* faults so far

purchaseVars == <<status, paymentStatus>>
timerVars    == <<age, since, left>>
sentVars     == <<published, releases>>
flowVars     == <<task, inbox, pass, due, settled, escalated>>
worldVars    == <<inventory, payment>>
vars == <<purchaseVars, context, timerVars, sentVars, flowVars, worldVars, faults>>

Status        == {"none", "pending", "confirmed", "cancelled"}
PaymentStatus == {"none", "pending_inventory", "payment_initiated",
                  "awaiting_payment_result", "payment_retry", "approved", "failed"}
ContextState  == {"awaiting_inventory", "payment_initiated",
                  "awaiting_payment_result", "payment_retry"}
Context       == [state : ContextState, attempts : 0..MaxAttempts]
NoContext     == [state |-> "deleted", attempts |-> 0]
Evicted       == [state |-> "evicted", attempts |-> 0]   \* Redis dropped the key

Topics   == {"order.created", "payment.initiated", "purchase.confirmed"}
Handled  == {"inventory.reserved", "inventory.insufficient",
             "payment.success", "payment.failed"}
Messages == [topic : Handled, order : Orders]
Message(topic, o) == [topic |-> topic, order |-> o]

Tasks     == {"consumer", "reconciler"}
NoMessage == [topic |-> "none"]
Idle      == [at |-> "idle"]
Awaits    == {"initiating", "releasing", "releasing_to_refund", "refunding", "confirming"}
Suspended == [at : Awaits, order : Orders, msg : Messages \cup {NoMessage}]

NoPass    == [todo |-> {}, seen |-> [o \in Orders |-> "none"]]
NoLink    == Checkout + 1                      \* no payment_expires_at yet

Expired(o)  == context[o] \in {NoContext, Evicted}   \* the key reads as None
Clash(o, p) == o # p /\ SeatsOf[o] \cap SeatsOf[p] # {}
AtMost(n, bound) == IF n < bound THEN n ELSE bound

\* The event loop is not preemptive: while the reconciler goes from one order
\* of its pass to the next without waiting, no other task of the process runs.
LoopFree == task["reconciler"] # Idle \/ pass.todo = {}
-------------------------------------------------------------------------------
(* Faults and the ways a handler can end.                                  *)

Fault(kind) ==
  /\ kind \in FaultKinds
  /\ faults < MaxFaults
  /\ faults' = faults + 1

NoFault == UNCHANGED faults

\* The reconciler is done with an order of its pass.
Leave(t, o) ==
  pass' = IF t = "reconciler"
          THEN [todo |-> pass.todo \ {o}, seen |-> [pass.seen EXCEPT ![o] = "none"]]
          ELSE pass

\* Mutant: the offset is committed before the handler is done.
SuspendCommitted(t, where, o, m) ==
  /\ task' = [task EXCEPT ![t] = [at |-> where, order |-> o, msg |-> m]]
  /\ Leave(t, o)
  /\ inbox' = inbox \ {m}
  /\ UNCHANGED <<due, settled, escalated>>

\* Wait inside the handler for the reply of a broker or of payment-service.
Suspend(t, where, o, m) ==
  /\ task' = [task EXCEPT ![t] = [at |-> where, order |-> o, msg |-> m]]
  /\ Leave(t, o)
  /\ UNCHANGED <<inbox, due, settled, escalated>>

\* The consumer commits the offset of the message it handled.
Commit(t, o, m) ==
  /\ task' = [task EXCEPT ![t] = Idle]
  /\ inbox' = inbox \ {m}
  /\ settled' = IF m.topic = "payment.success" THEN settled \cup {o} ELSE settled
  /\ UNCHANGED due

\* The handler returns.
Finish(t, o, m) == Commit(t, o, m) /\ Leave(t, o) /\ UNCHANGED escalated

\* The handler raises.  The consumer sends its message to the dead letter
\* topic, logs it and commits the offset; the reconciler drops its pass.
Raise(t, o, m) ==
  /\ Fault("raise")
  /\ Commit(t, o, m)
  /\ escalated' = IF t = "consumer" THEN escalated \cup {o} ELSE escalated
  /\ pass' = IF t = "reconciler" THEN NoPass ELSE pass

\* The process dies and starts again: nothing in memory survives, and the
\* message being handled is still in the topic.
Restart ==
  /\ Fault("crash")
  /\ task' = [t \in Tasks |-> Idle]
  /\ pass' = NoPass
  /\ due' = TRUE
  /\ UNCHANGED <<inbox, settled, escalated>>

Interrupt(t, o, m) == Raise(t, o, m) \/ Restart

\* publish_event swallows every error: the event is either sent or lost.
Publish(o, topic) ==
  \/ published' = [published EXCEPT ![o] = @ \cup {topic}] /\ NoFault
  \/ UNCHANGED published /\ Fault("publish")

PublishRelease(o) ==
  \/ releases' = [releases EXCEPT ![o] = @ + 1] /\ NoFault
  \/ UNCHANGED releases /\ Fault("publish")
-------------------------------------------------------------------------------
(* The operations of app/services/booking.py.                              *)

\* mark_purchase_cancelled does nothing for an order that is no longer pending.
CancelsAnyway(o) == FALSE      \* mutant: the check is missing
AlreadyDecided(o) == status[o] # "pending"

\* mark_purchase_cancelled, followed by a refund request when `refund`.  An
\* order that is no longer pending is left alone, but the caller goes on.
MarkCancelled(t, o, m, release, refund) ==
  /\ UNCHANGED <<timerVars, published, worldVars>>
  /\ IF AlreadyDecided(o)
     THEN /\ IF refund THEN Suspend(t, "refunding", o, m) ELSE Finish(t, o, m)
          /\ UNCHANGED <<purchaseVars, context, releases>> /\ NoFault
     ELSE /\ status' = [status EXCEPT ![o] = "cancelled"]
          /\ paymentStatus' = [paymentStatus EXCEPT ![o] = "failed"]
          /\ \/ /\ context' = [context EXCEPT ![o] = NoContext]
                /\ IF release
                   THEN /\ PublishRelease(o)
                        /\ Suspend(t, IF refund THEN "releasing_to_refund" ELSE "releasing", o, m)
                   ELSE Finish(t, o, m) /\ UNCHANGED releases /\ NoFault
             \/ Interrupt(t, o, m) /\ UNCHANGED <<context, releases>>

\* The link expires at the same hour in every attempt.
FreshLink(o) == Checkout       \* mutant: payment_expires_at is set again
LinkLife(o) == IF context[o].attempts = 0 THEN Checkout ELSE left[o]

\* trigger_payment_for_order up to the publication of payment.initiated.
TriggerPayment(t, o, m) ==
  LET c == context[o]
      InFlight == c.attempts > 0 /\ since[o] < Guard
  IN  \/ Expired(o) /\ MarkCancelled(t, o, m, TRUE, FALSE)
      \/ /\ ~Expired(o) /\ InFlight
         /\ Finish(t, o, m) /\ NoFault
         /\ UNCHANGED <<purchaseVars, context, timerVars, sentVars, worldVars>>
      \/ /\ ~Expired(o) /\ ~InFlight
         /\ context' = [context EXCEPT ![o] = [state |-> "payment_initiated",
                            attempts |-> AtMost(c.attempts + 1, MaxAttempts)]]
         /\ since' = [since EXCEPT ![o] = 0]
         /\ left' = [left EXCEPT ![o] = LinkLife(o)]
         /\ UNCHANGED <<status, age, releases, worldVars>>
         /\ \/ /\ paymentStatus' = IF status[o] = "pending"
                     THEN [paymentStatus EXCEPT ![o] = "payment_initiated"] ELSE paymentStatus
               /\ Publish(o, "payment.initiated")
               /\ Suspend(t, "initiating", o, m)
            \/ Interrupt(t, o, m) /\ UNCHANGED <<paymentStatus, published>>

\* The rest of trigger_payment_for_order.  publish_event never raises, so the
\* payment_retry branch is only taken when recording the new state fails, and
\* it may fail for the same reason.  Redis is told before the database.
PaymentInitiated(t) ==
  LET o == task[t].order
      m == task[t].msg
      Record(state) ==
        context' = IF Expired(o) THEN context ELSE [context EXCEPT ![o].state = state]
      Store(state) ==
        paymentStatus' = IF status[o] = "pending"
              THEN [paymentStatus EXCEPT ![o] = state] ELSE paymentStatus
  IN  /\ task[t].at = "initiating"
      /\ \/ /\ Record("awaiting_payment_result") /\ Store("awaiting_payment_result")
            /\ Finish(t, o, m) /\ NoFault
         \/ /\ Record("payment_retry") /\ Store("payment_retry")
            /\ Finish(t, o, m) /\ Fault("raise")
         \/ /\ (\E s \in {"awaiting_payment_result", "payment_retry"} : Record(s)) \/ UNCHANGED context
            /\ UNCHANGED paymentStatus /\ Interrupt(t, o, m)
      /\ UNCHANGED <<status, timerVars, sentVars, worldVars>>

\* mark_purchase_cancelled after inventory.release was sent.
Released(t) ==
  LET c == task[t]
  IN  /\ \/ c.at = "releasing" /\ Finish(t, c.order, c.msg)
         \/ c.at = "releasing_to_refund" /\ Suspend(t, "refunding", c.order, c.msg)
      /\ UNCHANGED <<purchaseVars, context, timerVars, sentVars, worldVars, faults>>

\* The conflict query: no confirmed order has a seat of this one.
SeatsUnchecked(o) == TRUE      \* mutant: the query is missing
SeatsFree(o) == \A p \in Orders : status[p] = "confirmed" => ~Clash(o, p)

\* A payment for an order that is already cancelled is returned.
LateIgnored(t, o, m) == Finish(t, o, m) /\ NoFault     \* mutant: only logged
LateReturned(t, o, m) == Suspend(t, "refunding", o, m) /\ NoFault

\* confirm_purchase_from_payment up to its first await.
ConfirmPurchase(t, o, m) ==
  \/ /\ status[o] = "confirmed"          \* duplicate
     /\ Finish(t, o, m) /\ NoFault
     /\ UNCHANGED <<purchaseVars, context, timerVars, sentVars, worldVars>>
  \/ /\ status[o] = "cancelled"          \* the payment is late
     /\ LateReturned(t, o, m)
     /\ UNCHANGED <<purchaseVars, context, timerVars, sentVars, worldVars>>
  \/ /\ status[o] = "pending" /\ ~SeatsFree(o)
     /\ MarkCancelled(t, o, m, TRUE, TRUE)
  \/ /\ status[o] = "pending" /\ SeatsFree(o)
     /\ status' = [status EXCEPT ![o] = "confirmed"]
     /\ paymentStatus' = [paymentStatus EXCEPT ![o] = "approved"]
     /\ \/ Publish(o, "purchase.confirmed") /\ Suspend(t, "confirming", o, m)
        \/ Interrupt(t, o, m) /\ UNCHANGED published
     /\ UNCHANGED <<context, timerVars, releases, worldVars>>

\* confirm_purchase_from_payment after purchase.confirmed was sent.
PurchaseConfirmed(t) ==
  LET o == task[t].order
  IN  /\ task[t].at = "confirming"
      /\ \/ context' = [context EXCEPT ![o] = NoContext] /\ Finish(t, o, task[t].msg) /\ NoFault
         \/ Raise(t, o, task[t].msg) /\ UNCHANGED context
      /\ UNCHANGED <<purchaseVars, timerVars, sentVars, worldVars>>

\* refund_uncollectable_payment: money that was captured is returned, an order
\* without a charge is answered with nothing, a failing call is only logged
\* (and may have had its effect).
RefundUncollectable(t) ==
  LET o == task[t].order
      Returned == IF payment[o] = "captured"
                  THEN [payment EXCEPT ![o] = "refunded"] ELSE payment
  IN  /\ task[t].at = "refunding"
      /\ \/ payment' = Returned /\ NoFault /\ Finish(t, o, task[t].msg)
         \/ /\ payment' \in {payment, Returned} /\ Fault("refund")
            /\ Commit(t, o, task[t].msg) /\ Leave(t, o)
            /\ escalated' = escalated \cup {o}
      /\ UNCHANGED <<purchaseVars, context, timerVars, sentVars, inventory>>
-------------------------------------------------------------------------------
(* The HTTP endpoint, the consumer and the reconciler.                     *)

\* The context of a new purchase.
NothingStored == NoContext     \* mutant: Redis is down and the purchase goes on
NewContext == [state |-> "awaiting_inventory", attempts |-> 0]

\* POST /purchases: the context is stored before the row is committed, then
\* order.created is published.  When something raises after the commit the row
\* stays, the context is deleted (unless that fails too) and nothing is sent.
CreatePurchase(o) ==
  /\ status[o] = "none" /\ LoopFree
  /\ status' = [status EXCEPT ![o] = "pending"]
  /\ paymentStatus' = [paymentStatus EXCEPT ![o] = "pending_inventory"]
  /\ \/ /\ context' = [context EXCEPT ![o] = NewContext]
        /\ \/ Publish(o, "order.created") /\ UNCHANGED flowVars
           \/ Restart /\ UNCHANGED published
     \/ /\ context' \in {[context EXCEPT ![o] = c] : c \in {NewContext, NoContext}}
        /\ Fault("raise") /\ UNCHANGED <<published, flowVars>>
  /\ UNCHANGED <<timerVars, releases, worldVars>>

\* The consumer takes a message and runs its handler to the first await.
Consume(m) ==
  LET o == m.order
      t == "consumer"
  IN  /\ task[t] = Idle /\ m \in inbox /\ LoopFree
      /\ \/ m.topic = "inventory.reserved" /\ status[o] = "pending" /\ TriggerPayment(t, o, m)
         \/ /\ m.topic = "inventory.reserved" /\ status[o] # "pending"
            /\ Finish(t, o, m) /\ NoFault
            /\ UNCHANGED <<purchaseVars, context, timerVars, sentVars, worldVars>>
         \/ m.topic = "inventory.insufficient" /\ MarkCancelled(t, o, m, FALSE, FALSE)
         \/ m.topic = "payment.failed"         /\ MarkCancelled(t, o, m, TRUE, FALSE)
         \/ m.topic = "payment.success"        /\ ConfirmPurchase(t, o, m)

\* The handler raises before it changed anything.
ConsumeFails(m) ==
  /\ task["consumer"] = Idle /\ m \in inbox /\ LoopFree
  /\ Raise("consumer", m.order, m)
  /\ UNCHANGED <<purchaseVars, context, timerVars, sentVars, worldVars>>

\* What the pass keeps of a row: its payment_info["status"].
Seen(o) == paymentStatus[o]

\* reconcile_pending_purchases reads the pending rows; it keeps them, however
\* the rows change, to the end of the pass.
StartPass ==
  /\ due /\ task["reconciler"] = Idle /\ pass.todo = {}
  /\ LET pending == {o \in Orders : status[o] = "pending"}
     IN  pass' = [todo |-> pending,
                  seen |-> [o \in Orders |-> IF o \in pending THEN Seen(o) ELSE "none"]]
  /\ due' = FALSE
  /\ UNCHANGED <<purchaseVars, context, timerVars, sentVars, worldVars, faults,
                 task, inbox, settled, escalated>>

\* _should_release_inventory_for_purchase, on the row as the pass read it.
ShouldRelease(o) ==
  pass.seen[o] \in {"payment_initiated", "payment_retry", "awaiting_payment_result", "approved"}

\* Mutant: the reservation key is not asked.
LateInventoryUnasked(o) == MarkCancelled("reconciler", o, NoMessage, FALSE, FALSE)

\* Mutant: stock that was not refused in time is taken for reserved.
LateInventoryAssumed(o) == TriggerPayment("reconciler", o, NoMessage)

\* No decision of inventory-service was recorded in time.  Its reservation key
\* in Redis is asked; when Redis fails the answer reads as "not reserved".
LateInventory(o) ==
  LET t == "reconciler"
  IN  \/ inventory[o] = "reserved" /\ TriggerPayment(t, o, NoMessage)
      \/ /\ inventory[o] # "reserved" \/ "blind" \in FaultKinds
         /\ MarkCancelled(t, o, NoMessage, FALSE, FALSE)

\* The link and the margin for late results have run out.
WaitsForEver(o) == FALSE       \* mutant: no deadline
PastDeadline(o) == left[o] <= -Grace

\* The reconciler decides about one order of its pass, the oldest first.
Reconcile(o) ==
  LET t == "reconciler"
      c == context[o]
      undecided == pass.seen[o] = "pending_inventory" /\ age[o] > InventoryTimeout
      retryDue  == c.attempts = 0 \/ since[o] > Retry
      exhausted == c.attempts >= MaxAttempts
      retrying  == c.state = "payment_retry" /\ (exhausted \/ retryDue)
      Cancel(release) == MarkCancelled(t, o, NoMessage, release, FALSE)
      Trigger == TriggerPayment(t, o, NoMessage)
      Skip == /\ Finish(t, o, NoMessage) /\ NoFault
              /\ UNCHANGED <<purchaseVars, context, timerVars, sentVars, worldVars>>
  IN  /\ task[t] = Idle /\ o \in pass.todo
      /\ \A p \in pass.todo : age[p] <= age[o]
      /\ \/ Expired(o) /\ Cancel(ShouldRelease(o))
         \/ ~Expired(o) /\ undecided /\ LateInventory(o)
         \/ /\ ~Expired(o) /\ ~undecided /\ retrying
            /\ \/ exhausted /\ Cancel(TRUE)
               \/ ~exhausted /\ Trigger
         \/ /\ ~Expired(o) /\ ~undecided /\ c.state = "awaiting_payment_result"
            /\ \/ PastDeadline(o) /\ MarkCancelled(t, o, NoMessage, TRUE, TRUE)
               \/ ~PastDeadline(o) /\ ~exhausted /\ retryDue /\ Trigger
               \/ ~PastDeadline(o) /\ ~(~exhausted /\ retryDue) /\ Skip
         \/ /\ ~Expired(o) /\ ~undecided /\ ~retrying /\ c.state # "awaiting_payment_result"
            /\ \/ age[o] > Stale /\ Cancel(ShouldRelease(o))
               \/ age[o] <= Stale /\ Skip

\* A task goes on when what it was waiting for has answered.
Resume(t) ==
  /\ t = "consumer" => LoopFree
  /\ PaymentInitiated(t) \/ Released(t) \/ PurchaseConfirmed(t) \/ RefundUncollectable(t)

\* The reconciler raises before it changed anything.
PassFails ==
  /\ task["reconciler"] = Idle /\ pass.todo # {}
  /\ \E o \in pass.todo : Raise("reconciler", o, NoMessage)
  /\ UNCHANGED <<purchaseVars, context, timerVars, sentVars, worldVars>>

\* The process dies at an await.
Crash ==
  /\ Restart
  /\ UNCHANGED <<purchaseVars, context, timerVars, sentVars, worldVars>>

\* Redis loses the context of an order: its TTL ran out, or the key was evicted.
LoseContext(o) ==
  /\ ~Expired(o) /\ Fault("evict")
  /\ context' = [context EXCEPT ![o] = Evicted]
  /\ UNCHANGED <<purchaseVars, timerVars, sentVars, flowVars, worldVars>>

\* The reconciler sleeps between two passes and the clock goes on.  A pass takes
\* less than a tick; a late process may see several ticks before its next pass.
Tick ==
  /\ task["reconciler"] = Idle /\ pass.todo = {}
  /\ age' = [o \in Orders |-> IF status[o] = "pending" THEN AtMost(age[o] + 1, Stale + 1) ELSE age[o]]
  /\ since' = [o \in Orders |-> IF context[o].attempts > 0
                                THEN AtMost(since[o] + 1, Retry + 1) ELSE since[o]]
  /\ left' = [o \in Orders |-> IF left[o] \in (1 - Grace)..Checkout THEN left[o] - 1 ELSE left[o]]
  /\ due' = TRUE
  /\ UNCHANGED <<purchaseVars, context, sentVars, worldVars, faults,
                 task, inbox, pass, settled, escalated>>
-------------------------------------------------------------------------------
(* The other services, as booking uses them (they are not in this source). *)

\* A Kafka message for booking; publishing it again stands for a redelivery,
\* never publishing it for a loss.
Announce(topic, o) ==
  /\ inbox' = inbox \cup {Message(topic, o)}
  /\ UNCHANGED <<purchaseVars, context, timerVars, sentVars, worldVars, faults,
                 task, pass, due, settled, escalated>>

\* inventory-service reads order.created and decides once, whenever it does.
InventoryDecides(o) ==
  /\ "order.created" \in published[o] /\ inventory[o] = "none"
  /\ inventory' \in {[inventory EXCEPT ![o] = d] : d \in Decisions}
  /\ UNCHANGED <<purchaseVars, context, timerVars, sentVars, flowVars, payment, faults>>

InventoryAnnounces(o) ==
  \/ inventory[o] \in {"reserved", "released"} /\ Announce("inventory.reserved", o)
  \/ inventory[o] = "insufficient" /\ Announce("inventory.insufficient", o)

\* inventory-service reads inventory.release: the stock is available again.
InventoryReleases(o) ==
  /\ releases[o] > 0 /\ inventory[o] = "reserved"
  /\ inventory' = [inventory EXCEPT ![o] = "released"]
  /\ UNCHANGED <<purchaseVars, context, timerVars, sentVars, flowVars, payment, faults>>

\* payment-service keeps one charge for an order; its link works until it expires
\* and a payment that began in time may end at any later moment.
Pay(o, to) ==
  /\ payment' = [payment EXCEPT ![o] = to]
  /\ UNCHANGED <<purchaseVars, context, timerVars, sentVars, flowVars, inventory, faults>>

StartPayment(o) ==
  /\ "payment.initiated" \in published[o] /\ left[o] > 0
  /\ payment[o] \in {"none", "declined"} /\ Pay(o, "paying")

SettlePayment(o) == payment[o] = "paying" /\ \E r \in Outcomes : Pay(o, r)

PaymentAnnounces(o) ==
  \/ payment[o] \in {"captured", "refunded"} /\ Announce("payment.success", o)
  \/ payment[o] = "declined" /\ Announce("payment.failed", o)
-------------------------------------------------------------------------------
Init ==
  /\ status = [o \in Orders |-> "none"]
  /\ paymentStatus = [o \in Orders |-> "none"]
  /\ context = [o \in Orders |-> NoContext]
  /\ age = [o \in Orders |-> 0]
  /\ since = [o \in Orders |-> 0]
  /\ left = [o \in Orders |-> NoLink]
  /\ published = [o \in Orders |-> {}]
  /\ releases = [o \in Orders |-> 0]
  /\ inbox = {}
  /\ task = [t \in Tasks |-> Idle]
  /\ pass = NoPass
  /\ due = TRUE
  /\ settled = {}
  /\ escalated = {}
  /\ inventory = [o \in Orders |-> "none"]
  /\ payment = [o \in Orders |-> "none"]
  /\ faults = 0

\* The steps of the booking process itself.
Service ==
  \/ \E o \in Orders : CreatePurchase(o) \/ Reconcile(o) \/ LoseContext(o)
  \/ \E m \in Messages : Consume(m) \/ ConsumeFails(m)
  \/ \E t \in Tasks : Resume(t)
  \/ StartPass \/ PassFails \/ Crash \/ Tick

World ==
  \E o \in Orders :
    \/ InventoryDecides(o) \/ InventoryAnnounces(o) \/ InventoryReleases(o)
    \/ StartPayment(o) \/ SettlePayment(o) \/ PaymentAnnounces(o)

Next == Service \/ World

Spec == Init /\ [][Next]_vars

\* The event loop runs every task that can go on, the clock does not stop, Kafka
\* delivers in offset order and so passes over no message for ever.  Customers,
\* announcements and faults are under no obligation.
Fairness ==
  /\ WF_vars(StartPass) /\ WF_vars(Tick)
  /\ \A o \in Orders : WF_vars(Reconcile(o)) /\ WF_vars(InventoryReleases(o))
  /\ \A t \in Tasks : SF_vars(Resume(t))
  /\ \A m \in Messages : SF_vars(Consume(m))

FairSpec == Spec /\ Fairness
-------------------------------------------------------------------------------
(* Properties.                                                             *)

PurchaseTypes ==
  status \in [Orders -> Status] /\ paymentStatus \in [Orders -> PaymentStatus]
ContextTypes == context \in [Orders -> Context \cup {NoContext, Evicted}]
TimerTypes ==
  /\ age \in [Orders -> 0..(Stale + 1)] /\ since \in [Orders -> 0..(Retry + 1)]
  /\ left \in [Orders -> (-Grace)..NoLink]
SentTypes == published \in [Orders -> SUBSET Topics] /\ releases \in [Orders -> Nat]
FlowTypes ==
  /\ task \in [Tasks -> {Idle} \cup Suspended]
  /\ pass \in [todo : SUBSET Orders, seen : [Orders -> PaymentStatus]]
  /\ inbox \subseteq Messages /\ due \in BOOLEAN
  /\ settled \subseteq Orders /\ escalated \subseteq Orders
WorldTypes ==
  /\ inventory \in [Orders -> {"none", "reserved", "insufficient", "released"}]
  /\ payment \in [Orders -> {"none", "paying", "captured", "declined", "refunded"}]
FaultTypes == faults \in 0..MaxFaults

\* Types and bounds of every variable.
TypeOK ==
  /\ PurchaseTypes /\ ContextTypes /\ TimerTypes /\ SentTypes
  /\ FlowTypes /\ WorldTypes /\ FaultTypes

\* Two orders that are confirmed never share a seat, whatever the consumer, the
\* reconciler and their suspensions interleave (the conflict query of
\* confirm_purchase_from_payment and its commit).
NoDoubleSale ==
  \A o, p \in Orders : status[o] = "confirmed" /\ status[p] = "confirmed" => ~Clash(o, p)

\* What the other services are told agrees with the stored decision: stock is
\* given back only for a cancelled order, and once; the customer's confirmation
\* is sent only for a confirmed one.
OutboxMatchesDecision ==
  \A o \in Orders :
    /\ releases[o] > 0 => status[o] = "cancelled" /\ releases[o] = 1
    /\ "purchase.confirmed" \in published[o] => status[o] = "confirmed"

\* While an order that another service was told of is pending, its context is in
\* Redis unless Redis itself lost it: no handler deletes the context of an order
\* that still needs it.  Only a row whose request failed after the commit has no
\* context, and of that one nobody ever hears (create_purchase).
AnnouncedHasContext ==
  \A o \in Orders : status[o] = "pending" /\ published[o] # {} => context[o] # NoContext

\* An order without a row has no context, and nobody was told of it.
NothingBefore ==
  \A o \in Orders : status[o] = "none" => context[o] = NoContext /\ published[o] = {}

\* Once payment.success was handled the customer has the seats or the money
\* back, or a person was told: crashes, conflicts and late payments included
\* (confirm_purchase_from_payment, refund_uncollectable_payment, the DLQ).
PaidIsAnswered ==
  \A o \in settled : status[o] = "confirmed" \/ payment[o] = "refunded" \/ o \in escalated

\* What a suspended handler may rely on when it goes on: the reconciler handles
\* no message, the consumer handles one it has not committed, and a handler of
\* payment.success waits only to refund or to announce a confirmed order.
TaskShape ==
  /\ task["reconciler"] # Idle => task["reconciler"].msg = NoMessage
  /\ task["consumer"] # Idle => /\ task["consumer"].msg \in inbox
                                /\ task["consumer"].msg.order = task["consumer"].order
  /\ \A t \in Tasks : task[t] # Idle =>
       /\ task[t].at = "confirming" => status[task[t].order] = "confirmed"
       /\ task[t].msg.topic = "payment.success" =>
            task[t].at \in {"confirming", "refunding", "releasing_to_refund"}

\* payment.success is sent only for money that was captured.
SuccessMeansCharged ==
  \A o \in Orders :
    Message("payment.success", o) \in inbox => payment[o] \in {"captured", "refunded"}

\* The inductive invariant behind the properties above.
SagaInvariant ==
  /\ TypeOK /\ OutboxMatchesDecision /\ AnnouncedHasContext /\ NothingBefore
  /\ PaidIsAnswered /\ TaskShape /\ SuccessMeansCharged

\* inventory-service put the stock of the order aside (and may have it back).
Reserved(o) == inventory[o] \in {"reserved", "released"}

\* A customer is asked to pay only for stock that was reserved, whatever the
\* announcements of inventory-service do (late, repeated, lost) and whichever of
\* the consumer, a retry and the reconciler asks (trigger_payment_for_order).
PaymentNeedsStock ==
  \A o \in Orders : "payment.initiated" \in published[o] => Reserved(o)

\* An order for which payment.initiated was ever sent has its stock released
\* when it is cancelled, even if the reconciler decided on a row read before
\* the payment began.  (inventory.release may still be lost by the broker.)
StockFollowsPayment ==
  \A o \in Orders :
    status[o] = "cancelled" /\ "payment.initiated" \in published[o] => releases[o] = 1

\* The link of an order expires at one hour, the same through every retry
\* (trigger_payment_for_order keeps payment_expires_at).
LinkNeverExtended ==
  [][\A o \in Orders : left[o] # NoLink => left'[o] <= left[o]]_vars

\* The saga does what BoxOffice promises about the life of an order.
Office == INSTANCE BoxOffice WITH order <- status
ImplementsBoxOffice == Office!Spec

\* Every purchase is decided: no wait for inventory, payment or a retry is for
\* ever (reconcile_pending_purchases).
EveryPurchaseDecided ==
  \A o \in Orders : status[o] = "pending" ~> status[o] \in {"confirmed", "cancelled"}

\* A customer whose payment reached booking gets the seats, the money, or a person.
EveryPaymentAnswered ==
  \A o \in Orders :
    Message("payment.success", o) \in inbox
      ~> status[o] = "confirmed" \/ payment[o] = "refunded" \/ o \in escalated
-------------------------------------------------------------------------------
(* What the texts of the repository say and the code does not do; each one *)
(* is refuted by a run.                                                    *)

\* booking.py:1031 only the payment of a purchase that cannot be delivered is
\* returned.
ConfirmedKeepsPayment ==
  \A o \in Orders : ~(status[o] = "confirmed" /\ payment[o] = "refunded")

\* consumer.py:275 handlers are idempotent, so processing a message again is
\* safe: a confirmed purchase is announced.
ConfirmationIsAnnounced ==
  \A o \in Orders : status[o] = "confirmed" ~> "purchase.confirmed" \in published[o]
=============================================================================
