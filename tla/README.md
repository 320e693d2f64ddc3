# Verification of booking-service

TLA+ models of the booking service of the cinema system, the TLC runs that check them and the theorems TLAPS
proves about them. Paths without a prefix (`app/services/booking.py`) are relative to the repository; line numbers
are those of the commit the models were written from.

Contents: [the system](#1-the-system), [how the models read the code](#2-how-the-models-read-the-code),
[modules](#3-modules), [runs](#4-runs), [proofs](#5-proofs), [behaviours to know](#6-behaviours-to-know),
[not modelled](#7-not-modelled), [plan](#8-plan).

## 1. The system

booking-service is one FastAPI process (one uvicorn worker, `Dockerfile`) on an asyncio event loop. Three kinds of task
share that loop: HTTP requests, one Kafka consumer (`app/kafka/consumer.py`) and one reconciler that makes a pass over
the pending purchases and then sleeps (`app/main.py:25-36`). They share PostgreSQL (purchases, tickets, movies, users),
Redis (payment contexts, seat holds, circuit breaker, reservations written by inventory-service) and the Kafka topics.

| component | state | operations | talks to |
|---|---|---|---|
| Purchase saga: `services/booking.py`, saga handlers of `kafka/consumer.py`, reconciler | `purchases.status`, `purchases.payment_info`, the pending payment context in Redis | `create_purchase`, `trigger_payment_for_order`, `mark_purchase_cancelled`, `confirm_purchase_from_payment`, `fail_purchase_from_payment`, `reconcile_pending_purchases`, `refund_uncollectable_payment` | publishes `order.created`, `payment.initiated`, `inventory.release`, `purchase.confirmed`; consumes `inventory.reserved`, `inventory.insufficient`, `payment.success`, `payment.failed`; calls payment-service for refunds; reads the reservation key of inventory-service |
| Kafka loop: `kafka/consumer.py:248-316`, `kafka/producer.py` | offset, dead letter topic | one message at a time, commit after the handler, DLQ on an exception, `publish_event` swallows errors | Kafka |
| Seat holds: `core/redis_client.py`, `services/booking.py:60-125, 270-306` | `seat:hold:<showtime>:<seat>` with TTL | `hold_seat`, `reassign_hold`, `release_seats_for_order`, the check against sold tickets | Redis, seat map of catalog-service |
| Ticket desk: `api/purchases.py:178-267, 551-642` | `tickets.status`, `purchases.status`, `movies.available_tickets` | `cancel_purchase`, `validate_ticket` | payment-service (refund) |
| Circuit breaker: `core/circuit_breaker.py`, `call_refund_service` | `cb:payment:failures`, `cb:payment:open_until` | `is_open`, `record_success`, `record_failure` | Redis |
| Replicas: handlers of `user.*` and `movie.*` in `kafka/consumer.py` | `users`, `movies` | insert, update, deactivate | Kafka |
| Pricing: `services/pricing.py` | none | lines and total of a purchase from film price, seats and products | - |
| Queries and reports: `api/purchases.py` | none (read only) | occupied seats, history, sales reports | PostgreSQL |
| Startup and migrations: `app/main.py`, `alembic/versions` | tables, indexes, `alembic_version`, the menu | create tables, ensure the index, stamp, upgrade; downgrade by hand | PostgreSQL |
| Authentication, schemas, settings | none that a request changes | - | Redis blacklist |

A purchase goes `PENDING -> CONFIRMED | CANCELLED`, and `CONFIRMED -> REFUNDED`. `POST /purchases` checks and holds the
seats, stores the payment context and then the row, and publishes `order.created`. inventory-service reserves or refuses;
`inventory.reserved` starts the payment (`payment.initiated`), the customer pays on a Wompi link with an hour of expiry,
and `payment.success` or `payment.failed` decides. The reconciler retries and gives up where an event never comes.

What is hard here, and what makes each component correct:

* **Saga.** Handlers and reconciler interleave at every await that suspends; the reconciler decides on rows it read before
  those awaits; the process may die between a commit, an event, a Redis write and the offset; events are lost, repeated, late
  and unordered between topics. Correct: no seat sold twice, events agree with the stored decision, no announced order pending
  without its context, every purchase decided, every payment answered with seats, a refund or a person.
* **Holds.** The sold check and the hold are separated by an HTTP call; holds end by themselves and are deleted by key, not by
  owner; a process may die with seats held, and a release that Redis refuses is logged and forgotten. Correct: a hold always has a
  time limit, and the hold of a decided order is gone unless the fault hit that order.
* **Ticket desk.** Two requests may cancel the same purchase, and tickets are validated, while payment-service is asked.
  Correct: a purchase given back has no valid ticket, an owner is let in, the counter hides no ticket.
* **Breaker.** State is read before a call and written after it, by several callers. Correct: it opens only for failures
  with no recorded success among them, notices an outage, and does not stay open for ever.
* **Replicas and sales.** Events of one topic are read in the order they were sent, events of several topics in any. An event that finds
  no row has no effect. A purchase is priced from a film read before a wait for catalog-service, and three writers share
  `available_tickets`: confirmation, refund and `movie.updated`. Correct: a copy whose events were read is what its owner
  has, what is charged is the price that was read, the counter loses no ticket, the three sales reports agree.
* **Startup.** Each step commits by itself, the process may be stopped between two of them, and a database may come from any earlier
  release. Correct: `alembic_version` records nothing that was not done, requests are served only by an up to date
  database, and the service gets there in the end.

`PROJECT.json` lists each hazard at its line with the properties about it.

## 2. How the models read the code

* **A step is the code between two awaits that really suspend.** The event loop is not preemptive, and SQLAlchemy and Redis
  calls here are synchronous. In `PurchaseSaga` the awaits are `publish_event` and the refund call, both taken to suspend always
  (that is the larger set of interleavings); `task[t]` records where a task waits. Between two orders of a pass that need no
  await no other task runs: `LoopFree`.
* **A fault cuts a step.** The process may die, or Redis or the database may raise, after the commit inside a step; these are
  disjuncts of the step (`Interrupt`, `Restart`, `Raise`, `Fault`), not separate actions. Where the code has an error path
  after the commit the disjunct takes it: `create_purchase` deletes the context of a row that is committed when `db.refresh` raises.
  Helpers of Redis that log an error and go on (`release_seats_for_order`, `record_success`, ...) may do nothing, or a part, with the
  process alive. `MaxFaults` and `FaultKinds` bound them in TLC;
  the proofs hold for any value.
* **Redis that fails to answer** reads as "nothing there" in this code, so it is a lost context (`LoseContext`, `blind`).
* **Time** is counted in ticks: a duration of the settings is a constant, a hold or a link is a countdown, and a counter that only
  matters up to a limit stops there (`age`, `since`, `left`). A pass of the reconciler takes less than a tick.
* **Data** is kept where a property tells it apart: a seat is a label, an order is its identity, payloads are left out. Amounts
  matter in `Pricing` and `Storefront` only; there a film's price counts half pesos, the coarsest unit in which Python's `round` is
  more than the identity. In `Startup` a database is a record of what the steps look at: version, tables, enum labels, the
  menu's prices, the index, and the rows that can make a migration fail.
* **Other services** are external actions, modelled from how booking uses them: inventory-service decides once for an order it
  was told of, payment-service keeps one charge for an order, Kafka may deliver any announcement late or repeatedly.

## 3. Modules

| module | what it is | proofs in |
|---|---|---|
| `BoxOffice` | abstract: an order is opened, sold or dropped, and given back; two sold orders share no seat | - |
| `PurchaseSaga` (`MC`) | the saga, the Kafka loop and the reconciler; implements `BoxOffice` with `order <- status` | `PurchaseSagaProofs`, `PurchaseSagaSafety` |
| `SeatHolds` (`MC`) | Redis holds and tickets of one function; decisions come at any moment. Implements `BoxOffice` for the orders with `showtime_id` | `SeatHoldsProofs` |
| `TicketDesk` (`MC`) | refunds, validation, the map of occupied seats, `available_tickets`; implements `BoxOffice` for the orders with `showtime_id` | `TicketDeskProofs` |
| `CircuitBreaker` | the breaker and its concurrent callers | `CircuitBreakerProofs` |
| `Pricing` | price lines, totals and the checks of a request, as operators | `StorefrontProofs` |
| `Replicas` | the copies of users and movies, their topics and the loop that reads them | (through `Storefront`) |
| `Storefront` (`MC`) | composes `Replicas` and `Pricing` with purchases that read and write the copies, and the sales reports | `StorefrontProofs` |
| `Startup` | from any database to one that serves requests | `StartupProofs` |
| `SumTheorems` | no model: facts about sums over finite sets, for the proofs about prices, reports and tickets | itself |

The modules that implement `BoxOffice` cut the system at `purchases.status`: each leaves free when the others' steps
happen (in `SeatHolds`, `TicketDesk` and `Storefront` an order is paid or dropped at any moment) and details its own.

**PurchaseSaga.** `status` and `paymentStatus` are the two columns; `context` is the Redis key with its `payment_state` and
`attempts`; `since` and `left` are `last_attempt_at` and `payment_expires_at`; `published` and `releases` are what was sent;
`inbox` holds the messages whose offset is not committed; `pass` is the reconciler's list of rows together with what it read of
them; `settled` and `escalated` are history (a handled `payment.success`; a log entry or dead letter for a person). `CreatePurchase`
is `create_purchase` from the insert on (the checks before are in `SeatHolds`), with its three ends: announced, cut by a restart, or refused
to the client although the row is committed. `Consume` runs the four handlers to their first
await; `TriggerPayment`, `MarkCancelled` and `ConfirmPurchase` are the functions of the same names, and `PaymentInitiated`,
`Released`, `PurchaseConfirmed` and `RefundUncollectable` what follows their awaits. `StartPass` reads the rows and `Reconcile`
handles one, oldest first, with the branches of `reconcile_pending_purchases` in their order.

**SeatHolds.** `Ask` is the check against sold tickets, `Open` the rest of a request once the seat map answered (validation, holds, insert,
`reassign_hold`); `OpenFails`, `Refuse` and `Crash` are how it may end otherwise. `Cancel`, `TurnAway` and `Confirm` commit the decision and then
release holds (`Settle`); the release may fail for some of the keys (`ReleaseFails`), with the process alive or dead. `LoseContext` is a context
that Redis has lost, without which a cancellation releases nothing. `promised`, `returned` and `stranded` are history; `stranded` has the orders whose
own release or context a fault has hit. An order in `Unlinkable` may be stored without `showtime_id` (catalog-service did not answer
`_derive_showtime_id`), and general admission gives every order the label `General`.

**TicketDesk.** `AskRefund` is `cancel_purchase` up to the refund call, `RefundHandled` payment-service, `GiveBack` the transaction after the
answer; `RefundFails` and `Crash` end a request without one. `Validate` is `validate_ticket` with its search for duplicates.
`OccupiedSeats` is `get_occupied_seats` and `MapAgrees` compares it with the conflict query of the confirmation; `Dated` are the orders
whose row has a date and a time. `SecondStaysOut` is what the search for duplicates is for.

**CircuitBreaker.** `Call` is the check and the start of the request; `Succeed`, `Fail`, `BadBody` and `Rejected` the answers with what they record.
`LoseSuccess` and `LoseFailure` are what a failing Redis leaves of it, a count without its `open_until` included. `left` is how far `open_until` lies ahead. There are
two histories: `streak` counts the failures since the last success, `uncleared` those since the last success that Redis was told of.

**Pricing.** `BuildQuote` is `build_quote` as a set of lines, `TicketPrices` and `SeatCategory` its helpers, `Resolvable` and `ValidRequest`
what refuses a request. `FairTotal` is the reference: what a customer adds up seat by seat.

**Replicas.** `log` and `offset` are the topics, `inhand` the message that is handled but not committed, `missed` (history) whose
events changed nothing because the row was not there yet or the handler failed. The handlers keep their names
(`UserRegistered` ... `MovieDeactivated`); `account` and `film` are the services that send the events.

**Storefront.** `Begin`, `FunctionKnown` and `SeatsHeld` are `POST /purchases` between its awaits; `request` keeps the film as it was
read, `bill` what was stored. `Confirm`, `Cancel` and `GiveBack` are decisions with what they write to `available_tickets`. `SalesReport`, `ReportByMovie` and
`ReportByDate` are the three queries.

**Startup.** `CreateAll`, `EnsureIndex`, `Stamp` and `Upgrade` are the steps of `lifespan`; each revision is a function from a database to the
set of databases it may lead to, empty when it raises, and `Upgraded` runs the pending ones in one transaction. `Downgraded` is the way
back by one, with an operator for each revision. `Init` is
any database an earlier release may have left (`Databases`).

## 4. Runs

All passing runs are exhaustive for their bounds.

| run | bounds | result |
|---|---|---|
| `PurchaseSagaOne` | 1 order, 2 attempts, link of 2 ticks, any 2 faults of 6 kinds, fairness | `OutboxMatchesDecision`, `AnnouncedHasContext`, `PaidIsAnswered`, `PaymentNeedsStock`, `SagaInvariant` (with `TypeOK`), `LinkNeverExtended`, `EveryPurchaseDecided`, `EveryPaymentAnswered` hold |
| `PurchaseSagaTwo` | 2 orders for one seat, 2 attempts, no faults, both reserved and both paid | `NoDoubleSale`, `StockFollowsPayment`, `ImplementsBoxOffice` hold |
| `PurchaseSagaRefund` | 2 orders for different functions, no faults | `ConfirmedKeepsPayment` is violated (6.1) |
| `PurchaseSagaNotice` | 1 order, 1 crash, fairness | `ConfirmationIsAnnounced` is violated (6.2) |
| `SeatHoldsSafe` | 4 orders (3 overlapping on 2 seats, one of them perhaps unlinked; one of general admission), 1 fault, fairness | `TypeOK`, `HeldSeatsExpire`, `HoldsServePending`, `ImplementsBoxOffice`, `SeatsComeBack` hold |
| `SeatHoldsLate` | 3 orders for one seat | `OneBuyerPerSeat` is violated (6.3) |
| `SeatHoldsGeneral` | 2 orders of general admission | `TurnedAwayForASeat` is violated (6.4) |
| `TicketDeskSafe` | 3 overlapping orders on 2 seats, 2 of them linked, 2 dated, 2 cancel requests, 1 fault | `TypeOK`, `RefundedIsOver`, `OwnersEnter`, `NothingHidden`, `MapAgrees`, `SecondStaysOut`, `ImplementsBoxOffice` hold |
| `TicketDeskStock` | 1 order, 2 cancel requests | `StockRestored` is violated (6.5) |
| `CircuitBreakerSafe` | 3 callers, threshold 3, 2 faults, fairness | `TypeOK`, `OpenAfterFailures`, `OutageNoticed`, `OpenEnds` hold |
| `StorefrontSafe` | 1 user, 2 films, 3 orders, 2 prices, 3 events, 1 fault, fairness | `TypeOK`, `QuotesFair`, `ChargedFairly`, `ReportsAgree`, `InSync`, `StockAccounted`, `DeactivatedStaysOut`, `CaughtUp` hold |
| `StartupSafe` | every database of `Databases`, 2 products, 2 crashes, 2 downgrades, fairness | `TypeOK`, `VersionIsEarned`, `ReadyIsSound`, `OwnPricesKept`, `Starts` hold |

**Why the bounds are enough.** Two orders and one seat are all a conflict needs; a third order matters where one passes a hold on to
the next (`SeatHolds`) or two sales follow a refund (`TicketDesk`). One order is enough where a property speaks of one order
and its pass meets the others only through `LoopFree` and the order of a pass; the two-order runs cover that. Two
attempts are a first and a retry; durations are the smallest that keep the order the defaults have
(guard <= retry interval, inventory timeout <= stale < link) and let an event of any kind fall between them. Two faults are the
first failure and a second one while recovering from it.

In `StorefrontSafe` a film is read by two orders that together ask for more tickets than it has; one has seats of both
categories and food, the other neither, one names a function and one does not. A third order is for another film, so that the reports have two films and two
dates to add up. Three events are a creation, a change and a deactivation, the creation of the user and two events of a film, or the creation of
the user and of both films, which are then sold; 5 and 6 half pesos are a price that is rounded and one that is not. `StartupSafe` has two
products so that one can have its own price while the other is missing; two downgrades are enough to pass two
revisions, and the initial databases are of every version already. What does not depend on bounds is proved (section 5).

**Fairness.** `PurchaseSaga`: weak fairness of `StartPass`, `Reconcile` and `Tick` (the reconciler is restarted with the process, loops for
ever and sleeps a bounded time), of `InventoryReleases` (inventory-service reads its topic), and strong fairness of
`Resume` (a broker and an HTTP call with a timeout answer) and of `Consume` (Kafka delivers a partition in
offset order, so no message is passed over for ever; weak fairness is not enough because the consumer is busy again and again).
Nothing is assumed of customers, of inventory-service's decision, of announcements or of faults. `SeatHolds` and `CircuitBreaker`
need only that time goes on: Redis expires its keys. `Storefront`: weak fairness of `CommitOffset` and strong fairness of `Handle` for each topic,
because `start_consumer` begins the loop again whenever it fails and the broker serves all subscribed topics; nothing is
assumed of the services that send events or of customers. `Startup`: weak fairness of the four steps, because the container is
started again whenever it ends; nothing is assumed of crashes (there are finitely many), downgrades or traffic.

**Deadlock** is checked except in `TicketDesk` and `Storefront`, where it is legal: there are finitely many orders and, in `Storefront`,
events. Once all orders are decided for good and all events are read there is nothing left to do.

Each property of a passing run has a mutant in `PROJECT.json`: a definition of the model changed as a bug would change the
code (a missing check, an offset committed too early, an off-by-one), under which TLC finds the property violated. The mutated forms are the
definitions marked "Mutant" or "mutant" in the modules.

## 5. Proofs

The theorems hold for every value of the constants: any orders, seats, users and films, all durations and attempts, any number of events and of
faults of any kind. Each module assumes only its own named ASSUME (`SagaConstants`, `HoldConstants`, `DeskConstants`, `BreakerConstants`,
`ReplicaConstants`, `PricingConstants`, `StorefrontConstants`, `StartupConstants`): the types of the constants, finiteness where something is counted, positive
durations and limits, and in the saga the order between durations that the defaults have.

| theorem | module | statement |
|---|---|---|
| `TypeCorrect` | `PurchaseSagaProofs` | `Spec => []TypeOK` |
| `SagaImplementsBoxOffice` | `PurchaseSagaProofs` | `Spec => ImplementsBoxOffice` |
| `NeverSoldTwice` | `PurchaseSagaProofs` | `Spec => []NoDoubleSale` |
| `OutboxAgrees` | `PurchaseSagaSafety` | `Spec => []OutboxMatchesDecision` |
| `AnnouncedKeepContext` | `PurchaseSagaSafety` | `Spec => []AnnouncedHasContext` |
| `PaymentsAnswered` | `PurchaseSagaSafety` | `Spec => []PaidIsAnswered` |
| `SagaInvariantHolds` | `PurchaseSagaSafety` | `Spec => []SagaInvariant` |
| `LinkKeepsItsHour` | `PurchaseSagaSafety` | `Spec => LinkNeverExtended` |
| `PaymentFollowsStock` | `PurchaseSagaSafety` | `Spec => []PaymentNeedsStock` |
| `StockIsReleased` | `PurchaseSagaSafety` | `Spec => [](Undisturbed => StockFollowsPayment)` |
| `StockIsAlwaysReleased` | `PurchaseSagaSafety` | `Spec => []StockFollowsPayment`, if only refund calls fail |
| `TypeCorrect` | `SeatHoldsProofs` | `Spec => []TypeOK` |
| `HoldsExpire` | `SeatHoldsProofs` | `Spec => []HeldSeatsExpire` |
| `HoldsFollowOrders` | `SeatHoldsProofs` | `Spec => []HoldsServePending` |
| `HoldsImplementBoxOffice` | `SeatHoldsProofs` | `Spec => ImplementsBoxOffice` |
| `TypeCorrect` | `TicketDeskProofs` | `Spec => []TypeOK` |
| `RefundsAreOver` | `TicketDeskProofs` | `Spec => []RefundedIsOver` |
| `OwnersAreAdmitted` | `TicketDeskProofs` | `Spec => []OwnersEnter` |
| `NothingIsHidden` | `TicketDeskProofs` | `Spec => []NothingHidden` |
| `MapIsRight` | `TicketDeskProofs` | `Spec => []MapAgrees` |
| `SecondsStayOut` | `TicketDeskProofs` | `Spec => SecondStaysOut` |
| `DeskImplementsBoxOffice` | `TicketDeskProofs` | `Spec => ImplementsBoxOffice` |
| `TypeCorrect` | `CircuitBreakerProofs` | `Spec => []TypeOK` |
| `OpensForFailures` | `CircuitBreakerProofs` | `Spec => []OpenAfterFailures` |
| `NoticesOutages` | `CircuitBreakerProofs` | `Spec => []OutageNoticed` |
| `TypeCorrect` | `StorefrontProofs` | `Spec => []TypeOK` |
| `QuotesAreFair` | `StorefrontProofs` | `Spec => []QuotesFair` |
| `ChargesAreFair` | `StorefrontProofs` | `Spec => []ChargedFairly` |
| `ReportsTellTheSame` | `StorefrontProofs` | `Spec => []ReportsAgree` |
| `StockIsAccounted` | `StorefrontProofs` | `Spec => []StockAccounted` |
| `DeactivationIsFinal` | `StorefrontProofs` | `Spec => DeactivatedStaysOut` |
| `CopiesFollow` | `StorefrontProofs` | `Spec => []InSync` |
| `TypeCorrect` | `StartupProofs` | `Spec => []TypeOK` |
| `VersionIsTrue` | `StartupProofs` | `Spec => []VersionIsEarned` |
| `ServesSound` | `StartupProofs` | `Spec => []ReadyIsSound` |
| `KeepsPrices` | `StartupProofs` | `Spec => OwnPricesKept` |

**Saga.** `PurchaseSagaProofs` first proves that each operation keeps the types (`...Types`, one lemma per operation, `EndingTypes` for the
ways a handler ends), which gives `TypeCorrect`. Then each operation simulates a step of `BoxOffice` or a stutter (`...Simulates`):
status changes only in `CreatePurchase` (Open), `MarkCancelled` (Drop, because it looks at the status first) and `ConfirmPurchase`
(Sell, because query and commit are in one step). `NeverSoldTwice` follows from the same simulation: Sell requires free seats.

`PurchaseSagaSafety` proves `SagaInvariant`. `OutboxMatchesDecision` and `AnnouncedHasContext` are inductive with the types (`...Decisive`) as
soon as one knows that a task waiting in `"confirming"` belongs to a confirmed order, and that nothing was stored or sent for an order before its
row (`NothingBefore`). Only announced orders are claimed to keep their context: the error path of `create_purchase` deletes the one of a committed row, but before
anything was published for it. `PaidIsAnswered` is not: when the consumer
returns from a refund nothing in it says that there was money to return, or that the handler that finishes is one that
answered. The invariant adds `TaskShape` (a suspended handler's message is still in the inbox, the
reconciler handles none, and a handler of `payment.success` waits only to announce a confirmed order or to refund) and
`SuccessMeansCharged` (`payment.success` is in the inbox only for money that was captured). `...Flowing` proves these
operation by operation; `InvariantHolds` puts both halves together. The run `PurchaseSagaOne` checks the same invariant. `LinkNeverExtended`
speaks of one step and needs `LinkFollowsAttempts`: there is no link before the first attempt and no context before the
purchase, so that what a first attempt writes cannot replace an older link.

**Stock and payment.** `PaymentNeedsStock` holds through every fault. Its invariant `StockKnown` says what each place that may ask for a
payment knows of the stock: the announcements in the inbox, a context past `awaiting_inventory`, a handler that waits for
the publication of `payment.initiated`. It also keeps what a pending row, and the copy of it a pass has read, may say. A step that asks for no payment
of stock that is not reserved (`Prudent`) keeps all that, and `...Prudent` shows it of each operation.

`StockFollowsPayment` is false once a release is lost, a step is cut after its commit, a context is evicted or Redis does not
answer about a reservation. Failing refund calls do not matter to it. `Undisturbed` says that nothing else has failed yet, and under it two facts are kept
(`Orderly`): contexts disappear only with the decision, and the property itself. A cancellation that releases nothing is then one of three. The stock was refused, so no payment was begun; no
reservation is recorded, which says the same; or the pass read `pending_inventory`. In the third case the row may be out of date, but such a row is
cancelled without a release only when its context is gone, and it is not: a pending order older than `PAYMENT_FLOW_STALE_SECONDS` is also older than
`INVENTORY_DECISION_TIMEOUT_SECONDS` and takes the branch that asks for the reservation (`ReconcileOrderly`). This is where the order between the two
durations is needed. TLC checked the same invariant with one and two orders, with refused stock and declined payments.

**Holds.** `HoldInvariant` adds to the properties that the rows and the requests agree (`RowsAgree`: who waits for the seat map has no row
yet) and that whoever holds a seat selected it and has a row with `showtime_id` (`HoldersSelected`). Without the second a decision, which
deletes the keys of the order's own seats, could leave a hold behind.

**Desk.** `DeskInvariant` relates tickets, refunds and waiting requests to their purchase (`TicketsFollow`) and says that two linked orders
never both have a ticket that is not cancelled for one seat, and that a confirmed one has them all (`OneTicket`). `OwnersEnter`, `MapAgrees` and `SecondStaysOut` follow from it: the
search for duplicates finds nothing for an owner because there is nobody else with a ticket for that seat. `NothingHidden` is a sum over the orders sold, of which there are
finitely many at any time although `Orders` need not be finite (`SoldFinitely`). A sale takes from the counter at most what it adds to the
sum, and a purchase given back once leaves the sum and returns its tickets; given back twice it only adds to the counter (`CountFollows`).

**Breaker.** `BreakerInvariant` says where the counter in Redis lies between the two histories (`CountsAgree`): it is at most the failures since the last
success that was recorded, which gives `OpenAfterFailures`, and at least the failures in a row less the faults, because each fault loses one of
them at most, which gives `OutageNoticed`. It may be ahead of the failures in a row, when a success was not recorded (section 6).

**Copies.** `InSync` speaks of what is left when everything was read, so its invariant (`Copied`) says where the events of each subject are.
If the row is absent and none of its events was lost, all of them are still ahead; if its state differs from the owner's, the deactivation is
ahead; and a price or profile that differs means that a later one is ahead. A redelivered event is not ahead and is
applied all the same: the proof needs that a repeated creation keeps the row, and that the last event in hand is the last one read. `CopyInvariant` has the
types of the copies and of the requests that read them.

**Sums.** `SumFunctionOnSet` takes some element of the set and goes on with the rest. `SumTheorems` proves what such a recursion computes
without a theorem that takes an operator: a statement about subsets of a finite set is a set of subsets, and a set that
contains the empty set and grows by one element at a time contains them all (`SubsetInduction`). From that follow
`SumUnfolds`, `SumRemove`, `SumUnion`, `SumOfImage` and `SumByParts`, a sum split by a function into parts.

**Prices and bills.** `QuoteIsFair` is about `Pricing` alone, for every price and every valid request: each line of the quote comes from a category of
seats, a product or the fee, and lines of different kinds are different, so that their sum is the seat by seat sum of
`FairTotal` and the ticket lines count the tickets. `SaleInvariant` says that every row has the bill of a valid request at a price the film had, and
that a request that waits for catalog-service passed the checks that came before; `TypeOK` and `ChargedFairly` follow.

**Reports.** The revenue by film and by date are the totals split by a function of the row (`SumByParts`), counts of
rows being sums of ones (`CardinalityIsSum`).

**Tickets of a film.** `Accounted` says of each film that only one event creates it (`OneCreated`) and that stock and confirmed tickets together are
at least its first figure while updates carry none (`Balance`). A sale subtracts what it adds to the tickets sold, or less
when it is clamped at 0; a repeated creation finds the row and changes nothing.

**Startup.** `StartInvariant` says that a database is sound at each step: `Sound` for what a revision needs from those before it, `Bare`
for a database without tables. One lemma per revision proves that it leads from a sound database to a sound one with the
next version (`MigrationSound`), `UpgradeSound` chains them and `DowngradeSound` covers the way back.

Only model-checked: liveness (`EveryPurchaseDecided`, `EveryPaymentAnswered`, `SeatsComeBack`, `OpenEnds`, `CaughtUp`, `Starts`), which is outside
what the prover handles. Every invariant and every property of a step that a passing run checks is a theorem; `StockFollowsPayment` is one under
the condition stated, without which it is false.

## 6. Behaviours to know

Refuted by a run; each quotes the text it disagrees with in `PROJECT.json` (findings).

1. **Refund of a confirmed purchase** (`booking.py:965`). The reconciler read two pending rows; while it waits on the first, the consumer
   confirms the second and waits to announce it with the context still stored. The pass then finds the link of the second expired,
   `mark_purchase_cancelled` does nothing, and the refund is requested all the same.
2. **Unannounced confirmation** (`booking.py:690`). A restart between the commit of a confirmation and `purchase.confirmed` loses the event:
   the redelivered `payment.success` is a duplicate.
3. **Hold of somebody else** (`booking.py:662`). Cancelling an order deletes the hold keys of its seats even if its own hold ran out and
   another order holds them now; a third order is then sent to pay for the same seat.
4. **General admission** (`booking.py:440`). Every order numbers its tickets `GENERAL-1, ...`, and the unique index refuses the second
   order with the same `showtime_id`: it is charged, cancelled and refunded.
5. **Cancelled twice** (`purchases.py:238`). Two requests for one purchase both add its quantity to `available_tickets`.

Seen in the models while writing them, and not claimed by any property:

* **late reservation** (`booking.py:913`): the reconciler cancels an order for which no reservation is recorded without releasing
  anything; inventory-service may reserve afterwards, and the late `inventory.reserved` is ignored, so that stock is lost;
* after a restart between the publication of `payment.initiated` and its record the context stays in `payment_initiated`, and the order is cancelled
  after `PAYMENT_FLOW_STALE_SECONDS` while its link is still good (the payment, if it comes, is refunded);
* when `db.refresh` raises after the commit (`booking.py:383`) the client gets an error and the context is deleted, but the row stays
  pending, without anything published, until the reconciler cancels it (`AnnouncedHasContext` does not speak of it, `EveryPurchaseDecided` does);
* a release of holds that Redis refuses is not repeated (`redis_client.py:123`): the seats of the decided order stay held until the TTL, which
  `HoldsServePending` leaves out as `stranded` and `SeatsComeBack` includes;
* `reassign_hold` sets the key with `keepttl` and without `XX` (`redis_client.py:78`): if the hold has run out since it was acquired the key is created without a
  time limit. The insert would have to last longer than `seat_hold_ttl_seconds`, which the step of `Open` excludes;
* a message that is not JSON fails in `value_deserializer` (`consumer.py:280`), outside the handler: it is not sent to the dead letter topic and fails again
  after each restart of the loop. `CaughtUp` and the saga's fairness assume that every message is JSON;
* the holds of rows K to P survive a cancellation until they expire (`booking.py:659`), which `HoldsServePending` leaves out;
* a seat sold while a request waits for the seat map is accepted, and the payment for it is turned away later (`booking.py:282`);
* between an order with `showtime_id` and one without, neither the conflict query nor the search for used tickets sees
  the other (`booking.py:716`, `purchases.py:597`), so that the refinements, `OwnersEnter` and `SecondStaysOut` speak of orders with `showtime_id`:
  if the ticket of an unlinked order is used first, a linked one for the same seat gets its owner in too;
* `cancel_purchase` also cancels tickets that were used, and the seat may be sold and used again (`purchases.py:242`);
* `PaidIsAnswered` counts a refund that payment-service calls `manual_required` as a refund, and any dead letter as an entry for a person;
* the circuit opens for failures that are not consecutive, which `circuit_breaker.py:21` says they are: a success whose `DEL` fails
  (`circuit_breaker.py:68`) leaves the count, and the count has no TTL. Two failures, that success and one more failure are enough.
  `OpenAfterFailures` counts from the last success that was recorded for this reason;
* after the recovery time every caller passes the breaker, not one probe (`circuit_breaker.py:52`), and a call
  begun before the circuit opened closes it when it succeeds (`circuit_breaker.py:65`);
* `movie.deactivated` or `user.deactivated` read before the event that creates the row has no effect, and the row is active
  for ever after (`consumer.py:126`); `InSync` excludes these as `missed`;
* `movie.updated` overwrites `available_tickets` when it carries the field (`consumer.py:90`), and with it what booking
  subtracted; `StockAccounted` speaks of films whose updates carry none;
* in the report by film `net_revenue` subtracts the refunds from a revenue that leaves them out already, and the number of
  tickets counts those given back, unlike the other two reports; `ReportsAgree` compares revenue, refunds and purchases;
* `alembic upgrade head` on an empty database never succeeds: `db52472f73cb` creates enums with lower-case labels and the last revision
  builds its index with `'CANCELLED'`. The service starts on such a database because `create_all` comes first;
* stamping a database made by `create_all` as head, as the docstring of `db52472f73cb` advises, leaves the menu empty;
* `a1b2c3d4e5f6` refuses to run if any other ticket has the seat of the historical one, a cancelled one too and even if the
  historical ticket does not exist; `Starts` names this as an obstacle.

## 7. Not modelled

* The JWT, the blacklist of tokens and the internal token: stateless checks of data that other services own. `get_current_user` is in `Storefront`
  as far as it reads the copy of users.
* Response schemas and the lists of purchases (history, admin list, `check_user_used_ticket`): filters and formats of rows that are modelled.
* Reading the settings from the environment: their values are constants.
* Titles, posters, capacities and the columns that only migrations touch; payloads, mails and logs; connection options.
* The pause of `start_consumer` before it reconnects: a restart of the loop is a restart.

## 8. Plan

Written, in this order: `BoxOffice`, `PurchaseSaga`, `SeatHolds`, `TicketDesk`, `CircuitBreaker`, `Replicas` with `Pricing` and `Storefront`, `Startup`,
and the proofs of each. What is left:

1. Two users in `Storefront`: the proofs do not depend on it.
2. The lists of purchases, if they come to keep state.
3. The behaviours of section 6 that no run shows, as the documentation takes a position on them.
