# SmartRetailX: a verification project

SmartRetailX is a small retail system: Python services on ECS, Lambdas between
them, a React single-page application, and Terraform that wires it all. Its core
is a choreographed saga: the Order Service writes an order and a command in one
transaction, the Inventory Service decides it and announces the outcome, and the
Order Service applies the announcement. Around it, copies of that state travel:
to caches, to mailboxes and to browser pages that load, listen and write at the
same time. This directory holds TLA+ models of both, the TLC configurations that
check them on small instances, and proofs that TLAPS checks for every value of
the constants.

Contents: [1 The system](#1-the-system) · [2 Modules](#2-modules-and-the-code)
· [3 Runs](#3-runs-and-what-they-show) · [4 Bounds](#4-bounds) ·
[5 Fairness](#5-fairness) · [6 Proofs](#6-proofs) ·
[7 Findings](#7-findings) · [8 Abstractions](#8-abstractions-and-what-is-not-modelled)
· [9 Plan](#9-plan)

## 1. The system

Paths are relative to `src/`.

| Component | Source | State | Operations | Interacts through |
|---|---|---|---|---|
| Order Service | `services/order-service/app` | orders, order outbox, idempotency records (DynamoDB) | place, list, get, cancel, progress fulfilment; consumer of saga outcomes | Product Service (prices), outbox, order-events queue |
| Order outbox publisher | `services/order-outbox-publisher/handler.py` | marks outbox rows | stream of the outbox to SQS or EventBridge | outbox, orders queue, event bus |
| Inventory Service | `services/inventory-service/app` | stock, inbox, reservation ledger, outbox (Aurora) | consume commands, relay outbox rows, adjust stock, availability | orders queue, SNS topic |
| Queues and topics | `infra/messaging.tf` | messages, receive counts, dead-letter queues | deliver, redeliver, redrive | - |
| Product Service | `services/product-service/app` | products, promotions, in-process cache | catalogue and prices, promotions, reconciliation loop | table streams, pipes |
| Live status | `services/ws-*-lambda`, `infra/pipes.tf`, `frontend/src/hooks/useOrderStatusStream.ts` | connection registry; one socket, timer and phase per page | push order and price changes to browsers, reconnect | table streams, event bus, API Gateway |
| Notification Lambda | `services/notification-lambda` | idempotency record per SNS message | an e-mail per outcome and delivery stage | SNS, EventBridge, SES |
| Frontend, order pages | `frontend/src/pages/{OrderDetail,MyOrders,AdminFulfilment}Page.tsx` | shown orders, busy and error flags, requests under way | load, refresh, cancel, progress, download | Order Service, live status |
| Frontend, cart and ordering | `frontend/src/context/CartContext.tsx`, `pages/{Cart,PlaceOrder}Page.tsx` | cart per tab, stored cart, checkout under way | edit the cart, check out, order one product | localStorage, Inventory Service, Order Service |
| Frontend, session and account | `frontend/src/auth`, `App.tsx`, account pages | copy of Amplify's session, form state, handlers under way | sign in and up, verify, recover, set TOTP up, edit the profile | Amplify and Cognito |
| Frontend, catalogue pages | `frontend/src/pages/{Products,AdminProducts}Page.tsx`, `catalogueRefresh.ts` | shown products, the desk's draft | load, refetch and merge; create, change, delete | Product Service, live status |
| Frontend, other desks | `frontend/src/pages/Admin{Stock,Promotions,Users}Page.tsx` | a list and a form | load, write, reload | services |
| Reconciliation Lambda | `services/reconciliation-lambda` | none | reports orders stuck in PENDING | orders table |
| User Service | `services/user-service` | profiles | profile CRUD | Cognito |
| srx_common, prices, migrations | `services/common/srx_common`, `migrate.py` | none | token checks, price arithmetic, logging, deployment | - |

### How the saga runs

`POST /v1/orders` claims the idempotency key, prices the items and writes order
and outbox row in one transaction. The stream Lambda sends the row to the orders
queue. An inventory consumer reserves the stock and commits stock, ledger, inbox
receipt and outbox row together; it, or the relay thread of any task, publishes
the row to SNS, which fans out to the order-events queue and the notification
Lambda. The compensation consumer of the Order Service changes the order's status
by a conditional update. A cancellation takes the same round trip with
`order-cancel-requested` and `order-cancelled`. Fulfilment changes are written
with an outbox row of their own, which the same Lambda puts on the event bus.

### What is hard, and what makes each component correct

* **Inventory Service.** Several consumer threads per task and several tasks;
  duplicate and concurrent deliveries of one command; row locks taken in line
  order, hence deadlocks; a wrapper that retries database errors; crashes between
  commit, publish, mark and delete; a relay thread next to the consumers' inline
  publish; operators who set absolute levels. Correct: no unit is sold or given
  back twice, one decision per order, tables of a decision agree, nothing is
  announced or acknowledged before it is durable, everything durable is announced.
* **Order Service, saga side.** An operator's dispatch, an owner's cancellation
  and late, duplicated or reordered saga events race on one order; outbox rows
  are sent at least once. Correct: status, fulfilment and stock move together,
  rows match accepted states, the status is what was decided.
* **Order Service, idempotency keys.** Concurrent requests with one key; failing
  calls between claim, transaction, completion and release; crashes, eventually
  consistent reads and expiry. Correct: one order per key, answers are true,
  retries are not refused for ever.
* **Product Service.** A reconciler on every task, administrators who
  read-modify-write, markers in the table that make the stream announce; a cache
  per task. Correct: a promotion moves only when due and only once, and every
  change of a price leads to a refresh that finds it.
* **Product Service, cache.** Readers that fill the cache after a writer dropped
  it, another task's cache, a lagging index. Correct: a task serves its own writes,
  and a page that was told to refetch ends with what was announced.
* **Notification.** One row announced by several threads, of which some end, an
  announcement delivered twice, an attempt that dies between the send and the record. Correct:
  few mails, none missing while a thread announces, and "done" means mailed.
* **Order pages.** Answers and pushes in any order, pushes twice or never, two
  writes in flight behind one slot, connections and tokens that end. Correct: a
  page shows what was committed, is current when nothing is on its way, offers
  what the service accepts, and comes back after a loss.
* **Cart and ordering.** A cart that is edited during its checkout, several tabs
  over one stored cart, pages that are left with a request under way. Correct: what
  is ordered is what was checked, and nothing but an order empties a cart.
* **Session and account.** Handlers that outlive their screens, a provider whose
  copy of the session is set from a read that was overtaken, an MFA preference in
  two places. Correct: the copy is real, buttons come back, screens tell the truth.

PROJECT.json lists the hazards line by line, with the property that covers each.

## 2. Modules and the code

```
Reservation  <--- implemented by ---  Inventory        (assume-guarantee)
     ^
     | used by
  Orders     --- implements -->  OrderLifecycle
OrderKeys        Promotions        Notifications
OrderStream  <--- extended by ---  OrderPages
Session      <--- extended by ---  Account
Checkout         Catalogue
```

| Module | Models |
|---|---|
| `Inventory` | the Inventory Service with its queue, threads, tables and operators |
| `Reservation` | what the Inventory Service promises about an order (abstract) |
| `Orders` | orders and outbox tables, the stream Lambda, SNS and the order-events queue, compensation consumers, composed with `Reservation` |
| `OrderLifecycle` | what customers and operators may rely on (abstract) |
| `OrderKeys` | `create_order` and the idempotency record of one key |
| `Promotions` | the promotions table, administrators, reconcilers, the clock |
| `Notifications` | a row's announcements, their deliveries and the Notification Lambda |
| `OrderStream` | `useOrderStatusStream`: connection, timer, token, phase |
| `OrderPages` | a visit of the detail page, the list or the fulfilment desk, with the orders behind it |
| `Checkout` | the tabs of a browser, their carts and the stored one, checkouts |
| `Session`, `Account` | AuthContext and the routes; the account's screens and their handlers |
| `Catalogue` | products, the caches of the tasks, the customer's page and the desk |
| `*Proofs` | the theorems about each and their lemmas; `OrderingProofs` has those of `Checkout` and of `OrderKeys`, `AccountProofs` those of `Session` and `Account` |
| `MC*` | the small instances |

### Inventory

`stock`, `ledger`, `inbox`, `decision`, `outbox` are the Aurora tables (`decision`
is the `event_type` of the outcome row). `mail` and `receives` are the orders queue with its
receive counts and dead letters. `pc`, `msg`, `tx` are what each consumer thread
holds between two calls that other threads can see: the message, and the open
transaction (next line, whether a line was short, ledger rows locked, attempt).
`batch` and `current` are the loop of `publish_once`, which consumers and relay
threads share.

A transaction's writes are private until its commit, so `ReserveLine` only moves
the line number: `Held(c)` derives from it which stock rows are locked, and
`CommitOrder` applies the decrements. A line waits while another transaction holds its
row; `DeadlockVictim` aborts a member of a cycle of waiting transactions.
`CommitConflict` is the inbox's unique key. `Rollback` is the wrapper's retry.
`LockLedger` is the `SELECT ... FOR UPDATE`, `RestoreStock` the rest of
`release_reservation`. `Wiring` says which object `main.py` hands the threads:
`"ResilientStock"` as deployed, on which a release raises
(`ReleaseUnavailable`), or `"StockRepository"` as the consumer's own tests do.
`supply` is a ghost: the units operators stated.

### Reservation, Orders and OrderLifecycle

`Orders` contains the tables (`status`, `fulfilment`, `rows`), the stream Lambda
per row (`relay`, `tries`), the queue (`mail`, `receives`) and the consumers
(`pc`, `msg`). The Inventory Service appears as the four variables of
`Reservation` and moves by `Reservation`'s own actions; `RelaySend` is what asks
it. The composition is assume-guarantee: `Inventory` shows `PromiseKept`
(it implements `Reservation` provided a cancellation is asked for only after a
confirmation was announced), and `Orders` shows `ReservationUsed` (it never asks
otherwise). Each API handler is one conditional DynamoDB transaction, hence one
action; what a handler reads before it decides nothing.

### OrderKeys

One action per call of `create_order`: `Claim` (conditional put), `Inspect` (the
read when the put failed), `Replay`, `Price`, `PutOrder`, `Complete`, `Release`, and
one for each way it can fail. `faults` bounds the failures; the ghost `struck`
remembers which kinds there were, so that one run can say which promise survives
which failure. `Exclusive` says that nothing so far took a record away from a
request that goes on; `Tidy`, that nothing ended a request that has a record to
update.

### Promotions

A row is its window, `enabled`, `lifecycleState`, `lifecycleVersion` and
`priceEventPending`. `Create`, `ReadForUpdate`, `Write` and `FinishRequest` are
an administrator's request between its calls to the table; `StartSweep`,
`Transition` and `ClearTransition` a task's sweep. Two ghosts: `seen`, whether
the promotion applied when its last refresh was announced (what a browser that
refetches then finds), and `clobbered`, whether an update replaced a row other
than the one it had read. The update does not compare revisions, so it can; what
holds until then is the content of `PromotionsInv` and `LifecycleForward`.
`RevisionGrows` says what does not hold (section 7).

### Notifications

A row is one outcome in Aurora (`path = "sns"`) or one milestone in DynamoDB
(`"bus"`). `Read`, `Publish`, `Mark` are the loop of `publish_once`, of which every
thread has its own; on the stream one run of the Lambda holds the record. A read that
fails (`ReadFails`) is outside the `try` of `publish_once`: a consumer's `run_forever` catches
it, and a relay (`Relays`) ends, until its task is replaced (`GiveUp`). `failures` counts the
failed runs of the stream Lambda, which gives a record up after `StreamRetries`.
Each publication is a message with an id of its own, and each
delivery of it an invocation: `Claim` is the conditional put of Powertools'
record, `Send` is `deliver`, `Complete` and `Release` what Powertools does with the
record after it, `Crash` the timeout, `Retry` Lambda's asynchronous retry.
`Expire` is the deadline that `register_lambda_context` gives a record in progress,
`Forget` the hour after which a completed one is void. `mails` counts what SES took;
`lost` is history: those mails that no record tells of, because the answer or
the completion was lost, or the record has been forgotten.

### OrderStream and OrderPages

`OrderStream` is the hook from mount to unmount: `Open`, `CloseHandler` (for a
refused, dropped or closed socket), `Reconnect` (the timer), `Unmount` (the effect's
cleanup). `OrderPages` adds the page around it: `view`, `loading`, `error`, `busy`,
`downloading`, `conflict` are its `useState`s, `calls` its requests in the order
they were made. `Serve` is a request's arrival at the Order Service, where
`Commit` changes the row and emits what `pipes.tf` lets through to whom
`_connections_for` finds; `Change` is everybody else's change. `Settle` is the
answer's handler, for each of the pages. A page that is left keeps no state; its
answers come to nothing. `trusted` is history: the orders of which nothing was
lost, dropped before the orders were there, or overtaken. A push carries one field,
as the hook parses it.

### Checkout

`lines[t]` is the provider's state in a tab, `stored` is localStorage, which every
`setLines` overwrites through the effect (`Put`). `attempts` are the checkouts:
`Checkout` and `Submit` begin one, `Availability` reads and validates, the order is
sent under a key of its own, and its answer reaches the page only if it
is still there, but the cart in any case. `covered` and `retries` are history: whether
the availability read covers what was sent, and which failed attempt is repeated.

### Session and Account

`Session` has Cognito's account, Amplify's stored tokens and pending challenge,
AuthContext's `status`, `user` and `error`, the path and the form's state. `Shown`
is App's routing: what a path shows in a status. A handler is a record of `calls`
that goes through its requests (`at`) and finds its screen there or not (`left`).
`Account` has one action per handler and request: signing in with its retry after
`UserAlreadyAuthenticated`, the TOTP challenge, sign-up, verification and its
cooldown, recovery, TOTP set-up, and the profile's forms, each with success,
refusal and lost answer. Routes change under handlers whenever the status does
(`Render`), and a screen that both trees of routes have mounts anew when they swap.
`crossed`, `mixed`, `overlap`, `alone`, `cut` are history.

### Catalogue

A row is how often it was written, and whether it is there. `Write` is the
conditional write at any task, `Invalidate` what that task drops of its own cache,
`Hit`, `Miss`, `Fill` and `Expire` the reader's side of the cache. `prior` is what a lagging
replica still answers. `news` are the refreshes on their way; `Refreshed` makes the
page fetch again and `PageRefetched` merges the answer as `catalogueRefresh.ts` does. The
desk is AdminProductsPage's list, draft and reload. `owed` and `wrote` are history;
`late` and `excused` mark what a property may not blame the code for, each where the
code itself admits it.

## 3. Runs and what they show

| Run | Module | Expected | States | Question |
|---|---|---|---|---|
| `inventory_reserve` | Inventory | pass | 275 k | two two-line orders, opposite line order, a crash: is the decision safe and does it come? |
| `inventory_cancel` | Inventory | pass | 1.1 M | one-line orders competing for two units, cancellations, redelivery, an operator: does every unit stay accounted for, is the promise kept? |
| `inventory_live` | Inventory | pass | 87 k | one order, a relay thread, a fault: is everything announced and released in the end? |
| `inventory_no_release` | Inventory | violation | - | as deployed, does a cancellation release stock? |
| `orders` | Orders | pass | 45 k | dispatch, cancellation, redelivered events, a fault: do status, fulfilment, stock and outbox agree, and does everything arrive? |
| `order_keys` | OrderKeys | pass | 422 k | four requests, one with another body, three faults of any kind: which promises survive which? |
| `promotions` | Promotions | pass | 587 k | two tasks, two administrators, two promotions, the clock, a fault: do states stay due, is every change announced? |
| `order_pages` | OrderPages | pass | 273 k | a visit of each page, with changes, pushes, writes and a loss: is what is shown and offered true? |
| `checkout` | Checkout | pass | 548 k | two tabs, carts edited during checkouts, pages left: is what is ordered what was checked? |
| `account` | Account | pass | 198 k | two handlers at once, screens left under them: are session, buttons and MFA status true? |
| `catalogue` | Catalogue | pass | 1.53 M | two tasks with caches, slow readers, lagging replicas, refreshes lost or doubled: which price is served and shown? |
| `notifications` | Notifications | pass | 258 k | a consumer and a relay that a failed read ends, duplicated deliveries, two faults: how many mails, and is there one? |

The properties, by what they would catch:

* `NoOversell`, `StockAccounted`: lost updates and double releases between
  consumers, redeliveries and operators. What is held of a product is counted: the
  units that reserved ledger rows stand for. The equality is checked, and proved, for
  orders of one line only: with more lines, a rejected order keeps what its first
  lines took (section 7), and only the inequality holds.
* `DecidedOnce`, `CommandSettled`, `RowsAnnounced`, `CancellationReleases`:
  redelivery, concurrent handling, deadlock and crash change no decision and leave
  no command, row or cancellation behind.
* `PromiseKept`, `ReservationUsed`, `LifecycleKept`: refinement (section 2).
* `ShippedStockHeld`, `StatusTruthful`, `NothingStranded`: the Order Service's side;
  the last one is liveness: events are applied, rows are sent, or they are in a
  dead-letter queue.
* `ExclusiveSafe`, `CompletedStays`: the key. The first one says that until a fault
  takes a claim from a request that goes on, there is one order per key and every
  answer is of the right body.
* `LifecycleForward`, `RefreshFollows`: a promotion's moves are due and not undone;
  what changed is announced in the end.
* `NeverAhead`, `QuietIsCurrent`, `TwiceOnlyAfterAnother`, `Recovers`: a page shows
  no status its order has not been in; with nothing on its way it shows the table,
  unless a push was lost, dropped before the page was loaded, or overtaken; a
  second write for an order needs a write for another one in between; connection
  and buttons come back. `QuietIsCurrent` excuses precisely the ways in which the
  pages do go stale: there is no refetch after a reconnect.
* `OrderedAsChecked`, `StoredIsLastCart`, `CartKept`: the lines that are ordered
  are those of the click and were covered by the availability read after it; a
  reload shows the cart of the tab that wrote last; only an order empties a
  cart at once.
* `MfaIsTrue`, `NotStranded`, `EditsKept`, `ButtonsReturn`: the account's screens,
  each with the overlaps under which the code does not keep it named in the
  property.
* `OwnWritesServed`, `AnnouncedIsShown`: a task serves nothing older than its own
  write, and a page ends with the last announced price, unless a reader was
  overtaken, a replica lagged or a refresh was lost.
* `FewMails`, `Mailed`: no announcement has two mails that are accounted for, a row
  has no more announcements than threads and failures explain; and one mail comes,
  unless from some point on nobody is left to announce the row: on SNS the relays have
  ended and no consumer holds it, on the stream its retries are used up.
* `InventoryInv`, `OrdersInv`, `KeysInv`, `PromotionsInv`, `PagesInv`,
  `CheckoutInv`, `AccountInv`, `CatalogueInv`, `NotificationsInv`: types, and the
  conjuncts that belong to every state: tables of a decision that agree, rows that
  match orders, one connection or timer, a disabled button with its request behind
  it, what is offered being what the service accepts, and so on.

Each property is paired in PROJECT.json with a plausible mistake in the code (the
operators commented "Seeded mistake") under which the same run finds it violated.

## 4. Bounds

Every bound is a constant of its module, and the proofs hold for all their values.

* **Two of what competes.** Two consumers on two tasks and two orders are enough for
  every pairwise race on a row, an inbox key or a ledger row, and for a deadlock
  (with two products in opposite line order). In `Orders` orders do not
  interact, so one order with two consumers is used. Keys need four requests: a
  winner, a loser that reads after a release, a third that claims, and one with
  another body. Promotions need two tasks for "only one wins" and two
  administrators for a lost update. `OrderPages` has two orders, because one slot
  serves all rows; of the desk's, one is pushed to and one is not. `Checkout` has two
  tabs and two products, `Account` two handlers at once, `Catalogue` two tasks
  (symmetric: a permutation changes no property) and one product.
* **Deliveries.** `MaxReceive = 2` reaches redelivery and the dead-letter queue (the
  queues say 3), and redelivery duplicates an event; in `Catalogue` a refresh comes up
  to twice, in `Notifications` the first announcement is delivered twice at once.
* **Stock.** The competition run has two units, asked for so that both orders
  cannot have what they want; the operator's level 3 differs from the initial one.
* **Requests and changes.** `OrderPages`: three requests on the detail page and the
  desk, four on the list, so that a load, two writes of two orders and a repeated
  one fit; two, one and one foreign changes. `Checkout`: two attempts, two edits of
  the cart, four pages entered, quantities up to 2. `Catalogue`: two requests at once
  (the pages' slow ones; quick ones of other customers are `OtherReads`) and one
  write: a price overtakes a reader, a cache entry and a list with one write already.
* **Accounts** are none yet, a plain one and one with TOTP; the paths that are typed
  are the sign-in and the profile. Other pages are reached by links.
* **Faults and crashes** are single in the big runs, which puts one at every point
  of every behaviour; `notifications` takes two (no more than `MaxRetries`, which `Mailed`
  needs) so that a retry fails too, and `StreamRetries = 1` (the mapping says 3) so that two
  can use them up; its two threads are those of one task, as `service_desired_count` has it,
  `order_keys` three so that faults of different kinds combine. In `Account` and
  `Catalogue` requests fail as often as they are made: failures are not counted.
* **Time** in `Promotions` has three instants, and windows [0,1), [1,2), [0,2): a
  promotion not yet begun, begun and ended, and every change between them. In all
  other modules a deadline may come whenever its condition allows it.

`CHECK_DEADLOCK FALSE` is set where the system may stop: requests are
finitely many, a saga that is over has nothing left to do, a customer may go.

## 5. Fairness

* `Inventory`: weak fairness of each consumer and each relay thread (`while not
  stop: poll_once`, `publish_once`) and of the redrive. Weak fairness is enough for
  lock waits because receives and attempts are bounded. Nothing makes a command be
  sent, an operator act, or a fault occur or not.
* `Orders`: weak fairness of the stream Lambda on each row (the event source
  mapping), of SNS' first delivery of an announcement, of the consumers and of the
  redrive. Nothing makes customers, operators or the Inventory Service act.
* `Promotions`: weak fairness of each task's sweep (the loop waits 15 seconds and
  runs again, and catches what a sweep raises). Neither time nor administrators need
  go on.
* `OrderPages`: weak fairness of the service's answers, of their handlers, and of the
  browser's own connection events and timer. No push need arrive, nobody need change
  or click anything, and the connection may be lost.
* `Account`: weak fairness of each handler's next request or reply: a `fetch` ends,
  one way or the other. Customers need not do anything.
* `Notifications`: weak fairness of a relay's read while the relay lasts (`run_forever`
  polls every two seconds), of some run of the stream Lambda while the mapping retries,
  and of the rest of the loop of who holds the row. A consumer reads only after
  a command, and no command need come; that a relay is not started again unless its
  task dies is in the model, so an ended one has nothing to be fair about. Then the
  first delivery of an announcement (both SNS and the bus retry until they can), the
  Lambda's runs and retries without a fault, and the deadline of a record in progress.
* `OrderKeys`, `Checkout` and `Catalogue` state no liveness: what a client retries is
  the client's choice, and a price that is announced is not shown if its refresh is
  lost, which the code accepts.

## 6. Proofs

TLAPS proves, for every value of the constants that satisfies the named
assumptions (`InventoryAssumption`, `OrdersAssumption`, `KeysAssumption`,
`PromotionsAssumption`, `StreamAssumption`, `PagesAssumption`,
`CheckoutAssumption`, `SessionAssumption`, `TypedAssumption`,
`CatalogueAssumption`, `NotificationsAssumption`, and `NoneAssumption` where a module has one):

| Module | Theorems |
|---|---|
| `InventoryProofs` | `InventoryInvariant`, `TypeCorrect`, `DecisionIsConsistent`, `AnnouncedRowsDurable`, `DeletedCommandsDone`, `DecisionsAreFinal`, `ImplementsPromise`, `NothingOversold`, `AllStockAccounted`, `OnlyRejectionLosesUnits`, `SingleLinesAllOrNothing` |
| `OrdersProofs` | `OrdersInvariant`, `DispatchedStockStays`, `StatusIsTruthful`, `OutboxIsExact`, `AcknowledgedIsApplied`, `ImplementsLifecycle`, `UsesReservation` |
| `PromotionsProofs` | `PromotionsInvariant`, `MovesAreDue` |
| `OrderPagesProofs` | `PagesAreSound`, `ShownWasCommitted`, `QuietPagesAreCurrent`, `SlotAllowsTwiceOnlyAfterAnother` |
| `OrderingProofs` | of `Checkout`: `CheckoutsAreSound`, `WhatIsOrderedWasChecked`, `LastCartIsStored`, `CartsAreKept`; of `OrderKeys`: `KeysInvariant`, `OneOrderPerKey`, `RepliesAreReal`, `ClaimsAreReleased`, `CompletedIsFinal` |
| `AccountProofs` | `ScreensKeep`, `MfaSaidAndShown`, `NobodyStranded`, `NothingTypedIsLost` |
| `CatalogueProofs` | `CatalogueIsSound`, `OwnWritesAreServed`, `AnnouncedPricesAreShown` |
| `NotificationsProofs` | `NotificationsAreSound`, `MailsAreFew`, `MailedOnce`, `DoneWasMailed`, `RowIsAnnouncedOnce` |

The assumptions say what the code validates or configures: quantities are
positive and stock is not negative, no product occurs twice in an order, windows
end after they start, a thread runs on one task, the page's orders start in a state
the service can have written, bounds are numbers, `None` is not a value.

The arguments:

* **InventoryInv.** `DecisionConsistent` is not inductive: a commit must know that
  no other decision of the order slipped in (the inbox key), that its ledger
  rows did not exist, and that the stock it takes is still there. `ConsumerInv` ties
  message and transaction to the program counter, `LockInv` says that row locks
  exclude each other and that locked rows hold what was decremented (so that stock
  never goes below zero without the CHECK constraint), `ReleaseInv` that at most one
  transaction holds an order's ledger rows for release, `RelayInv` that relayed
  rows are durable, `HandledInv` that a handler about to acknowledge has nothing
  left to do. `ImplementsPromise` maps each commit to a step of `Reservation` and
  everything else to a stutter.
* **Counting units.** `HeldForOrders(p)` is the size of the set of units that the
  reserved ledger rows of `p` stand for, so no induction over orders is needed: one
  step makes one order a holder or releases one, and adds or removes its block of
  units (`CountedInv`: that set is finite, however many orders there are). `Balance(p)`
  is what is on the shelf and held, less what operators stated. `InventoryInv` tells
  which lines a commit decremented, and from that `BalanceStep` shows that a step
  changes the balance only by the commit of a rejection, downwards, by a line that was
  not the short one. `NothingOversold` follows; with one line per order there is no
  such line, and `AllStockAccounted` and `SingleLinesAllOrNothing` follow.
  `OnlyRejectionLosesUnits` is the same fact for orders of any length: the one
  way in which a unit is lost.
* **OrdersInv.** The status is truthful because an order leaves PENDING only by an
  announced outcome (`OutcomeInv`), announcements are of what is committed
  (`StockInv`), only committed rows are sent (`RelayInv`), and deliveries are of
  announcements (`DeliveryInv`). Dispatch and cancellation exclude each other
  through the conditions of their two transactions.
* **KeysInv.** `ClaimInv`, under `Exclusive`: one request at work owns the record,
  and all that exists is of the record's body. `OwnedInv`, under `Tidy`: an
  unfinished claim has a request at work. The ghost `struck` only grows, so each
  condition, once false, stays so and the invariant need not say more.
* **PromotionsInv.** Until `clobbered`, revisions grow with every write, so a
  candidate whose revision still matches was read from the very row it is about
  to move (`CandidateInv`), and a row about to be written was right for the row it
  was computed from (`RequestInv`). Both are stable under the clock because a due
  move stays due.
* **OrderPages.** `HistInv`: the view, every push on its way and every answer's rows
  were in the table at some time (`Reached`, which is transitive and survives every
  legal change); a push of one field may mix with another field of a later row,
  and is still reached because the fields move independently up to `Legal`.
  `TrustInv`: for a trusted order with no push on its way, view and answers agree
  with the table, and with pushes on their way the newest of each field leads
  there. `ButtonInv` counts the requests of the slot; `StreamInv` is the hook's.
* **Checkout.** `AttemptsInv` (an attempt that is to be sent was covered),
  `VisitInv` (a page's flag is on exactly when its one attempt is in flight),
  `ConfirmInv` (who is confirmed is placed and the cart is empty).
* **Account.** None of the four properties is inductive: each depends on what the
  handlers under way have seen and on which screen they were started. `PlaceInv` says
  that a handler not marked `left` is on its own screen, and that nothing goes on
  while the session is first read; `BusyInv`, that a button is off exactly while one
  handler holds it, and only one does; `SessionInv`, that a handler about to sign a
  customer in saw a session that is there or was cut; `SetupInv`, that without an
  overlap there is one set-up, and none once a secret is shown; `MfaInv`, that every
  copy of the TOTP preference (screen, or answer on its way) agrees with Cognito or
  has its excuse on record; `SignInv`, that a sign-in that is alone keeps storage
  cleared between its two attempts; `EditInv`, that nothing else goes on while
  the profile is loading. Most handlers touch one or two of these: the lemmas sort the steps into
  those that keep the screen (`Stay`) or mount another (`Remount`), and into those
  that say nothing new of TOTP (`NoNews`, `Plain`) and the few that do, so that a
  screen with nothing special is one short case.
  `NobodyStranded` and `NothingTypedIsLost` read the step off the same invariant.
* **Catalogue.** `ShapeInv` types requests and caches; `AheadInv` bounds every copy
  by the table from above and, unless it is `late`, by the task's own writes from
  below; `SavingInv` counts saves; `PromiseInv` says where the next refetch of a
  page that shows too little is: on its way, in a request that will serve enough,
  or excused.
* **Notifications.** `HoldInv` (who runs has written the record) makes runs of one
  message exclude each other, `CreditInv` says where the one mail that is not
  lost is accounted for, `DoneInv` that "completed" and "done" stand for a mail;
  `CountInv` counts announcements against the publishers that hold the row.

Every invariant and every safety property that a run checks is a theorem. Checked by
TLC only are the liveness properties, because fairness and ENABLED are beyond the
prover: `CommandSettled`, `CancellationReleases`, `RowsAnnounced`, `NothingStranded`,
`RefreshFollows`, `Recovers`, `ButtonsReturn` and `Mailed`. No module uses a
RECURSIVE operator.

## 7. Findings

* **Cancellations never release stock** (`inventory_no_release`): the wrapper
  `ResilientStock` has no `release_reservation`; the order stays CANCEL_PENDING.

### Disagreements met while modelling, not run

Each of these is a definition of its module. Put alone into a `.cfg` with the
constants of the module's run, or those named here, TLC finds it violated.

* **A rejected order keeps stock** (`Inventory`, `RejectionTakesNothing`).
  `services.py:3-5` says all or nothing; `process_order` (130, 164) commits the
  decrements of the lines before the short one. `OnlyRejectionLosesUnits` proves that
  units get lost in no other way, `SingleLinesAllOrNothing` that orders of one line
  are as the comment says.
* **One database error ends the outbox thread** (`Inventory`, `RowsAnnounced`, with
  the constants of `inventory_live` and `MaxFaults = 2`; `Notifications`, `RelaysRetry`).
  `consumer.py:110-112` relies on the thread, which "retries it independently"; the error
  of its select (`events.py:91`, outside the `try`) leaves `run_forever` (`events.py:127`). With
  one task, as deployed by default, one such error is enough for a customer to get no
  mail until a command comes or the task is replaced.
* **A duplicate can go on without a claim** (`OrderKeys`, `OneOrder`, with three
  requests, `Body <- Same`, `Faults = {"pricing"}`, `MaxFaults = 1`).
  `idempotency.py:14-16` says exactly one of two duplicates wins; lines 93-97 return
  None to a loser whose read finds the record released. The third request claims it.
* **A promotion's revision can go back** (`Promotions`, `RevisionGrows`): the update
  writes the revision of the row it read, plus one, over whatever the row has become
  (`services.py:328`, `342`); the push handler (`ws-push-lambda/handler.py:28`)
  passes it on as monotonic.
* **A resubmitted order is a second order** (`Checkout`, `RetryIsOneOrder`).
  `PlaceOrderPage.tsx:198` tells the customer the key prevents double charges on
  retries; every submission makes a fresh key.
* **The profile's MFA status can drift** (`Account`, `MfaNeverDrifts`).
  `mfa-service.ts:12-14` says it cannot; a lost answer, and a handler of a screen
  that was left, change the preference behind it.
* **An administrator may not see the own write** (`Catalogue`, `AdminSeesWrite`).
  `cache.py:13` says they always do; the reload goes to any task, and may be served
  from its cache.

Smaller ones, by reading: the hook's comment (`useOrderStatusStream.ts:22-25`) promises
reconnection, which after the token's expiry never succeeds; `MyOrdersPage.tsx:147`
reports a failed cancellation as "Failed to load orders" and replaces the list by it;
`pipes.tf:16-18` says every update of an order is a status change, and fulfilment
writes are updates too; `MfaSetupPage.tsx:11-14` serves a challenge of the
sign-in as well, at which nobody is signed in yet for `setUpTOTP`, and whose answer
would be `confirmSignIn`; the notification handler (9-11) says a redelivery is not mailed twice, which
holds of a message id, but a row that two threads announce has two, a completion
that was not recorded is repeated, and the bus path keeps no record.

`order_keys` shows limits as faults that `Exclusive` and `Tidy` exclude:
a transaction whose reply is lost releases the key, and the retry orders again; a
failing `complete`, `release` or a crash leaves a claim that refuses retries until
the TTL.

## 8. Abstractions and what is not modelled

* Inventory: a poll's batch of ten is received message by message, so the loss of a
  receive by a batch that an exception ends (`consumer.py:130`) is not shown, nor an
  outage that burns the three receives of every command (`messaging.tf:18`). The
  UPDATEs of `release_reservation` and its commit are one step. `publish_once` sees
  all pending rows (its limit is 25). An open circuit breaker is a `DatabaseFault`;
  its own states are left out. A product without a row is one with quantity 0, as
  the readers treat it.
* Orders: the order number, the read models and the inline publisher used without
  AWS are left out. A retry of the stream Lambda is one `RelayFails`, whichever of
  its causes; `Shards` bounds the records in its hands at once. Message retention
  is not modelled.
* Keys: one key; `"failed"` stands for 500, 503 and the 422 of an unavailable
  product; eventually consistent reads are the fault `stale_read`; a record expires
  only when no request is at work (the TTL is a day, a request seconds).
* Promotions: discount, scope and name decide nothing here. The update's read and
  the index are taken as consistent; a lagging index shows itself as a sweep that
  started earlier. `seen` stands for what a refetch finds at the announcement.
* Notifications: one row, since rows do not meet; an invocation holds one record, as
  SNS sends them; the text of a mail is left out, and the sandbox fallback's
  second send is part of `Send`.
* OrderPages: one visit; search, sorting and layout are left out; the registry of
  connections is what it does for this visit. What expires is the token; a rotated
  one never reaches a mounted page. Two overlapping reloads of the desk
  (`AdminFulfilmentPage.tsx:98`) are two requests like any others.
* Checkout: the availability of each product is none, one or enough; prices and
  addresses are left out. The Order Service is the promise of `OrderKeys` for a key
  that is used once.
* Account: Cognito and Amplify are external, from how the code calls them: `signOut`
  clears the tokens whether or not its request fails. Answers are lost only where a
  commit matters. One tab, one account; no administrator's account is in the
  instance, though the routes have one. The guard of the CI account, the Hosted UI
  fallback, parsing of the runtime configuration, wording and token expiry are left
  out. The redirects' timers of verification and reset (lines 44 and 47) are calls
  that are waiting.
* Catalogue: a promotion's price is computed at serving and not cached, so it is not
  here; the product's own price marker and version are left out (after a deletion and
  re-creation the version starts again, which `services.py:205-208` excludes and
  which no consumer notices), as are the form's texts, filters and the customer's
  error screen. A failed first load of `AdminProductsPage` leaves its spinner for
  ever; the reload of the whole page is not shown.
* Not modelled: `AdminStockPage`, `AdminPromotionsPage`, `AdminUsersPage` (one
  administrator's form over a list that is reloaded after every write; their one
  hazard, a level written from a stale draft, is `AdjustRead` and `AdjustWrite`);
  the Reconciliation Lambda (a report that changes nothing); the User Service (one
  writer per user); price arithmetic (no state; its tests enumerate the roundings);
  migrations (one task before the services start); PDF rendering, scripts, load
  tests, dashboards, workflows, token checks, logging, and Terraform beyond the
  queue, stream and pipe settings: no state of the system, or a provider's behaviour.

## 9. Plan

Done: `Inventory`, `Reservation`; `Orders`, `OrderLifecycle`; `OrderKeys`;
`Promotions`; `OrderStream`, `OrderPages`; `Checkout`; `Session`, `Account`;
`Catalogue`; `Notifications`; proofs of every safety property the runs check.

What remains, in order of worth:

1. `Breaker`: closed, open, half-open around `ResilientStock`, an outage that burns
   receives. Does an outage dead-letter healthy orders?
2. `Checkout` composed with `OrderKeys`: the attempt's key as a request of `OrderKeys`,
   for which `OrderingProofs` already has both modules side by side.
3. `Catalogue` composed with `Promotions`: the promoted price as served.
4. `Migration`: the deployment task against a blank, a legacy and a migrated
   database, two tasks at once.
5. Theorems about the disagreements of section 7: under which condition each promise
   that does not hold in general does (as `SingleLinesAllOrNothing` does for one).
