# TLA+ verification of the e-commerce services

This directory models the services of this repository in TLA+, model-checks
the models with TLC on small instances and proves their main invariants with
TLAPS for every value of the constants. Paths below are relative to the
repository; `PROJECT.json` maps every definition to the lines it models.

## 1. Inventory of the system

Five Node.js services share one PostgreSQL database (Prisma), a RabbitMQ broker
and a Redis cache.

| component | code | state | operations | talks to |
|---|---|---|---|---|
| API gateway | `src/services/api-gateway` | JWT and OAuth state in memory, users in the database, a 5 s service-discovery cache | auth, products/categories by RPC with retry, orders by HTTP proxy | catalog (RPC), order (HTTP), Consul |
| product catalog | `src/services/product-catalog` | products, categories; Redis cache with a 300 s TTL | CRUD, read-through caching, invalidation | Redis, database |
| order | `src/services/order` | `Order.status`, `Order.paymentStatus` | create, cancel | inventory (RPC), Stripe, `orders.exchange` |
| inventory | `src/services/inventory` | `Inventory.quantity`, `reservedQuantity` per product | reserve, release, confirm, PUT quantity | database |
| notification | `src/services/notification` | the handlers at work, its channel; BullMQ jobs | consume order events and mail, ack or nack, Socket.IO, reports | RabbitMQ, SMTP, Redis |
| RPC library | `src/shared/messaging/rabbitmq.client.ts` | `pendingRPCs`, timers, channel, reply queue | connect, rpcCall, setupRPCServer, publish, consume | broker |

**What is hard in it.** Every service is single-threaded, but every `await`
lets another request run, several replicas may run at once, and nothing is
wrapped in a database transaction or a lock:

* *check, then act*: `reserveStock` reads availability, awaits, then increments;
  `cancel` reads the order's status, awaits an RPC, then writes it.
* *compensation instead of transactions*: a reservation that fails half way is
  rolled back item by item; `create` releases stock in two places.
* *at-least-once execution, at-most-once answer*: requests are persistent and
  acked after the reply; they carry no expiration, so a call whose caller has
  timed out is executed all the same, and a server that dies executes it again.
* *crashes between steps* of an order that no journal resumes.
* *stale copies*: the catalog's Redis cache, filled an await after the read; the
  gateway's discovery cache, whose lookups overtake each other.
* *retries of what may have been done*: the gateway repeats an RPC that timed out or
  was refused, and the broker redelivers an event whose connection broke.
* *several workers*: the gateway's processes start at the same time on one
  database, and keep what they do not store in it to themselves.

What makes each component correct, and where it is stated:

| component | property | definition |
|---|---|---|
| inventory | a granted reservation is whole, a refused one leaves nothing (of one that ends in an error it says nothing: see below) | `AllOrNothing` |
| | a successful release or confirm takes back the whole reservation | `SettledInFull` |
| | `reservedQuantity` is what unsettled reservations hold | `Accounting` |
| | only a check that is out of date, or a PUT, oversells | `OversellOnlyWhenStale`, `OvercommitBound` |
| | every handler returns | `EveryCallReturns` |
| RPC | map, timers and promises agree | `NothingLeaks` |
| | an answer reaches its own call only | `OwnAnswer` |
| | settled at most once, resolved only if executed | `ImplementsContract` |
| | every call is settled | `EveryCallSettles` |
| order | confirmed means paid | `ConfirmedIsPaid` |
| | no order or charge without a granted reservation | `NoOrderWithoutStock` |
| | an error answer never hides a confirmed order | `FailureIsNotConfirmed` |
| | stock follows the outcome of an order that nothing failed for, and adds up until a reservation is settled or a call executed twice | `StockFollowsOutcome`, `StockIsAccountedFor` |
| | a reservation that is delivered again withholds stock, and never gives it away | `RedeliveryOnlyWithholds` |
| | every request is answered | `EveryRequestAnswered` |
| catalog | an outdated entry is about to be invalidated, was missed by an invalidation, or shows an inventory or category that was written since | `StaleOnlyIfLapsed` |
| | an outdated entry does not stay | `StalenessEnds` |
| accounts | what a client was told it has registered stands | `RegistrationStands` |
| | an accepted password logs in, a default user's from the first request on | `LoginHonoured` |
| | a refresh token lives as long as it says | `RefreshHonoured` |
| | a Google state lets one callback through | `StateUsedOnce` |
| | every worker comes to serve | `EveryWorkerServes` |
| gateway retry | a 200 or 201 is an effect; a 500 hides one only after a timeout or a double execution | `OkTookEffect`, `FailureIsTruthful` |
| | repeated executions leave no second copy | `NoTwins` |
| | a second row, in place of one that was deleted or changed meanwhile, is made only by a late create | `MadeTwiceOnlyIfLate` |
| | only a late write overwrites a newer one | `OldWritesOnlyIfLate` |
| | a request is answered once, as one RPC would be | `EveryRequestAnswered`, `RetryIsAnRpc` |
| order proxy, discovery | how old an address can be | `TargetsAreRecent` |
| | a request is handled once, and its answer says what became of it unless the connection broke | `AtMostOnce`, `AnswerIsTruthful` |
| | every request is answered | `EveryRequestAnswered` |
| notification | acknowledged means mailed, dropped means refused | `SettledMeansTried` |
| | no event is forgotten or settled twice | `HandledIffHeld`, `EveryEventSettles` |
| | a second or a late mail has one cause | `DuplicatesNeedRedelivery`, `LateMailsAreOrphans` |

## 2. Modules

```
              RpcContract  <--implements--  RpcClient,  GatewayRetry (its retry, as one call)
             /           \
   Checkout              GatewayRetry            OrderProxy   Notifications
      |
   Inventory             ProductCache            Auth
```

| module | content |
|---|---|
| `Inventory` | the stock table and the handlers on it, one database statement per step |
| `MCInventory` | its instances |
| `Inventory_proofs` | its inductive invariant and theorems |
| `RpcContract` | abstract: what `rpcCall` promises a caller, and what it does not |
| `RpcClient` | detailed: map, timers, broker queues, redelivery, crashes, lost connections |
| `MCRpc`, `RpcClient_proofs` | instances; invariants and refinement proved |
| `Checkout` | the order service's create and cancel, over `RpcContract` and `Inventory` |
| `MCCheckout`, `Checkout_proofs` | its instances; payment, stock and status of an order proved |
| `ProductCache` | the catalog's reads and writes over the product table and Redis |
| `MCCache`, `ProductCache_proofs` | instances; types and `StaleOnlyIfLapsed` proved |
| `Auth` | the gateway's cluster, its default users, and the handlers of `auth.routes.ts` |
| `MCAuth`, `Auth_proofs` | its instance; types and all four safety properties proved |
| `GatewayRetry` | product and category requests: the gateway's `rpcWithRetry` over `RpcContract`, and the catalog's handlers |
| `MCGateway`, `GatewayRetry_proofs` | its instance; types, all safety properties and the refinement proved |
| `OrderProxy` | the order routes: discovery cache, lookups, forwarding, and the lives of the order service's instances |
| `MCProxy`, `OrderProxy_proofs` | its instance; types and all safety properties proved |
| `Notifications` | order events from `publish` to a mail, an ack or a nack, over several processes |
| `MCNotifications`, `Notifications_proofs` | its instance; types and all safety properties proved |

### Inventory

`rows`, `quantity` and `reserved` are the `Inventory` table. A call is one
execution of a handler; `pc`, `items`, `idx`, `undone`, `seen` and `result` are
its local variables (`seen` is `availableStock`, `idx - 1` the length of
`results`, `undone` the progress of the rollback loop). `BeginReserve`,
`BeginRelease` and `BeginConfirm` are the RPC servers and the REST controller,
which run the same method. `ReserveCheck` and `ReserveWrite` are the two
statements of the repository's `reserveStock`; `Rollback`, `ReleaseStep` and
`ConfirmStep` are one turn of their loops; `Finish` is the method's return;
`DbFails` a statement that throws, which the RPC server or the controller
answers with the error's message. `PutQuantity` and `DeleteProduct` are the
table's other writers. `target` and `open` are history variables: the
reservation a release settles and the positions whose increment is still in
the table. A reservation that throws half way is not rolled back (the code's rollback
is for refusals) and leaves its increments for good: `AllOrNothing` excludes it, and
`Accounting` counts what it has entered as held. `BeginRelease` and `BeginConfirm` take granted reservations, once
each: this is what the service expects of its callers. `Checkout` does without
that expectation, because the order service does not live up to it.

### RpcClient and RpcContract

`Calls` are correlation ids. `pending` and `timers` are `pendingRPCs` and its
timeouts, `promise` and `answer` what the caller sees. `RpcCall`, `Timeout`,
`HandleRPCResponse`, `Deliver`, `Reply` and `Ack` are the code of
`rabbitmq.client.ts` and its callbacks. `ServerCrash` is the broker's redelivery
of unacked requests, `ClientCrash` a caller's restart, `ConnectionClosed` the
close event, which the code only logs. After it the channel field is still
set, so the next `rpcCall` sends on a closed channel: amqplib throws, in a promise
nobody awaits (`CallOnClosedChannel`). The code installs no `unhandledRejection` handler,
so Node ends the process and the container is restarted; but Sentry, which the gateway
initialises when `SENTRY_DSN` is set (`sentry.ts:17`), installs one that logs the rejection, and then
the call is left to its timer. The action has both outcomes. The other services, whose
acks can be rejected in the same way, do not initialise Sentry.

`RpcContract` is what a caller may rely on: settled at most once, resolved only
after an execution; unsettled and rejected calls may have been executed, or be
executed later, or more than once. `RpcClient` implements it (checked and
proved); `Checkout` and `GatewayRetry` use the contract in its place.

### Checkout

`at` is where each create and cancel stands; `status` and `payment` are the
order's columns. Each await of `create` and `cancel` is a step of its own. An RPC is
made with `Rpc!Make`, executed by `Inv!Begin` and `Inv!Handle`, and answered by
`Granted` or `Denied`, the latter also on a timeout, as `MessagingService`
turns a rejected RPC into `{success: false}`. `Pay` is Stripe: it may take the
money and fail all the same, since `processPayment` turns every exception
into a failure. `StockCrash` puts the requests in progress back into the queue, to be
executed again from the first item; `OrderCrash` forgets all requests.

### ProductCache

`rows`, `version`, `category` and `joined` are what a query can see: which products exist,
how often their own columns were written, the category each refers to, and how often a row that
`findAll` and `findById` read along with a product, its inventory or its category, has been
written since. `cache` is Redis; a key is a product's or a list query's. A read is `Get`,
`Query`, `Fill`; a write of a product is
its statement (`Create`, `Update`, `Delete`), `DropOwn` and the two Redis calls
of `deletePattern`, `ListKeys` and `DropLists`. `StockChanges` and `CategoryChanges` write
joined rows, and nothing is invalidated: the cache is not told of them. A category with
products cannot be deleted (the foreign key refuses), so what changes a cached category is a PUT,
or the DELETE of its parent, which clears `parentId`. With `Faults`, every Redis call
may throw, which `CacheService` swallows, and the process may die between two
steps.

`lapsed` and `overtaken` are history variables: the entries that were filled with what
had been read before a write of a product, or whose invalidation failed or was never made; and
those that show a joined row as it was before a write of it. `StaleOnlyIfLapsed` says that an
entry that differs from the database is still owed an invalidation, is in `lapsed`, or is in
`overtaken` and shows its products themselves as they are: although KEYS and DEL are two calls
and writes overlap, an invalidation that is made and does not fail misses no entry but those
filled behind its back.

### Auth

`password` is the `users` table (whose password an account has, or that it has
none), `tokens` the expiry of each row of `refresh_tokens`; `now` is one clock for
database and workers. `phase` and `seed` are how far a worker's `start` has come:
`FindDefault` and `CreateDefault` are the two statements of `ensureUser`,
`Listen` is the rest of `start`, `Exit` the end of the process for any reason and
`Fork` what the primary does about it. A worker that finds a default user
created between its two statements exits as well (`email` is unique), without any
failure. `states` is a worker's `oauthStateStore`, lost when it exits.

`req`, `at` and `answer` are a request, the await its handler stands at, and its
reply. `Register`, `Create`, `Store` are the statements of POST /register;
`Login`, `Verify`, `Purge`, `Store` those of /login; `Refresh` (the token's own
expiry), `Lookup`, `FindUser` those of /refresh; `Google`, `Callback`,
`Exchange` (both calls of Google), `Upsert`, `Store` a Google login. `Throws` is any
of them failing, which every handler or the error handler turns into a
500. Names and roles are left out, and so are access
tokens, which are stateless. The `isActive` checks are left out because no code
ever sets it to false. Hashing a password waits, but reads and writes nothing
shared: it is part of the statement before or after it. A row's `expiresAt` is
computed when its statement is sent, some time between signing and storing.
`Asks` gives a request what its client can know: a password that was accepted
(and may be used on any worker), a wrong one, a granted token, a drawn state.
Request 1 may have been a registration of a time before, so that a token can be
about to expire when the clock starts.

### GatewayRetry

A request of a product or category route is put to the catalog by up to
`Retries + 1` calls, each an RPC of `RpcContract`. `at`, `tries` and `answer` are
the route and the loop of `rpcWithRetry`: `Request` (validation and the first call),
`Resolved`, `Refused` (an error reply, which `handleRPCResponse` turns into a
rejection like any other), `TimesOut`, `Retry` a second later. `message` and `replies` are what the broker
holds for a call; a reply to a call that is no longer pending is dropped.
`Execute` is one delivery to a handler of the catalog: its statement, which may throw, find no
row or meet a taken unique key, then invalidation and publication, which swallow
their errors, then the reply and the ack. `ExecuteAndCrash` is the same with the
connection gone before the ack, so that the message is delivered again. `rows` is the table:
each row has its unique key, the request that made it and the one that wrote it
last. A create draws its id anew in every execution (`NewId`). `Once` is the refinement mapping: a
request, retries included, is one call of `RpcContract`, executed as often as all of
its calls together. `ProductCache` has what a catalog write does to the cache.

### OrderProxy

`cache` is `discoveryCache` for the one service name, `asked`, `found` and `target` the local
variables of `resolveBaseUrl`: `CacheHit`, `Lookup` (the expiry is taken here, before the await),
`ConsulAnswers`, `Discovered` (the answer is cached whatever is there meanwhile), `LookupFails`.
A miss or an empty list leads to the static URL (`Fallback`, the instance `Static`).
`http` is the connection the request is forwarded over, `work` and `served` what becomes of the
request at its instance: accepted (`Serve`), answered
(`Respond`; every status but 2xx becomes a 500), refused (`ConnectionRefused`), or cut off,
because the instance dies (`Die`) or the connection breaks with both ends alive (`Break`). In the
latter case the gateway answers "Service unavailable" (`ConnectionLost`) and the
instance may begin the request afterwards, or goes on with it to its end (`Complete`).
`AnswerIsTruthful` is what an answer is worth: an answer of the order service means that it has
come to its end, and "unavailable" that nothing was or will be begun, unless the
connection was cut; then the client cannot know. What a handler that died has left in the
queues of the inventory service is executed all the same: `Checkout` has that (`OrderCrash`),
`OrderProxy` calls the request lost.
`up`, `consul` and `lastListed` are the instances and what Consul knows of them:
`Start`, `HealthCheck` (with the deregistration of critical services),
`Deregister` and `Die` are `start` and `shutdown` of `order/server.ts` and the helpers
of `consul.ts`. Only instances with `CONSUL_HTTP_ADDR` register.

### Notifications

`where` is an event's place: a queue, a process it is delivered to, or settled. `mode`,
`chan`, `stage` and `handler` are a process of the notification service: `Start` and
`Boot` are `connect`, `setupQueues` and `startConsumers`, one bind or consumer per step,
`BootFails` the exit of a start that throws. `Deliver`, `Accept`, `MailFails`, `Ack`
and `Nack` are `consume` and a handler with its mail. `Break` is a connection the broker has
given up and the process has not, `Notice` the close event, which is only logged;
`Shutdown` is SIGTERM, whose `disconnect` closes the channel while handlers run,
`Left` its `process.exit`. A handler that is done on a closed channel ends the process (`Done`): `ack`
throws, the catch's `nack` throws as well, and nobody handles the rejection.
`takenBack` and `refused` are history variables.

## 3. Abstractions

* A database statement is atomic and a statement that throws had no effect. A
  statement that commits and then reports failure is not modelled.
* The broker does not lose persistent requests or queued events. `Checkout` follows
  published events no further than `events`; `Notifications` takes them from there.
  Nobody consumes product events.
* Products and categories are one table, and a row's unique columns one key; the
  catalog's own REST routes run the same statements without a retry.
* What an instance does with a forwarded request is `Checkout`'s subject; in
  `OrderProxy` it is not begun, being done, done, or lost with its process.
* How often a joined row was written is counted per product: a write of a category counts for
  each of its products, and a query reads a product and its joined rows in one step.
* In `Inventory` and `Checkout` the return of a handler, its reply and its ack
  are one step; `RpcClient` splits them, and shows with `runs` that a crash in
  between executes the call again.
* A call or request happens once: what a client repeats is a new request. The gateway's own retries are modelled.
* Order rows are read as written: `cancel` releases the items in the order of
  the order. Another user's order is a 404 and changes nothing; left out.
* A list is read in one step: `findMany` and `count` are not told apart, and
  every query sees every product.
* Requests of `Auth` are numbered in the order in which they arrive.
* Prices, totals, addresses, users, log lines and error texts are left out.

## 4. Runs

| run | what it asks | instance | distinct states |
|---|---|---|---|
| `inventory` | all safety properties together | 3 calls, 2 products, 3 item lists (overlapping, reversed, a product twice), failing statements, PUTs, deletions | 652,000 |
| `inventory_race` | how far a race can oversell; does every handler return | 3 calls at once, 1 product, failing statements, deletion | 187,000 |
| `rpc` | safety, refinement, is every call settled | 2 calls of one process, 2 failures | 184,000 |
| `cache` | what can be stale, and for how long | 2 reads, 2 writes, 1 product, 1 list, 2 categories, 1 write of a joined row, every fault | 541,000 |
| `checkout_faults` | payment, stock and status, the stock of a repeated reservation; is every request answered | 1 create, 1 cancel, every fault, 1 crash | 247,000 |
| `checkout_stock` | where the stock ends | 2 creates contending for 2 products, every fault short of a crash | 281,000 |
| `gateway` | is an answer true, what do retries and double executions leave | 2 requests of any kind, each retried once, 1 row, 2 keys, 1 crash of either side | 791,000 |
| `proxy` | how old is an address, is a request handled once and answered, is the answer true | 2 requests, an instance that registers and the static one, `TTL` and lookup timeout of 2, 4 instants, 2 deaths or broken connections | 1,009,000 |
| `notifications` | is an event settled untried or mailed twice, does it settle | 1 event of each kind, 2 processes, 2 faults | 553,000 |
| `auth` | do accounts, passwords, tokens and states hold; do workers serve | 2 workers, 2 requests of any kind beside one that is finished or has not been made, 1 default user and 1 other address, 1 failure, 2 instants | 1,371,000 |

**Why the bounds are enough.** Every property of `Inventory` relates at most two
handlers and one product; a third handler and a second product let the rollback
of one run across the work of two others. `OvercommitBound` is tight at three
concurrent handlers: TLC finds a violation when the bound is one unit smaller.
`RpcClient`'s calls interact only through the reply queue and the crash of their
process: two calls of one process show both. `ProductCache` needs
two writes that overlap each other's invalidation and two reads, one of them late;
one category may have products while another is written, and one write of a joined row (`MaxJoined`)
is enough to overtake an entry that is then read, filled or dropped. With two products, two
categories, two writes and one read it was checked as well, and with one write and two
reads (0.8 and 1.0 million states). `Checkout` needs
two creates to contend for stock and one of each kind for
a cancel that overtakes its create; a reservation is entered twice only where there is stock for
two, hence `Stock = {1, 2}` in `checkout_faults`. `RedeliveryOnlyWithholds` was also checked with
an order of two lines and two crashes, and is violated, as it should be, when it is
made an equation or when the settling calls may be repeated. `Auth` needs two workers for the race of their
starts and for states that are not shared, two requests for a race, and one before them that
made the account or the token they are about. A refresh token and its row live one
instant, so that both the last instant of a token and the first after it occur; a state
lives shorter than one (`StateLife = 0`): it is good now and not later. `GatewayRetry` needs two requests for an old write that meets a newer one, one
retry each as in the code, and two keys for a row that moves out of the way of a repeated
create; one crash makes one double execution or loses one gateway. `OrderProxy` needs two lookups
that overtake each other and a clock that passes a cache's whole life after a lookup of full length, and two failures
for a connection that breaks before its instance dies. `Notifications` needs two
processes, one that still mails while the other is given the same event, and two faults to leave
both deaf. `MaxFailures`, `MaxCrashes`, `MaxFaults` and
`MaxConcurrent` bound failures and handlers in flight and nothing else.
`gateway`, `proxy` and `notifications` switch off the deadlock check: when
every request is answered, or every event settled, these systems wait for more. Types are proved rather than
checked.

**Fairness.** `Inventory!FairSpec`: the event loop resumes a handler whose
statement has been answered, and a statement is answered or throws.
`RpcClient!FairSpec`: an armed `setTimeout` fires; nothing is assumed of server
or broker. `Checkout!FairSpec`: the order service resumes what it has started,
nothing is assumed of the inventory service; a request need not be made.
`ProductCache!FairSpec`: a key set with `setex` expires; reads and writes may stop
anywhere, and nothing is assumed of the other writers.
`Auth!FairSpec`: a start goes on (its statements are answered or throw, its
connections open or fail) and the primary forks when a worker exits, as
`cluster.on('exit')` does; `MaxFailures` bounds how often a process is ended
from outside. Nothing is assumed of requests.
`GatewayRetry!FairSpec`: the timer of a call and that of a retry fire; nothing is assumed
of the broker or the catalog. `OrderProxy!FairSpec`: a lookup ends at its timeout at
the latest, a connection is accepted or refused, an instance
answers what it accepts as long as the connection holds, and a connection that is cut is
noticed; nothing is assumed of Consul. The code gives the forwarded request no timeout, so that the instance's answer has
to be assumed here. `Notifications!FairSpec`: Docker restarts a process that ends
(`restart: unless-stopped`), a boot goes on, queues are served, SMTP
and the database answer or time out, and heartbeats notice a broken connection.

### Disagreements with the documents

Two runs are expected to be violated, each by what the code does:

| run | the code | the document or comment |
|---|---|---|
| `checkout_release` | a failed payment releases the stock in the else branch and again in the catch block; the second time it is no longer reserved, and `reservedQuantity` drops below what is | the comments of `order.service.ts:76` and `:98`; `docs/api-doc.md:927` |
| `checkout_cancel_lost` | a cancel answered 200 while the payment is being processed is overwritten by CONFIRMED | `docs/api-doc.md:871` |

The same property, `OnlyReservedIsReleased`, also fails in two other ways (set `Cancels = {x1}`,
`Declines = FALSE` in `CheckoutRelease.cfg`): the cancel of a CONFIRMED order releases what
confirmation has already taken out of stock, and a cancel releases beside a failing payment or another cancel.
Because of these, `StockFollowsOutcome` speaks of orders nobody has cancelled, and
`StockIsAccountedFor` of behaviours in which no reservation has been settled by two calls
(`SettledOnce`) and none has been executed a second time: with a double release
or the release of a confirmed order the accounting fails as shown, and
apart from them it holds, timeouts, failing statements and cancels included. Of what
the inventory service executes again after a crash, `RedeliveryOnlyWithholds` says which way the
table is then wrong: a repeated reservation leaves `reservedQuantity` too large, so
that stock is withheld for good, while a repeated release or confirm, which
the property leaves out, makes it too small and can sell what is reserved.

What else the models say differently from the documents, without a run of its own:

| the code | the document |
|---|---|
| a closed connection is only logged: a process that merely consumes stays deaf (`Deaf` in `Notifications`, `ConnectionClosed` in `RpcClient`) | "Automatic reconnection", `docs/rabbitmq-architecture.md:119` |
| a rejected event is dropped: no requeue, no retry, no dead-letter queue (`Nack`) | three retries and a dead-letter queue, `docs/architecture.md:136`, `docs/rabbitmq-architecture.md:68`; a dead-letter queue, `docs/performance-security.md:376` |
| nothing invalidates a cached product when its stock changes (`StockChanges`; only expiry ends it) | `docs/architecture.md:131` |
| nor when its category does (`CategoryChanges`) | keys are deleted "on write operations", `docs/performance-security.md:364` |
| every request that misses asks Consul, and an empty answer is a miss (`Lookup`) | at most once per 5 seconds and name, `docs/performance-security.md:393` |
| an instance that has died is still forwarded to until its entry expires (`TargetsAreRecent` bounds how long) | `docs/monitoring.md:761` |
| of two concurrent registrations of one address the loser is answered 500 (`Create` in `Auth`) | 409, `docs/api-doc.md:297` |

What no document settles, and the models show:

* A registration whose token cannot be stored is answered 500 although the account
  exists; a Google login whose callback reaches another worker of the cluster is a 400.
  `RefreshHonoured` rests on `TokenLife <= RowLife`, which holds for the default of
  `JWT_REFRESH_EXPIRY`, seven days as in the code that stores the row, but not for
  longer ones.
* A create that is executed twice leaves one row, thanks to the unique columns alone, but its client may be told
  500 by the second execution; a retried delete reports failure for what it did.
* A create that is executed again after its product was deleted, or has been given other unique
  columns, makes it a second time under a new id. `MadeTwiceOnlyIfLate` says when: not unless an attempt
  timed out or a message was executed twice.
* A client told "Service unavailable" for an order may find that it was made, when the connection
  between gateway and order service broke (`AnswerIsTruthful`); nothing identifies the order
  if the client tries again.
* A reservation that throws half way leaves its increments in `reservedQuantity` for good.
* The order service's 404 and 400 reach the client as a 500, and a forwarded
  request waits for as long as the order service does.
* An instance that Consul has forgotten does not register again
  (`consul.ts:37`). `docker-compose.yml` sets `CONSUL_HOST`, the code reads
  `CONSUL_HTTP_ADDR`: there, every request goes to the static URL.
* A mail that was accepted and then reported as failed is dropped as unsent (`MailFails`).

Every property of a passing run has a mutant: a plausible slip in a modelled
definition (operators commented "Mutant") under which TLC must find that
property violated in the same instance.

## 5. Proofs

`Inventory_proofs`, for every set of products, finite set of calls, item lists
and faults:

* `TypeCorrect`, `ReserveIsAllOrNothing`, `SettlingIsComplete`, `AccountsBalance`
  and `OversellNeedsStaleness` (an action property).
* `OversellingIsBounded`, for `OvercommitBound`, as long as nobody PUTs a quantity. The bound itself is not
  inductive: it says nothing of the handlers that have passed a check and not yet
  written. `Restrained` counts them in: for any set of `Claims` (writes that an
  availability has been read for), what is reserved and claimed exceeds the quantity by
  no more than the largest line times the handlers in flight but one. A claim is
  checked against the counter, so that the newest claim pays for itself
  (`NewClaim`), the others are those of the handlers beside it; a write turns a claim into a
  reservation (`ClaimWritten`), and everything else lowers the sum or leaves it.
* The properties are not inductive: whether a rollback leaves nothing behind
  depends on where its loop stands. The inductive invariant adds, for every
  position of the loops, which increments are in the table: `Growing` (a reservation
  in progress holds 1..idx-1), `Shrinking` (a rollback holds undone+1..idx-1),
  `Settling` (a release holds idx.. of its reservation) with `OneSettler` (no
  two calls settle one reservation), `OpenOwned`, `Checked` (the availability
  a writer has read is enough) and `Phases`.
* `Accounting` compares a counter with the cardinality of a set of units. The
  lemmas on `Units` say that opening a position adds exactly its quantity and
  closing one subtracts it, for the library's `Cardinality`; the counters' steps
  then follow.

`RpcClient_proofs`, for any number of calls, processes and failures:
`TypeCorrect`, `NeverLeaks`, `AnswersMatch` and `Refinement` (`RpcClient`
implements `RpcContract`). Beside the properties themselves the invariant has
`RepliesAreComputed` (a queued reply was produced by an execution of its call),
`RequestsWereMade` and `AnswersWereRun`, without which a duplicate or late
reply could not be told from an invented one.

`ProductCache_proofs`, for every set of products, queries, reads and writes:
`TypeCorrect` and `StalenessIsExplained`. The property is not inductive as it stands: an entry
in `lapsed` may be overtaken as well. The invariant splits it: `Missed` says that an
entry whose products are not as they are in the table is owed or lapsed, `Uptodate` that one
which is not overtaken agrees with the joined rows of the products it shows; `Underway` gives reads their keys and writes
their product. The argument for `Missed` turns on `Owes`: a statement makes stale
exactly what its write owes from then on (a created product had no entry that was not stale
already), and each invalidation pays for the keys it takes off the list. For `Uptodate`,
`OvertakeStep` covers both writers of joined rows, and `SameJoined` every step that leaves
the rows alone.

`Auth_proofs`, for any number of workers, requests, addresses, default users,
failures and any lifetimes: `TypeCorrect`, `RegistrationsStand`,
`LoginsAreHonoured`, `RefreshesAreHonoured` and `StatesAreUsedOnce`. The invariant is local: `Booted` says which
default users a worker's start has seen to, and `Shape`, `Signed`, `Owned`, `Kept`,
`Refreshes` and `LogsIn` say of one request where it can stand and what it may
rely on. Every step is `Steady` (no account disappears or changes its
password, no answer is taken back, no clock goes back), and a steady step keeps
the invariant of every request it does not serve (`OthersStay`), so each
handler is proved for its own request only. `LoginHonoured` needs `AllSeeded` of
every request under way: the worker that took it had seen to all default users, and
an account, once there, stays. `RefreshHonoured` needs `Kept` and `Signed`: a row
outlives its token, and a purge deletes what had expired when its login was signed.
`StateUsedOnce` has an invariant of its own on top, `Once`: a state is drawn once, it
is with one worker at a time, and with none once it has let somebody through.

`Checkout_proofs`, for any orders, cancels and products, every fault and any number of crashes:

* `ConfirmedArePaid`, `OrdersHaveStock` and `FailuresConfirmNothing`. The invariant
  says for each position of a create what has happened by then: `Placed` (past the
  reservation, it was granted), `Paid` (how far the payment is) and `Told` (who is
  answered an error was never CONFIRMED), and `Found` says that a cancel past
  its checks is about an order that exists, without which CANCELLED could be written where
  there is no row. Of the stock the argument needs one fact, `StockKeeps`: a
  granted reservation has returned, and what has returned is not worked on again, not
  even after a crash of the inventory service. So a create's steps keep the claims of other
  orders (`CreateFrame`), and a cancel's step can only move a status to CANCELLED.
* `TypeCorrect`. `TypeOK` is not inductive: after a crash a handler starts over with part of
  its work done, so that its loop stays within its list (`Within`), and adds up to no
  more than the table can hold, only because of what it is a call for (`OrderTypes`).
* `ContractIsKept`. `Checkout` does not keep the
  expectation that `Inventory` states of its callers (settle a granted reservation, and once);
  the proof shows that it does as long as `SettledOnce` holds and nothing has crashed
  (`Orderly`). `Known` is what makes it so: `Bound` (a settling call is for the
  reservation of its order), `Earned` (only a granted reservation is settled), `Heard` (what
  a create was told is what the call returned), `Phase` and `Made` (which RPCs have been made at
  which position). Then every step is one of Inventory's or leaves the stock alone.
* `StockAccounted` and `RedeliveryWithholds`, from one invariant, `Withheld`, that outlives crashes,
  where Inventory's own (`Progress`, which ties what a call holds to its loop variable)
  does not: a handler that starts over finds positions entered by its first execution.
  `Holding` says that a reservation holds *at least* what its present
  execution has been through, and no more while it is the first; `Taking` that what a
  settling call has yet to take back is still there, for which `Sparing` is needed (no
  reservation is settled by two calls, no settling is repeated). From them `Balance`
  follows step by step: an entry adds to `reservedQuantity` what it adds to the places held,
  or more if the place was held already, and whatever is subtracted was held (`CoveredEnter`,
  `CoveredClose`, `TableEffect` of `Inventory_proofs`, cited through an INSTANCE of it).
* `StockFollows`: `Reserving` (a create that still waits has at most its own reservation
  in the table), `Giving` (an error answer is on its way: what is given back is what was
  taken) and `Follows` (what an answer says of the stock), for an order that is
  `Undisturbed`. `open` is kept by reservation, so the argument is local to the order: whoever
  settles its reservation has found it granted (`SettlerFinds`), and what the RPCs of others
  do, a double release of theirs included, leaves it alone (`FollowsElsewhere`).

`GatewayRetry_proofs`, for any requests, number of retries, rows and crashes:
`TypeCorrect`, `OkIsAnEffect`, `FailuresAreTrue`, `NothingIsCreatedTwice`,
`SecondRowsAreLate`, `OldWritesAreLate` and `RetriesAreRpcs`. The invariant says which promise each
call of a request has (`Phases`), that a settled call was executed or given up (`Work`), and that a
call which ran once and was not given up has replied what it did (`Outcome`).
`DrawnIds` keeps the ids of repeated creates apart, and `KeysAreUnique` with
`MadeAsAsked` (a row nobody has updated has the key it was made with) carries
`NothingIsCreatedTwice`. `Drawn` ties each row a request has made to an execution of one of its
attempts that changed the table, so that two rows are two executions: of one call, which is then late, or of
two, the first of which was given up although it had taken effect, which `Outcome` says only
a timeout or a second execution can bring about (`SecondIsLate`).

`OrderProxy_proofs`, for any requests, instances and times: `TypeCorrect`,
`AddressesAreRecent`, `HandledOnce` and `AnswersAreTruthful`. The invariant is
`TypeOK`, `TimesOK` (a lookup is no older than its timeout), `KnownOK` (what was found
was listed when it was asked for, or later, and what is cached when the entry's life
began, or later) and `SettledOK` (how `at`, `http`, `work`, `served` and `reply` go together).

`Notifications_proofs`, for any events, processes and faults: `TypeCorrect`,
`SettledIsTried`, `HeldIsHandled`, `DuplicatesAreRedeliveries` and `LateMails`. The
invariant adds to the properties `DownOK` (a process that has ended runs no handler),
`ToldOK` (a handler past its mail has had it accepted or refused) and `CountOK`, which
counts: the mails accepted and those still being sent are no more than the deliveries, all
but the last of which the broker has taken back.

Assumptions: those named in the modules (`InventoryAssumption`, `RpcAssumption`,
`CheckoutAssumption`, `CacheAssumption`, `AuthAssumption`, `GatewayAssumption`,
`ProxyAssumption`, `NotificationsAssumption`), which TLC evaluates on every run. In `RpcAssumption` values and error replies are disjoint,
as `handleRPCResponse` tells them apart by their `error` field.

**Only model-checked**: the liveness properties, since fairness is out of the prover's
reach. Every other property of a passing run has a theorem.

## 6. Not modelled

* Scheduled BullMQ jobs and their workers: nothing enqueues a mail, an alert or a report;
  the report and cleanup jobs only log, and error-cleanup deletes rows of a table that nothing
  reads back.
* Logging, the error table, replies' wording, configuration, Swagger, metrics and the
  cache's counters: no state that anything reads back.
* `order.confirmed`, the low-stock alert and `inventory.updated` have no caller
  of their publishers, so their consumers and Socket.IO's broadcasts never run. `refundPayment`,
  `getUserOrders` and the other order and inventory methods of the gateway's
  `messaging.service.ts` (lines 208-302) have no caller either, and no server answers
  those RPCs. `order/services/inventory.service.ts` and the two `queue.service.ts` are not
  reached from any route.
* Rate limits, plugins and the authentication middleware, which decides on the token it
  is given; roles never change.
* An order event published before the notification service has bound its queues is
  lost without notice: `Publish` has the loss, but no property can hold of the event.

## 7. Running it

`tlc -config MCInventory.cfg MCInventory` and likewise for every entry of
`PROJECT.json`; `tlapm M.tla` for each of `Inventory_proofs`, `RpcClient_proofs`,
`Checkout_proofs`, `ProductCache_proofs`, `Auth_proofs`, `GatewayRetry_proofs`,
`OrderProxy_proofs` and `Notifications_proofs`.

## 8. Plan

Done, with the proofs of section 5: `Inventory`, `RpcContract` and `RpcClient`, `Checkout` over both,
`ProductCache`, `Auth`, `GatewayRetry` over `RpcContract`, `OrderProxy`, `Notifications`. Left:

1. an atomic reservation (take all or nothing in one step) as an abstract
   specification that a single-handler `Inventory` implements.
