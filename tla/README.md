# TLA+ models of the Dealan services

Dealan is a ride-hailing and delivery application: sixteen Go services, each
with its own PostgreSQL tables and an HTTP interface, connected by Kafka topics,
behind a Kong gateway, and a React Native client. This directory holds models of
its services in TLA+, the TLC configurations that check them on small instances,
and proofs that TLAPS checks for every instance. Paths below are relative to the
repository.

## 1. Inventory

Every service has the layout `cmd/main.go` (wiring), `controller/` or
`delivery/http` (binding and status codes), `service/` (the logic),
`repository/` (GORM statements). A request runs in a goroutine of its own, so
requests of one service interleave at every database statement; several
instances of a service share one database.

| component | state it keeps | operations | what is hard | what makes it correct |
|---|---|---|---|---|
| payment-service, webhook | `transactions`, `driver_wallets`, `wallet_transactions`, `payment_logs` | `ProcessWebhook`: status, credit of the driver, audit row in one transaction, then `PAYMENT_COMPLETED` on Kafka | repeated and overlapping deliveries, stale reads, lost commit replies, crash before the publication | a payment is settled and credited once; balance = sum of its mutations; status, mutation, audit row and event agree |
| payment-service, creation | `transactions`, `idempotency_keys` | `Process` | look-up outside the transaction, colliding random ids, repeats | one transaction per key, truthful answers |
| chat-service, hub | rooms (map order → user → connection), a queue per connection | register, unregister, broadcast; two pumps per connection | goroutines and channels, reconnects, full queues, evictions | no send on a closed channel, no silent gap, no leak, the hub survives |
| chat-service, storage | `chat_messages`, `chat_rooms` | save (asynchronous), history, create room | order of asynchronous saves, saves that fail | the history never shows an answer before its question; what was read is stored unless its insertion fails |
| promo-service | `promos` | `CheckPromo` | concurrent use of the last units | no unit lost or granted twice |
| auth-service | `auth_credentials` | register, login, validate; publishes `user.created`, `driver.created` | check then insert, publication after commit, its error dropped | an e-mail is registered once, a published account exists |
| user-service | `users`, `user_profiles`, `user_ratings` | consumes `user.created`, edits profiles | offset committed before processing, events lost and repeated, phone numbers and column widths that only it tests | user created once and only for an account, edits kept |
| driver-service | `drivers`, `vehicles`, `driver_status` | consumes `driver.created`, status, position, vehicles | as user-service | as user-service |
| notification-service | `notification_logs` | consumes `payment.completed` | at-most-once consumption, shutdown in the middle of an event | nobody is notified without a payment or twice |
| order-service | `orders` | create order | ids from clients and from the sequence, lost answers | a confirmed order stays its user's |
| matching-service | none | nearest driver of `driver_status` | no reservation | — |
| location-service | `driver_locations` | report a position, find nearby | the upsert runs in a goroutine of its own | the last report stands |
| pricing-service | `pricing_rules`, `pricing_negotiations` | estimate, negotiate, seed at start | rounding at the limits; instances that start together | one journey, one price; limits and verdict that agree up to the rounding; no rule lost |
| map-route-service | `map_routes` | look up or make up a route | two misses of one route | one journey, one length |
| shipment-service | `shipments` | create, update, proof, delete, track | read-modify-save of the whole row, Save that inserts | no edit undone without overlap; delivered with proof; the label stays true |
| punishment-service | `violation_logs`, `account_statuses` | apply a punishment: two writes without a transaction | partial failure, repeats | the status is that of the last violation |
| rating-review-service | `reviews` | submit a review, answer the average | repeats after an error | an average counts each order and reviewer once |
| dealan-frontend | screens | calls the services | repeats a payment without a key | — |
| api-gateway, deployment | — | routes, images | configuration only | — |

The components talk by HTTP requests of the client, by the topics
`user.created`, `driver.created`, `order.matched` and `payment.completed`, and,
inside the chat hub, by Go channels. (`order-service/cmd/main.go:36` wires no
producer, so the `ORDER_CREATED` event of its service is never published.) The full list of
hazards, each at its line, with the properties that cover it or the reason why
none does, is in `PROJECT.json`.

## 2. Modules

| module | models | builds on |
|---|---|---|
| `PaymentLedger` | what the webhook promises: a pending transaction is settled once, its money moves in the same step | — |
| `PaymentWebhook` | `ProcessWebhook`, one action per statement | refines `PaymentLedger` |
| `PaymentProcess` | `Process`, one action per statement | — |
| `PaymentNotify` | the topic `payment.completed` and the consumer of notification-service | composes `PaymentWebhook` |
| `ChatHub` | `Run`, `ReadPump`, `WritePump`, `UpgradeWS` | — |
| `ChatStore` | the saves of `ReadPump`, `GetHistory` | composes `ChatHub` |
| `PromoQuota` | `ApplyPromo` and `CheckPromo` | — |
| `Registration` | `Register` of auth-service, the topic, the consumer and `UpdateProfile` of user-service | — |
| `Shipment` | shipment-service, one action per statement | — |
| `Tariff` | the arithmetic of pricing-service, as operators | — |
| `Quote` | an estimate and a negotiation of it | `Tariff` |
| `Booking` | `GetOrCreateRoute`, the start of pricing-service, the price of a journey | `Tariff` |
| `Location`, `Punishment`, `Rating`, `Orders` | the operations that write of the service each is named for | — |
| `Records` | nothing of its own: the constants and variables of the five modules before it and an instance of each | `Quote`, `Location`, `Punishment`, `Rating`, `Orders` |
| `MC…` | values of the constants for TLC | the module of the same name |
| `Chat_proofs` | theorems | `ChatStore`, and through it `ChatHub` |
| `Services_proofs` | theorems | `Booking`, `Records` |
| the other `…_proofs` | theorems | the module of the same name |

### PaymentWebhook

`status`, `wallet`, `mutation`, `paymentLog` are the committed rows of the four
tables, `published` the events on the topic, `owed` what the payment gateway has
not seen acknowledged. A `Handler` is one request in progress: `pc` is the
statement it executes next, `req` its payload, `wal` its copy of the wallet.

A transaction of PostgreSQL at READ COMMITTED is modelled by three facts: reads
return committed rows; writes are private until `Commit`, which applies all of
them in one step; an `UPDATE` or an `INSERT` on a unique index waits for the
transaction that wrote the row first (`HoldsWallet`, `HoldsTransaction`), and the
`INSERT` fails if that one committed. `LoadTransaction` reads outside the
transaction, as the code does (`GetTransactionByTrxID` takes no `tx`), and
`LoadWallet` takes no lock: `Set("gorm:query_option", "FOR UPDATE")` is a GORM 1
setting and `payment-service/go.mod` requires GORM 2.

Failures (`Fault`, `Crash`): a statement or the commit fails and the request is
rolled back; the commit is applied but its reply is lost; the broker does not get
the event; the answer does not reach the gateway; the process dies. The gateway
repeats an outcome until it sees a 200, and may do so while an earlier attempt
runs. Money is counted in cents (`decimal(15,2)`); the float arithmetic of the
80/20 split is not modelled. Outcomes other than `success` and `failed` are
refused by the binding of the controller before anything happens, and a webhook
for an unknown transaction changes nothing; both are left out.

### PaymentProcess

`row` gives each possible transaction id the request it was created for, `idem`
each key the transaction its cached response names. The ids are a small set from
which `GenerateId` takes any member, taken or not, as five random digits do.
`CheckFails` stands for the dropped error of the look-up. Ids and keys wait on
unique indexes in the same way as above.

### ChatHub

One `Hub…` action is one rendezvous on `register`, `unregister` or `broadcast`
and the whole case of `Run`'s `select` after it: nothing else touches the rooms,
so no other goroutine can see it half done. `reader` and `writer` are the places
of the two pumps. A full queue starts a goroutine (`evicting`), which unregisters
the connection (`HubEvict`) and then closes the socket (`EvictClose`). `Remove`
keeps the two facts that matter most: it deletes *whichever* connection the user
has, and it closes the `Send` of the one that leaves; closing it twice panics and
ends the process. `log`, `joined`, `given` are history variables.
Messages are numbers in the order they were read.

### ChatStore

`ReadPump` takes `SentAt`, broadcasts and then starts a goroutine with a context
of its own that inserts the message: `StampMessage`, `BroadcastMessage`, `SaveAsync` and
`SaveMessage` or `SaveFails`. The first two are steps of the hub with what the
store adds, the other steps of the hub leave the store alone
(`HubKeepsStore`), except that a panic of the hub ends the process and every
goroutine in it: what was not yet stored is gone. `unsaved` is the message that
the hub has taken and that has no goroutine yet; until it has one, that
`ReadPump` does nothing else. `stored` is the table in the order of its ids; `GetHistory`
is the enumeration of its rows that ascends by `sent_at`, as the query orders
them. `heard` remembers what the room had been
sent when a message was read, which is what its author can have answered. A
message is numbered when its `SentAt` is taken; two connections that take it in
the same instant of the clock are not told apart.

### PaymentNotify

The steps of `PaymentWebhook`, with `Publish` appending to `topic`, and the
consumer. `ReadMessage` of kafka-go commits *before* it returns the message and
returns the error of a failed commit *instead of* the message. `SendNotification`
of the service sends nothing: one row of `notification_logs` is its whole effect,
and it reports success also when that row could not be written. The identity of
the passenger is a constant in the code and is left out.

### PromoQuota

`CheckPromo` uses `clause.Locking{Strength: "UPDATE"}`, which GORM 2 does honour:
`SelectForUpdate` waits for the row and reads its last committed version, and the
row is held until commit or rollback. `spent` counts committed decrements,
`granted` the answers with `IsValid = true` that clients have seen. Every error is
answered with `IsValid = false`.

### Registration

Two services and two databases, tied by nothing but the topic. A call of
`Register` generates the account id, so the model lets the call itself name the
account; `request` is what it was called with, and `Init` takes every choice.
`topic` is `user.created` (one broker, one partition, so one order); `position` is
how far the running reader has come and `committed` what its group has committed.
`ReadMessage` of kafka-go commits *before* it returns the message, and returns the
error of a failed commit *instead of* the message: the loop in `Start` then goes
on with the next one. `UserCrash` puts the reader back to the committed offset.
The writer can write a message twice (it repeats a request whose answer was
lost). Events of drivers and administrators do not reach user-service; what
driver-service does with its events is not modelled (section 7).

The three inserts of `CreateUser` are one transaction and one row of `users` here;
a row's `text` stands for the name, address and photo. PostgreSQL admits a row
(`Admitted`) when it is alone with its phone number and its e-mail (`PhoneFree`,
`EmailFree`: the unique indexes on `nomor_hp` and `email`) and when its texts fit
their columns (`Fits`: `nama varchar(100)`, `nomor_hp varchar(20)`, `foto_profil
varchar(500)`); a request or an edit with one that does not has the text `long`.
auth-service asks of a name and a number only that they are there. Its e-mails are
as long as those of user-service at most (`varchar(100)` in both), so an over-long
e-mail is refused before anything is published and is not told apart. `rejected`
holds the accounts whose insertion was refused, which the code only logs. An
update of a profile that does not exist returns an error and changes nothing; it
is left out.

### Shipment

`row` is the table; a handler executes one statement per action. `UpdateShipment`
and `UploadProof` read a row (`ReadShipment`), change their `copy` (`Edited`) and
`Save` it, which in GORM is an `UPDATE` of every column (`SaveUpdates`) and, when
that meets no row, an `INSERT … ON CONFLICT (id) DO UPDATE` (`SaveInserts`): a
shipment deleted in between comes back. `book` is what each row would be if its
requests had come one after the other, or `Contended` from the moment two of them
overlap; `label` what clients were told of their creations. A manifest has two
keys here, and every merge of old and new keys happens on them; the random
tracking code may be any code, taken or not.

### Tariff, Quote and Booking

Prices are whole rupiah, distances and weights hundredths, multipliers tenths, so
that what the code computes in `float64` is exact in integers. (An independent
comparison of the two on 75 600 estimates and on the limits of negotiations from
1 to 200 000 rupiah found no difference.) `Quote` draws any request of a set and
any bid near the limits of its answer. `Booking` follows a client from the look-up
of a route, which the service makes up from a generator seeded with the journey
when it finds none, to its price. `boot` is how far an instance of
pricing-service has started: it counts the rules and, if it counted none, or could
not count, inserts the three defaults one by one, going on after an error.

### Location, Punishment, Rating, Orders

One small module per service, an action per statement. `Location` numbers the
reports of a driver and leaves each in `writing` until its goroutine has run;
`overlapped` are the drivers two of whose reports met there. `Punishment` has the
two writes of a request apart; `disturbed` are the accounts whose last requests
overlapped or were given up half done. `Rating` inserts under the unique index on
order and reviewer and answers the average that `AVG` saw. `Orders` takes ids from
the request, as the binding of `models.Order` allows, or from the sequence.
`Records` gives the four, and `Quote`, their constants and variables, and names
their properties, so that the run and the proofs are about the same instances.
`MCRecords` adds `Booking` and lets a behaviour be one of the six.

## 3. Runs

| run | instance | shows |
|---|---|---|
| `webhook_overlap` | 2 requests at a time, 2 transactions of one driver (qris and bank, shares 1 and 2), 1 failure, every combination of owed outcomes | what survives overlap: `NoOverpay`, `BalanceIsLastMutation`, `PaidIsCredited`, `StatusIsLastLogged`; and `EventuallySettled` |
| `webhook_serial` | 2 requests at a time for different drivers, 3 transactions (two of one driver without cash, one of the other in cash), 1 failure | without overlap per driver: `CreditedOnce`, `ImplementsLedger` |
| `webhook_double_credit` | as `webhook_overlap`, no failure | violated: `CreditedOnce` |
| `notify` | 1 webhook at a time, 2 transactions, one in cash, 3 failures of either service | `NotifiedAsPaid`, `PaidIsNotified` |
| `process_overlap` | 2 requests at a time, one key and requests without, 5 ids, 1 failure | `OneTransactionPerKey`, `KeyAndTransactionTogether`, `AnswersAreTrue`, `EventuallyAnswered` |
| `chat_room` | passenger with 2 connections, driver with 1, one order, queues of 1, 2 messages | `NoSendOnClosed`, `NoSilentGap` |
| `chat_history` | passenger with 2 connections, queues of 1, 2 messages, saves that fail or end at any time | `HistoryIsCausal`, `ReadIsKept`, `GoneLeavesRoom`, `GoneEndsWriter` |
| `promo_quota` | 2 requests at a time, promos with 2 and 1 units and an inactive one, 2 failures | `QuotaIsConserved`, `NoOverGrant`, `TakesOneOfWhatIsLeft`, `EveryRequestEnds` |
| `registration` | 2 registrations and 2 edits, 2 e-mails, 2 phone numbers, texts that fit or do not, every role, 2 failures | `UserHasCredential`, `OneUserPerAccountAndPhone`, `OnlyEditsChangeUsers`, `RefusedWithCause`, `RegistrationCompletes` |
| `shipment` | 2 requests at a time, 2 shipments, orders and codes, manifests of 2 keys, any failure at any time | `DeliveredWithProof`, `CalmIsSequential`, `LabelNamesShipment` |
| `records` | the services one at a time: 468 distances-and-weights per service and hour, 14 bids each; 2 drivers with 3 reports; 2 requests at a time on 2 accounts with 3 violations, on 4 possible reviews of 2 targets, on 3 order ids; and `Booking`: 2 clients, 1 journey of 5.137 km, 2 instances of pricing-service, 2 failures | `EstimateIsNearest`, `LimitsMeanWhatTheySay`; `LastReportStands`; `StandingIsOfLastViolation`; `AverageCountsEachOnce`; `ConfirmedOrdersStand`; `SameJourneySameQuote`, `OnlyFailuresLoseRules`, `EveryJourneyPriced` |
| `ban_replaced` | 2 requests at a time on 1 account, 3 violations | violated: `BanStands` |

**Why the bounds are enough.** Every conflict in this code is between two: two
requests on one row, two connections of one user, a request and its repeat. Two
handlers and two transactions of one driver give all of them, including the
conflict on the first wallet and the one on an existing wallet; a third driver's
transaction or a third handler repeats them. One failure per behaviour suffices
for every "fails, and is repeated" case because a repeat needs no further
failure; a `Crash` hits all requests at once. A queue of one message is full
after one, as the code's 256 is after 256, and two messages let one be buffered
and one be refused. Two failures let an event be written twice and the consumer restart
between the copies, and two e-mails and phone numbers let the registrations agree
in either, both or none. Five ids let a request that crashed after its commit be
repeated and still find a free one. Two shipments, orders and codes let a deleted
shipment come back after its order or its code was given to another, and two
manifest keys let one edit undo another. The journey of `Booking` has a length that
neither two decimals nor the column of the table keep; a second journey would share
nothing with it. The distances of `records` lie around the 2 km that the base price
covers, around a step of the rounding, and far away. The safety theorems below hold
without any bound.

**Fairness.** Go schedules every goroutine and PostgreSQL runs every statement
that is not blocked: weak fairness of a handler's `Step`. The gateway and the
clients repeat what was not answered: weak fairness of `Deliver` and `Start`;
this is what the code relies on, it retries nothing itself. `PaymentProcess` also
needs that the generator does not return taken ids for ever, strong fairness of
`GenerateId` with a free id. PostgreSQL queues the transactions that wait for a
row, so `PromoQuota` has strong fairness of `Step`. In the chat hub Go's `select`
picks among ready channels at random and a channel serves its senders in order,
so each waiting sender is served. A save of `ChatStore` ends, in
success or not: its context sees to that after five seconds.
In `PaymentNotify` the consumer's loop is weakly fair; in `Booking` the start-up of
an instance, which its deployment restarts, and a client that waits for an answer.
In `Registration` the consumer's loop and a call of `Register` in progress are weakly fair; `RegistrationCompletes` promises
something only while no failure has happened, because after a failed publication
the code repeats nothing; so do `PaidIsNotified` and `EveryJourneyPriced`.
Nothing is assumed of users: they may never
connect, write or leave.

**Deadlock** is checked everywhere except in the chat runs, which really stop
when every connection has come and gone or when the hub has panicked, in
`registration`, which stops when every call has been made, and in `records`, where
`Quote` and the bounded reports and ids come to an end. (In `Booking`, which is
part of `records`, a client that is stuck would break `EveryJourneyPriced`.) `Rest` in the payment
models is the idle service.

## 4. What the models show of the code

Two runs state a disagreement between the code and what the repository says of it:
`webhook_double_credit` and `ban_replaced`. The others are behaviours of the models
that the properties have to step around, at the places named: where a property
excludes the shipments, drivers, accounts or behaviours to which something happens,
it says that it happens to no others, and not that it cannot happen.

* Two deliveries of one webhook in progress at once both credit the driver
  (`payment_service.go:153`, run `webhook_double_credit`): the status is read
  before anything is locked.
* A ban is replaced by the next warning or suspension (`punishment_service.go:44`,
  run `ban_replaced`): the status is computed from the request alone (lines 27-35).
  The test calls a ban permanent (`punishment_service_test.go:56`), as does
  `prd.md:466-468`, which gives it no end; `prd.md:470` has an administrator lift
  it, for which the service has no operation. `StandingIsOfLastViolation`, which
  passes, says what the code does: the last violation decides, whatever was before.
* The wallet lock is not taken (`payment_repository.go:80`, `LoadWallet`), so one
  of two concurrent credits of a driver is lost from the balance. What still
  holds, and is proved, is that the balance is the `balance_after` of the last
  mutation.
* An event whose publication failed is never published
  (`payment_service.go:246`, `PublishFails`): the repeat is skipped as already
  processed. A notification whose event was in hand when the consumer stopped is
  lost in the same way, which is why `PaidIsNotified` promises something only
  while no failure has happened.
* The unregistration of a user's old connection removes the new one
  (`chat_service.go:195`, `Remove`), and a connection that is evicted and then
  read-fails is closed twice once its user has reconnected, which panics in `Run`
  (`chat_service.go:196`).
* Overlapping edits of a shipment undo each other, and an edit that meets a
  deletion brings the shipment back (`shipment_repository.go:52`, `SaveInserts`);
  `CalmIsSequential` is about the shipments to which this does not happen.
* A failed seeding of the tariff leaves a service type without a price for ever
  (`pricing-service/cmd/main.go:128`, `SeedRuleFails`): later starts count some
  rules and add none.
* An advertised price limit can be refused and a price beyond it approved
  (`pricing_service.go:80`, `LimitsMeanWhatTheySay`), by half a step of the
  rounding at most. `pricing_service_test.go:74-75` disagrees with the rounding: it
  asserts the limits 10400 and 15600 for an estimate of 13000, for which lines
  80-81 give 10500 and 15500 (`Estimate`; the trip of 4.00 km in `records`). The
  property passes because it allows the half step; with the limits of the test it
  would hold without.
* Without any failure, a client of auth-service can get a token and never a user:
  when another user has its phone number, or when its name or its phone number is
  longer than the columns of user-service (`user-service/domain/models.go:37,39`;
  `auth-service/domain/models.go:59-60` asks only that they are there).
  `RefusedWithCause` and `RegistrationCompletes` together say that nothing else leads
  there but a failure: an event that is lost, whose insertion fails, or that was in
  hand when the consumer died.

Designs that might have been suspected are right: the idempotency key of
payment creation, although it is looked up outside the transaction; the promo
quota; the "idempotent" consumer of `user.created`, which never undoes an edit;
the history of a chat, although its messages are inserted in any order; and the
rounding of prices, which never undercuts the minimum.

## 5. Proofs

All theorems hold for any sets of transactions, drivers, keys, clients, promos,
registrations, shipments, journeys, accounts and handlers, any number of failures
and any length of the logs. The assumptions on the constants are those of the
modules (`WebhookConstants`, `ProcessConstants`, `ChatConstants`,
`PromoConstants`, `RegistrationConstants`, `ShipmentConstants`,
`NotifyConstants`, `BookingConstants`, `RecordsConstants`): types, and that the
marks for "none" are none of the values.

Every invariant and action property that a run checks is stated by a theorem, and
so is the refinement `ImplementsLedger`. In each module the safety property is
proved from an inductive invariant that adds what the processes know between
their statements.

* **`PaymentWebhook_proofs`**, any overlap: `TypeCorrect`, `ShownBalance`,
  `PaidCredits`, `AuditTrail`, `OnlyPaidAnnounced`, `NeverOverpaid`. The invariant
  `IInv` adds that a handler about to save a success of a non-cash transaction has
  an open wallet copy, and that one about to publish has committed a success.
  Without the first, `PaidIsCredited` is not inductive: `Commit` would have nothing
  to credit with. `NoOverpay` is not inductive either, because `Commit` stores the
  copy and not the row: `Explained` says that a copy is covered by the committed
  mutations, and by its own credit once that is added. What a driver earned is a
  sum over a log of any length; `SumExists`, `SumTypes` and `SumOfAppend` show by
  induction that it is well defined and what a row adds to it. (The induction
  theorems of the library take an operator; `Induction` is the same about a *set*
  of numbers, from `WFMin`.)
* The same module, requests of one driver one after the other: `CreditedAtMostOnce`
  and `SerialImplementsLedger`, of `SerialSpec`. `SerialInv` adds that what a
  handler has read is still so when it commits (the status is still pending, its
  copy of the wallet is the committed one plus its own credit): exactly what a row
  lock would provide. `StepSettles` shows that each commit is a `Settle` of the
  ledger and every other step a stutter.
* **`PaymentNotify_proofs`**: `NotifyTypeCorrect`, `NeverOverNotified`. The
  argument counts, per transaction: its events on the topic and the requests about
  to publish one are together no more than its successes (`EventsArePaid`), and its
  notifications and the event in hand no more than its events before the *committed*
  offset (`CommittedFirst`). The second is what committing before returning buys: a
  restarted consumer begins behind everything it has notified.
* **`PaymentProcess_proofs`**: `TypeCorrect`, `AtMostOneTransaction`, `Together`,
  `TruthfulAnswers`, `RowsAreKept`. The invariant adds that two handlers never
  hold the same id or the same key uncommitted, that the id and the key a handler
  holds are free in the tables, and that a handler about to answer holds a
  committed transaction of its own request.
* **`Chat_proofs`**, the hub: `TypeCorrect`, `SendsOnOpen`, `NothingSkipped`. A
  closed connection is in no room because it registers only once and `Remove` takes
  the user's entry away in the step that closes.
* **`Chat_proofs`**, the history: `StoreKeepsHub` (every step of the composition is
  a step of the hub or leaves it alone, so the three theorems before it hold of it
  too), `StoreTypeCorrect`, `HistoryInOrder`. `Numbered` says
  that what the hub has or is being handed was stamped already, so that a message is
  numbered above all it was read after (`HeardBefore`). `CanBeOrdered` shows that
  `GetHistory` exists: among finitely many messages each takes the place that the
  number of those not above it names.
* **`PromoQuota_proofs`**: `TypeCorrect`, `Conserved`, `NeverOverGranted`,
  `TakesOne`. The invariant adds that at most one handler holds a row and that
  its copy is the committed quota (less one after `SavePromo`), and that each
  answer under way belongs to a committed decrement, by the cardinality of the
  set of handlers about to answer.
* **`Registration_proofs`**: `TypeCorrect`, `EmailStoredOnce`, `UsersAreBacked`,
  `UsersAreUnique`, `EditsSurvive`, `RefusalsHaveCause`. The invariant follows an
  account through the pipeline: a call about to publish has stored its credential
  (`StoredBeforePublished`), every event on the topic and the one in hand stands
  for a stored passenger's credential (`EventsBacked`), and an edit in progress
  has the id and the e-mail of an existing row (`EditsOfUsers`). That e-mails
  never collide in user-service follows from auth-service's unique index through
  `EventsBacked`.
* **`Shipment_proofs`**: `TypeCorrect`, `DeliveryHasProof`, `CalmShipments`,
  `LabelsStayTrue`. `CalmHasOneWriter` says that a shipment which is not
  `Contended` has one writer at most, that its copy is the row until it writes, and
  that no insertion by `Save` is under way. `BornOnce` (an id is inserted by one
  creation, before anything else is done with it) is what makes a shipment that
  comes back still have the order and the code of its label (`LabelsKept`).
* **`Services_proofs`**, `Booking`: `TypeCorrect`, `OneQuotePerJourney`,
  `SeedingTogether`. Every stored, read or told length is the generated one
  (`RoutesAsGenerated`, `ClientsAsGenerated`, `ToldAsGenerated`); unless something
  failed, an instance that is seeding has inserted the rules it has passed, and
  where there are rules but not all somebody is seeding (`SeedsKept`).
* **`Services_proofs`**, the modules of `Records`: `LastReportWins` (the
  position is the greatest report that was written, and a driver whose reports never
  met waits for his last one at most), `StandingFollows` (an undisturbed
  account has one request halfway at most, whose violation is the last),
  `ConfirmedStand`, `AverageIsOfEachOnce` (what was averaged was a set of stored
  reviews with the request's own among them), and of the arithmetic
  `EstimatesAreNearest`, `LimitsHold` and `LongerTripsCostMore`, for every distance,
  weight and bid. The last states what no run does: a longer trip of the same kind is
  never cheaper. Their lemmas say that `Round500` is monotone and off by 250 at
  most.

Only model-checked are the nine liveness properties (`EventuallySettled`,
`EventuallyAnswered`, `EveryRequestEnds`, `RegistrationCompletes`,
`PaidIsNotified`, `EveryJourneyPriced`, `ReadIsKept`, `GoneLeavesRoom`, `GoneEndsWriter`), because
they need fairness and `ENABLED`, which the prover does not have, and the two violations.
The type invariants are theorems and in no run. Not proved is that the sum of
scores in `Rating`, a fold of the library, is the sum of the scores: the theorem
is about which reviews were counted, and takes the fold as it is; TLC evaluates it.

## 6. Plan

1. Done: payments (webhook, ledger, creation), chat hub, promo quota,
   registration, with proofs.
2. Done: the compositions `PaymentNotify` and `ChatStore`; `Shipment`; `Booking`
   and the pricing arithmetic; the services of `records`.
3. Done: proofs of every safety property that the runs check.
4. Left: properties no run states yet and a proof could add, as
   `LongerTripsCostMore` does. In `PaymentProcess`, an abstract creation (a key
   names one transaction, for ever) which it refines; in `PromoQuota`, a counter
   that only goes down, one unit per answer; in `Registration`, that an account
   which has no user was refused, is under way or met a failure.

## 7. Not modelled

`CreateDriver` of driver-service inserts a status row whose `CurrentOrderID` is
the empty string into a `uuid` column (`driver-service/domain/models.go:42`,
`repository/postgres_driver_repository.go:51`). PostgreSQL refuses that, the
transaction is rolled back, and as this is the only way to a driver row the
service's other operations find none. A model of them would be of states the
program cannot be in. matching-service reads that table, answers what it finds
and writes nothing.

Of chat-service, `CreateRoom` writes `chat_rooms`, which nothing else reads, and
`GetRoom` has no caller. Of notification-service, `POST /notifications/send`
inserts a row per call and touches nothing else. Of pricing-service,
`GetNegotiationByOrderID` has no caller. The points of a polyline, the texts of
notifications and the geometry of positions are data no property tells apart.

The deferred `recover` of `ProcessWebhook` (`payment_service.go:146-150`) would roll
back and answer 200 after a panic; nothing the transaction does is known to panic,
and only errors are modelled.

Login, token checks and the read-only queries change no state. `main`, apart from
the seeding of the tariff, routes, the gateway and the deployment files are
wiring. The screens of dealan-frontend are user interface; what matters of them to
a service (repeats, overlapping requests, reconnects) is in the models of the
services.

Each module also holds mutated forms of some definitions, marked "Mutant of":
what the code would be with a plausible mistake, used to see that each property
can fail. They are in no run.

## 8. Running

    tlc -workers 2 -config webhook_overlap.cfg MCPaymentWebhook
    tlc -workers 2 -config process_overlap.cfg PaymentProcess
    tlc -workers 2 -config records.cfg MCRecords
    tlapm PaymentWebhook_proofs.tla
    tlapm Services_proofs.tla

`PROJECT.json` lists every run with its module, and for every definition the
lines of the source it stands for.
