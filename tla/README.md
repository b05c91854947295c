# Orqupay: a TLA+ model of the payment runtime

This directory holds TLA+ specifications of the reference runtime of Orqupay
(`reference/node-fastify/`), a payment service written in TypeScript on Fastify. The
specifications follow the code: each action is the code between two awaits, and every claim
below is either model-checked by TLC on small instances or proved by TLAPS for every value of
the constants. Paths are relative to `reference/node-fastify/src/` unless they start with
`docs/`, `adr/` or `README.md`.

## 1. The system

| Component | Source | State it keeps | Operations |
|---|---|---|---|
| Payment orchestrator | `application/payment-orchestrator.ts` | none of its own: locals of each handler across awaits | create, confirm, capture, cancel, refund, create chargeback, resolve chargeback; lists and reconciliation |
| State machine | `domain/state-machine.ts`, `domain/types.ts` | none | `canTransition`, `assertTransition`, `isTerminalStatus` |
| Payment repositories | `adapters/inmemory/payment-repository.ts`, `adapters/postgres/payment-repository.ts` | intents, refunds, chargebacks, ledger entries | save, get, list with keyset cursors |
| Idempotency stores | `adapters/inmemory/idempotency-store.ts`, `adapters/postgres/idempotency-store.ts` | results per scope and key with a time to live; locks per scope and key | `get`, `put`, `withKeyLock` |
| Provider router | `application/provider-router.ts` | a circuit per provider | `selectCandidates`, `recordAuthorizeOutcome`, `findByName` |
| Providers | `adapters/providers/mock-provider.ts`, `ports/provider-gateway.ts` | outside the system | `authorize`, `capture`, `refund` |
| Risk engine | `adapters/inmemory/risk-engine.ts` | none | `assessPayment` |
| Event buses | `adapters/inmemory/event-bus.ts`, `adapters/durable/pg-redis-event-bus.ts` | in memory: a list; durable: outbox and inbox tables, a Redis stream with a consumer group | `publish`, `subscribe`, `list`, the consumer loop |
| Webhook dispatcher and service | `application/webhook-dispatcher.ts`, `application/webhook-service.ts`, `application/webhook-delivery-policy.ts` | none of their own | dispatch with retries, dead letters, replay, batch replay, endpoints and secrets |
| Webhook repository | `adapters/inmemory/webhook-repository.ts` | endpoints, deliveries, dead letters | save, get, list |
| Rate limiters | `infra/rate-limiter.ts`, `adapters/redis/rate-limiter.ts` | a token bucket per caller | `consume`, refill, cleanup |
| Cursors | `infra/cursor-token.ts`, list functions of the repositories | the secrets that sign and verify | `encode`, `decode`, keyset pagination |
| HTTP server | `server.ts`, `api/validators.ts`, `index.ts` | the connections of the process, close actions | `buildApp`, `onClose`, one route per operation, `If-Match` on webhook endpoints |
| Configuration | `infra/config.ts` | the backends, urls, limits and cursor secrets of a process | `loadRuntimeConfig` |
| Metrics, clock, helpers | `infra/metrics.ts`, `infra/clock.ts`, `infra/fingerprint.ts` | counters | counting |
| Operations scripts | `scripts/` | none | drills and benchmarks that call the API |

### How the parts interact

A request reaches `server.ts`, passes the rate limiter and the validators, and becomes one call
of the orchestrator. Each call that changes state runs inside `executeIdempotent`: the
idempotency store serialises calls with the same scope and key, a stored result is replayed,
and a new result is stored at the end. Inside, the operation reads the repository, asks the risk
engine and the router, calls one provider after the other, saves, and publishes events. The bus
hands each event to its subscribers; the one subscriber that exists is the webhook dispatcher,
which calls the merchants' endpoints and leaves dead letters that operators replay.
`loadRuntimeConfig` chooses a backend for payments, for idempotency, for rate limits and for
events, each in memory or in PostgreSQL and Redis, and `buildApp` opens the connections they
need. Webhook endpoints and dead letters are always in the memory of one process.

### What is hard about it

* **Interleaving.** Every `await` lets other requests run. In memory an await may take only a
  microtask, but two requests that arrive together still alternate at each one, and the ports
  (risk engine, providers, buses) are interfaces whose calls do real input and output. With
  PostgreSQL several processes run at once. Nothing locks an intent: the key lock is per
  idempotency key, and the only thing that keeps a confirm, a capture and a cancel of one intent
  apart is the status `processing`.
* **What a read returns.** The in-memory repository hands out the stored object, so a handler
  always sees, and every assignment changes, the present state. The PostgreSQL one hands out a
  copy, and a save writes the whole row back, whatever it has become.
* **Partial failure and crashes.** An operation is a sequence of calls without a transaction:
  the provider, up to three saves, an event, the idempotency record. Each can fail.
* **Delivery.** Outbox, stream, inbox and acknowledgement are four steps in two databases.
* **Time.** Idempotency records expire, circuits cool down, buckets refill and are dropped.
* **Limits.** A pool client is held for as long as a key is locked.
* **Fleets and shutdown.** Servers restart one by one while secrets change; a shutdown closes
  connections that a loop and requests still use.

`PROJECT.json` lists these hazards at their lines, with the properties that guard each of them.

## 2. The modules

| Module | Models | Kind |
|---|---|---|
| `PaymentDomain` | statuses, transitions, records | constants and operators |
| `PaymentLifecycle` | what an intent promises, without requests or handlers | abstract specification |
| `PaymentOrchestrator` | all operations of the orchestrator, concurrently, over either repository | component, refines `PaymentLifecycle` |
| `PaymentOrchestratorProofs` | theorems about it | proofs |
| `SingleFlight` | what an idempotency store promises per slot | abstract specification |
| `MemoryIdempotencyStore` | the chain of promises, expiry | component, refines `SingleFlight` |
| `MemoryIdempotencyStoreProofs` | theorems about it | proofs |
| `PostgresIdempotencyStore` | advisory locks, pool, expiry | component, refines `SingleFlight` |
| `PostgresIdempotencyStoreProofs` | theorems about it | proofs |
| `ProviderRouter` | candidates and circuits under concurrent payments | component |
| `ProviderRouterProofs` | theorems about it | proofs |
| `DurableEventBus` | publish, consumer group, inbox | component |
| `DurableEventBusProofs` | theorems about it | proofs |
| `Webhooks` | endpoints, dispatch, dead letters, replay | component |
| `WebhooksProofs` | theorems about it | proofs |
| `RateLimiter` | both token buckets | component |
| `RateLimiterProofs` | theorems about it | proofs |
| `Pagination` | the nine lists, walks through them, the reconciliation | component |
| `Server` | configuration, connections, consumer loop, shutdown, edits of an endpoint, rotation of cursor secrets | component, puts the others' surroundings together |
| `ServerProofs` | theorems about it and about the lists | proofs |
| `MC...` | symmetry sets and values TLC needs | model checking |

Definitions marked `mutant` are plausible wrong versions of the definition below them. No
behaviour uses them; they show that a property would notice the mistake.

### PaymentOrchestrator

A handler is one request being served. `pc[h]` names the await it is parked at; an action is the
code from there to the next await, including the effect of the call made there. `target`,
`copy`, `snap`, `left` and `granted` are the locals that survive an await: the intent, the
handler's copy of it (PostgreSQL only), the chargebacks it listed, the providers not tried yet,
and the provider's verdict.

| Code | Actions |
|---|---|
| `executeIdempotent` | `Lock`, `Lookup`, `Put`; `Throw` for an error |
| `createPaymentIntent` | `Create`, `Announce` |
| `confirmPaymentIntent` | `ReadIntent`, `Confirm`, `Announce`, `Assess`, `Authorize`, `Settle`, `SaveOutcome` |
| `capturePaymentIntent` | `ReadIntent`, `Capture`, `CallCapture`, `CaptureResult`, `SettleCapture`, `SaveOutcome` |
| `cancelPaymentIntent` | `ReadIntent`, `Cancel`, `Announce` |
| `createRefund` | `ReadIntent`, `Refund`, `CallRefund`, `RefundResult`, `ApplyRefund`, `PostRefund` |
| `createChargeback` | `ReadIntent`, `ListChargebacks`, `Dispute` |
| `resolveChargeback` | `ReadChargeback`, `Resolve`, `PostLoss` |
| no candidate to route to, or `assertTransition` throws | `Abort` |
| a rejected call, a stopped process | `Fail` |

`SharedRecords` chooses the repository: `View` is the stored record or the copy, `Assign`
changes a record without saving it, `Save` also writes it. The ledger is only appended to and
only summed, so it is kept as totals. `psp` and `refundCalls` stand for the providers: the money
they moved. `Fail` ends a request between any two awaits; over PostgreSQL it also stands for a
process that stops (its session, and with it the advisory lock, ends), over the in-memory
repository only for a call that rejects, as a stop would lose the repository too.

Every assignment of a status has the guard the code gives it, `assertTransition` (`Allowed`): a
stretch that would write another status ends with an error (`Refused`, `Abort`). That this never
happens while a payment is being processed is a property, `TransitionsAccepted`.

Idempotency keys do not expire here: expiry is the stores' business and is modelled there.
`Request` has the amounts the validators let through. The lock of `Lock` is what `SingleFlight`
promises, which the two stores are shown to implement.

### The idempotency stores

`behind` and `tail` are the chain of promises of `withKeyLock` in memory: a caller waits for
the one that was the tail when it came. `pending` counts as the code's lock entry does, and the
entry disappears with the last caller (`LastOut`). The clock is a number of ticks; a result lives
`TTL` of them.

In PostgreSQL `free` counts the clients of the pool: `Connect` takes one and `Unlock` returns it,
and each query in between, those of the operation included, needs one more for a moment
(`CanQuery`). The time of a result (`createdAt`) is taken when the operation ends, before `put` waits
for a client, and the row expires counting from it (`Put`). Any query may be refused
(`ConnectRefused`, `QueryRefused`, `UnlockRefused`): the `finally` block runs, but when its own
`pg_advisory_unlock` is refused `client.release()` is skipped, so the pool has lost a client for good
(`lost`) and the lock stays with its session (`Gone`). A connection that breaks while its client is
taken stops the process, which is `Fail` of `PaymentOrchestrator`.

### ProviderRouter

`circuits` is the map of the router, with the opening time kept as the ticks that are left.
`Route` is `selectCandidates`, `Answer` is `recordAuthorizeOutcome` and the loop of
`confirmPaymentIntent` around it. `Among` stands for its loops that skip and its `filter`: the
members of a list that are in a set, in their order. A policy names a provider once
(`PriorityAssumption`), as the server builds it. `streak` is a history variable: failures in a row
as answered.

### DurableEventBus

`stage` is the progress of one `publish`, `outbox`, `stream`, `pending` and `inbox` are the
tables and the Redis structures, `pc` and `batch` a consumer loop. `FailPublish`, the second half
of `Deliver` and `Drop` are the faults: a rejected call, a subscriber that throws, a restart.
`Add` may be repeated by the Redis client. `handled` is a history variable.

### Webhooks

`dispatch` and `replay` are the requests under way, with what they read before their awaits: the
listed endpoints with the secret they had, the letter. `deliveries` is the log of attempts per
event and endpoint. The answer of an endpoint is one of success, transient, permanent.
`Listed` is a page of dead letters, newest first; that the endpoints are a finite map is
`EndpointsAssumption`. `overlapped` is a history variable: two replays were under way at the same
time.

### RateLimiter

Tokens are counted in parts: a request costs `Token` of them and a tick brings `Rate`. The code
adds and divides doubles (`refillBucket`, `secondsForTokens`, and the Redis script in the same way),
so every refill and every answer to a refused caller may be off by up to `Rounding` parts, chosen
anew each time. `RoundingAssumption` says how small that is: what can add up during the longest
wait is less than one tick's refill. Doubles are far within it; the runs use the largest
`Rounding` it allows. `Distributed` chooses the Redis script, which runs in one piece on any number of servers
whose clocks are ahead by `Skew`. `level` is a history variable, a meter that fills with each grant
and drains as fast as a bucket may refill: a bound on the meter is a bound on the requests granted
in every interval.

### Pagination

`listing` is the list function a client uses; `store` has the items in the order they were saved
in, and `walk` follows `next_cursor`. The list functions share the rule of the cursor (`First`,
`PageOf`, `HasMore`, `NextCursor`) and differ in what this table says. `Precedes` is the comparison
that the list function sorts by, and `Collection` what the sort makes of it: the k-th item is the one
with k - 1 items before it.

| `listing` | Order | Saved by | Changes |
|---|---|---|---|
| `intents_memory`, `ledger_memory`, `endpoints` | newest first, stable | `CreateIntent`, `AppendLedgerEntry`, `SaveEndpoint`, at the time taken just before | intents leave and enter the filter (`Change`) |
| `intents_postgres`, `ledger_postgres` | time, then identifier | the same, at any earlier time: the time is taken by a server before it saves | intents as above |
| `events_memory` | time, then identifier | `PublishEvent` | none |
| `events_durable` | time, then identifier | `PublishEvent`; visible from `MarkPublished` on | none |
| `deliveries`, `dead_letters` | the last one saved first | `SaveDelivery`, `SaveDeadLetter` | letters leave and enter the filter |

Refunds and chargebacks are listed like intents. `Reconciliation` is `summarizeReconciliation`,
which walks through the ledger in pages; amounts are one.

### Server

One process of a fleet, and what its clients keep.

| Code | State and actions |
|---|---|
| `loadRuntimeConfig`, `index.ts` | `Environments` are what it may be started with; `Accepts`, `Refuse`, `LoadRuntimeConfig` |
| `buildApp` | `Start`; `Builds` is its own checks, `Connections` what it opens (`open`) |
| `runConsumerLoop`, `ensureConsumerGroup`, `processWithInbox` | `loop`, `batch`: `EnsureConsumerGroup`, `Read`, `Handle`, `Ack`, `LoopFails`, `Pause`; what a message does is in `DurableEventBus` |
| a payment request | `Arrive`, `Admit` (the limiter), `Work` (stores and events); what it does is in `PaymentOrchestrator` |
| `PATCH` and `rotate-secret` of an endpoint | `SendEdit` reads the endpoint, `ApplyEdit` compares `If-Match` with what was read and writes; `GetEndpoint` gives a client its ETag |
| `CursorTokenService` | `Signing`, `Verifies`; `FetchPage` at this server, `FetchPageElsewhere` at another |
| the rollout of `PMC_CURSOR_SECRETS` | `NextStage`, `RestartOthers`: a stage begins when all servers have the one before |
| `onClose`, `PgRedisDurableEventBus.close` | `Close`, `StopConsumer`, `CloseConnection`, `CloseConnectionFails`, `Closed` |
| a crash, an exit | `Crash`, `Exit`: `Forget` all that is in memory |

Fastify runs the close actions when the requests under way have been answered (`Drained`), the
last registered first (`CloseNext`). The content of an endpoint is a url and the version of its
secret; its ETag is that content. Other servers matter only by the stage they are at.

## 3. What is checked

Runs that pass:

| Run | Shows |
|---|---|
| `memory_requests` | All operations race over the in-memory repository. `processing` excludes, `assertTransition` refuses nothing between a provider's answer and the outcome, captures stay within what was authorized; at rest the intent, the refunds, the ledger and the providers agree, and events match the status; a decided chargeback stays decided; and the intents implement `PaymentLifecycle`. |
| `postgres_faults` | Copies of rows, rejected calls, handlers that die, retries with the same key. No operation executes beside a stored result, no money is booked that did not move, no stored row contradicts itself, and every request ends. |
| `idem_memory` | The in-memory store implements `SingleFlight`; the chain is a lock that serves in order, though its entries come and go, nothing runs again before its result expires, and every call ends. |
| `idem_postgres` | The same for advisory locks, where a result lives from when it was made. With as many callers as clients and a refused query: only a refused unlock loses a client, and a call that does not end is in one of two traps (`OnlyTwoTraps`), a pool that ran dry or a lock left behind by a lost client. |
| `router` | Circuits open only on enough failures in a row and do not stay open for ever; no payment calls a provider twice. |
| `bus` | With faults and repeated entries no event is handled twice, and a lost one leaves a trace; as long as nothing fails every event is handled. |
| `webhooks` | A dispatch leaves an event delivered or in exactly one dead letter (that it retries only transient failures is the theorem `RetriesOnlyWhenDue`). Letters never claim what did not happen, and tell every attempt while replays do not overlap. |
| `rate` | The quota holds in every interval though idle buckets are dropped, and who comes back later than told is let through, whatever was rounded. |
| `pages` | A walk through any of the nine lists, while the list changes, shows no item twice and skips none that stayed; the reconciliation of a ledger in memory shows the totals of one moment, though its pages are read at different times. |
| `server` | What `loadRuntimeConfig` accepts `buildApp` builds; nothing waits for a connection that was closed, at whatever moment the shutdown begins, and the shutdown ends; a rotation of cursor secrets in three stages disturbs no walk; a rotated endpoint secret never comes back. |

Runs that find a violation, each of one property that a document, a message or a comment of the
repository states (`PROJECT.json`, "findings", quotes the line):

| Run | What happens |
|---|---|
| `postgres_lost_update` | Two operations read one row; the later whole-row save undoes a transition, e.g. `canceled` becomes `processing`. |
| `memory_over_refund` | Two refunds pass the same check while the provider is called. |

Fifteen more configurations lie beside these. Each shows one behaviour that the code has and a
reader would not expect, as the violation of the property named; they are run by hand, e.g.
`tlc -config memory_stuck.cfg MCPaymentOrchestrator`.

| Configuration | Module | Property | What happens |
|---|---|---|---|
| `memory_over_dispute` | `MCPaymentOrchestrator` | `DisputedWithinCaptured` | Two disputes list the chargebacks before either is saved. |
| `memory_stuck` | `MCPaymentOrchestrator` | `ProcessingEnds` | No candidate is left after `processing` was saved: no operation ever takes the intent out of it. |
| `postgres_dual_write` | `MCPaymentOrchestrator` | `EventsMatchState` | `payment_intent.succeeded` is published before the row is saved, outside any transaction. |
| `postgres_double_resolve` | `MCPaymentOrchestrator` | `ChargebackDecidedOnce` | Two resolutions read an open chargeback, and a decided one changes side. |
| `postgres_refund_retry` | `MCPaymentOrchestrator` | `OneRefundPerKey` | A crash between the provider's refund and the idempotency record: the retry refunds again. |
| `idem_pool_exhausted` | `MCPostgresIdempotencyStore` | `EveryCallEnds` | As many calls as clients: each holds one and waits for another. |
| `rate_refused_when_due` | `MCRateLimiter` | `RetryAfterIsExact` | A caller that asks too early, and again at the very millisecond it was told, is refused once more: the sum of what was refilled falls just short of a token. |
| `router_closes_early` | `MCProviderRouter` | `StaysOpen` | An answer under way when a circuit opened closes it before its time. |
| `webhook_unreplayed` | `MCWebhooks` | `StaysReplayed` | A failed replay writes back the letter it read and undoes a successful one. |
| `bus_lost` | `MCDurableEventBus` | `EventsArrive` | One fault loses an event: nobody reads pending entries or unmarked rows again. `adr/0002-durable-runtime-postgres-redis.md:32` promises a durable delivery. |
| `pages_ledger_postgres` | `MCPagination` | `PostgresSummaryOfOneMoment` | An entry becomes visible behind a page that was read: a refund is summed up without its capture. |
| `server_if_match` | `MCServer` | `IfMatchGuards` | Two edits under one ETag are read before either is applied, and both are accepted. `docs/04-contratos.md:39` promises an optimistic control. |
| `server_forgets` | `MCServer` | `EventsFindEndpoint` | After a restart the events of the stream find no endpoint and count as handled. |
| `server_rotation_at_once` | `MCServer` | `RotationKeepsWalks` | A new cursor secret that signs as soon as it is listed meets servers that do not know it. `docs/05-configuracao-avancada.md:78` names that the way to rotate without downtime; with an intermediate stage it is (run `server`). |
| `webhook_old_secret` | `MCWebhooks` | `SignedWithSecret` | A dispatch keeps signing with a secret that was rotated meanwhile. |

Two more pass, and all they check is proved as well. `webhooks_types` checks a type invariant
that is not part of a run and that a dispatch tries again only after a transient failure, up to the
maximum (`RetriesAreDue`). `rate_redis` is the Redis half of the rate limiter (`QuotaIsKept`).

### Bounds

* Requests: two handlers, one intent. The races of the code are between two requests, and
  intents share nothing but keys. Two keys, so that requests both share and do not share one;
  one chargeback identifier. `MaxAmount = 2` is the least that makes a partial capture or refund,
  `MaxCandidates = 2` is a failover. `MaxRequests = 5` is enough to create, confirm, capture and
  then let two operations race; with faults it is 4, one key and one candidate.
* Idempotency: three callers make a queue of two; a time to live of two ticks with three ticks
  of time lets results expire under a waiting caller. In PostgreSQL three callers share one slot and three
  clients: enough for the pool to run dry, for a lock with two waiters, and for one of them to be
  the one whose unlock is refused. Two ticks let a result expire while `put` still waits.
* Router: three payments, two providers, a threshold and a cooldown of two, so that answers
  arrive on both sides of an opening. It has no bound on steps.
* Bus: two events, two consumers, batches of two, two faults, one repeated entry.
* Webhooks: one event, two endpoints with at most one change, two replayers, two attempts,
  three replays: enough for a replay to find a letter that another replay rewrites.
* Rate limiter: a window of three ticks with one request (in Redis six with two), and a second of
  two ticks, so that a wait of whole seconds is longer than the token needs; a rounding of one part,
  where a tick brings six; time passes several times
  `MaxIdle` (three windows), so that buckets are dropped and made again.
* Pagination: four items and pages of one or two, a request choosing each time: pages that are
  full, short, or end with the collection. Two times and any order of identifiers give items of
  one time and items that arrive behind the cursor; one change of the filter. What happens after a
  walk's end is cut off (`WalkGoesOn`), and the two lists with the most orders of arrival,
  `intents_postgres` and `events_durable`, have three items (`FewItems`).
* Server: 25 environments (the backends of the tests and of the documented deployments, with and
  without the urls, and one of each other ground for refusal), batches of up to two, so that a
  shutdown begins in a batch's first and last message; two clients, one url and one rotation,
  two urls where `If-Match` is the question; three stages.

Where these bounds end behaviours (everywhere but in `router`; a server, too, may be down for
good when no environment suits) `CHECK_DEADLOCK FALSE` is set: once the requests, calls,
ticks or changes are used up, everything rests. That nothing rests too early is checked as
liveness where something must end (`EveryRequestEnds`, `EveryCallEnds`,
`OnlyTwoTraps`, `EventsArriveUndisturbed`). Symmetry is used only in runs without liveness.

### Fairness

* A handler's step, a store's caller, a consumer loop and a publisher are weakly fair: each waits
  for a call that is answered, by a result or by an error.
* `Connect`, `Lock` and `Query` of the PostgreSQL store are strongly fair: the pool and the
  server   queue who waits, so a client that becomes free again and again reaches everybody. Nothing requires
  a query to be refused. `EveryCallEnds` is not claimed of that store: where the pool can run dry it
  is false (`idem_pool_exhausted`), and `OnlyTwoTraps` says what else there is to fear: nothing.
 that becomes free again and again reaches everybody.
* In the server the consumer loop, requests, edits and the steps of the shutdown are weakly fair:
  their calls come back, with a result or an error, and nothing else decides whether they go on.
  No process is required to start, to crash or to be shut down, and no request to arrive.
* In the router only time is fair. Nothing requires payments to come, or providers to answer.

## 4. What is proved

TLAPS proves these for every value of the constants that satisfies the named assumptions. TLC
evaluates those assumptions in the runs.

* **`PaymentOrchestratorProofs`** (any sets of handlers, keys, intents, chargebacks; any
  bounds; both repositories where not said otherwise).
  `TypeCorrect`: `Spec => []TypeOK`. `TypeOK` is inductive because it ties each await to the
  operation served (`Serves`) and to a known intent (`HandlerOK`).
  `Exclusion`, for `SharedRecords = TRUE`: `Spec => []ProcessingIsExclusive`. The invariant is
  inductive with `TypeOK`: a handler enters the section only by a stretch that finds a status
  other than `processing` and saves `processing`, which by the invariant means that nobody is
  inside, and whoever is inside leaves with the stretch that changes the status.
  `StateMachineRespected`, for `SharedRecords = TRUE`: every change of a status is an allowed
  transition. It needs `Exclusion`: the statuses written inside the section are allowed from
  `processing` only. For copies of rows both are false (`postgres_lost_update`).
  `AtMostOnceHolds`: `Spec => []AtMostOnce`, for both repositories and any faults; the inductive
  invariant adds that executing handlers have different slots.
  `DecisionsStand`, for `SharedRecords = TRUE`: a won or lost chargeback keeps its status, since
  the stretch that decides also reads that the chargeback is open.
  `NothingOverCaptured` and `OrchestratorIsLifecycle`, for `SharedRecords = TRUE`, rest on `MoneyOK`:
  what each intent says about its amounts (`AccountOK`), and what a handler past its reads may
  still rely on at its await (`Stands`), e.g. that a capture under way still fits into what was
  authorized. Only `Exclusion` keeps the second part true while others step. The refinement then
  goes step by step: each action is the action of `PaymentLifecycle` that its new status names, or
  leaves the four fields that the mapping shows.
  `EventsTellTheOutcome`, for `SharedRecords = TRUE`, rests on `EventsOK`: an event that is published
  or about to be (`Announces`) names the status that is stored, and without faults each final
  status is either published or about to be.
  `NothingOverstated`, for both repositories: `BooksNeverOverstate` compares four books that are
  written one after the other, and is not inductive. `NeverOver` adds to each book what handlers
  hold between it and the next: what the provider moved and no record says (`Paying`,
  `Capturing`), what a record says and the intent does not (`Applying`), and what is not in the
  ledger yet (`Posting`). The amounts are counted as units (`Total`), so that one handler more or
  less is a union of disjoint sets.
  `BooksAgreeAtRest`, for `SharedRecords = TRUE`: without faults the same inequalities are equalities
  (`BalanceOK`), and at rest nobody holds anything. For chargebacks it needs that a lost one is
  booked by the one handler that decided it (`LossesOK`). `SumIsTotal` shows that the sum of the
  model (`MapThenSumSet`) is the count of the proofs.
  `RowsStayInOrder`, for `SharedRecords = FALSE`: over PostgreSQL saves undo one another, but no
  stored row contradicts itself (`RowsInOrder`). The invariant `RowsOK` is about the copies: each
  adds up, and still fits what its handler checked before its awaits (`Fits`), because nobody else
  writes it. A save stores the whole copy, so the row adds up too.
  `NothingRefused`, for both repositories: `TransitionsAccepted`. In memory it follows from
  `Exclusion`: nobody else moves the status while a payment is being processed; over PostgreSQL from
  `RowsOK`: the handler asks its own copy.
* **`MemoryIdempotencyStoreProofs`** (any finite set of callers, any slots, time to live and
  bounds). `MemoryStoreTypeCorrect` and `LocksAreReclaimed` come together, as `pending` stays a
  natural number only because it counts the callers at work (`PendingCounts`).
  `OneHolderAtATime`: `OneHolder` is not inductive, since a step that lets the next caller
  in depends on the whole chain. The invariant `Queue` says that the callers of a slot can be
  given places: whoever waits is right behind the one it waits for, whoever does not is first,
  the tail is last. A caller that is both first and last is then alone, which is why the tail may be
  forgotten. `NobodyOvertakes` follows from it too.
  `NothingRerun`: `NoRerunWithinTTL` from `Remembered`: the last result is there or has expired.
  `StoreIsSingleFlight`: the store implements `SingleFlight` under the mapping of the run. A
  result is never stored over another because who runs the operation found none (`RunsAlone`),
  and, by `OneHolder`, nobody else stores meanwhile.
* **`PostgresIdempotencyStoreProofs`** (any finite set of callers, any slots, size of the pool, time
  to live, refused queries and bounds). `PostgresStoreTypeCorrect` and `ClientsComeBack`
  (`NoOtherLeak`) come together: the pool is never overfull because the clients that are free, lost
  and taken add up to its size. `NothingRerun` and `StoreIsSingleFlight` need `Locked`, that an
  advisory lock is that of the caller inside or of a lost client, and `Found`, that a row is still
  expired when it is deleted and still absent when it is inserted. `NothingRerun` counts the time to
  live from when the stored result was made, as the code does; for how long it was stored depends on how
  long `put` waited for a client. That calls end is only model-checked, as `OnlyTwoTraps`.
* **`DurableEventBusProofs`** (any events, consumers, batch size and bounds).
  `BusTypeCorrect`: `Spec => []TypeOK`, with `BatchesApart`: acknowledging a position must not take
  it from another batch, so no position is in two batches.
  `EventsHandledOnce`: `Spec => []HandledOnce`. The invariant `OneOwner` says that a handled event
  has its row in the inbox for good, and that a consumer between claim and the end of a delivery
  is the only one with its event and has not handled it: only then may `Forget` delete the row.
  `LossIsTraced`: `Spec => []LossLeavesTrace`. `TraceOK` follows the entries of an unhandled event,
  of which a repeated `Add` may have made several: as long as the inbox has no row some entry is
  not acknowledged and not about to be (`Open`); once it has one, the entry of its owner is still
  pending, first in its batch or in nobody's (`Kept`), whatever becomes of the others.
* **`RateLimiterProofs`** (any servers, callers, window and limit; clocks that differ by at most
  two windows; any rounding within `RoundingAssumption`). `QuotaIsKept`: `Spec => []QuotaHolds`. A
  meter alone is not inductive: it may be full when a bucket is dropped and a full one made. The
  invariant `IInv` bounds each meter by what its bucket still owes, and shows that a bucket idle for
  `MaxIdle` owes nothing.
  `RetryAfterIsTrue`, where the clocks agree (`MaxSkew = 0`): `Spec => []RetryAfterIsEnough`. The
  invariant `PromisesOK` says that a bucket that refused lacks of a token, at the time it named, no
  more than its refusals since then may have lost to rounding: each takes at least a tick and loses at
  most `Rounding`, so one tick later the token is there. At that very time it may not be
  (`rate_refused_when_due`). With clocks apart one server may promise by its clock what another does
  not grant.
* **`WebhooksProofs`** (any events, any finite set of endpoints, any replayers, attempts and bounds).
  `WebhookTypeCorrect`, from `TypeInv`, which adds that queues hold letters there are and that a
  dispatch is idle exactly when it has nothing left.
  `NothingIsDropped` and `RetriesOnlyWhenDue` need `DispatchOK`, the place of each endpoint in a
  dispatch: still ahead and untouched, being tried, or settled: nothing to do, a success, or exactly
  one letter. `ReplayedIsDelivered` and `CountsNeverOverstate` need `ReplayOK`: what a replay holds is an
  earlier version of its letter, so it claims no more than the letter did, and the attempt it
  is about to count was made. The two are inductive together: a new letter is right because the
  dispatch was at the place it was, and a replay touches no endpoint that a dispatch still tries,
  because there is a letter. `LettersTellTheStory` needs `StoryOK`: while replays do not
  overlap, a letter lags behind its log only by the attempt of the one replay that has it. There
  is one letter per event and endpoint, so that replay is the only one that writes to the log.
* **`ProviderRouterProofs`** (any payments, providers, policy, threshold and cooldown).
  `CircuitsOpenOnStreak`: `Spec => []OpensOnStreak`. The invariant `CountsStreak` says that the
  router never counts more failures than the streak has: it may have begun to count anew while the
  streak went on. `NoProviderIsAskedTwice`: `Spec => []NoProviderTwice`. A payment's candidates have
  no duplicates (`CandidatesOK`), since `Among` keeps those of a list without any, the default is
  added only where it is missing, and closed and open circuits are disjoint. `RouterTypeCorrect` is
  both together.
* **`ServerProofs`** (any environments, clients, contents, batch size and lists of secrets).
  `AcceptedConfigurationsBuild`: the checks of `loadRuntimeConfig` imply those of `buildApp`
  (`AcceptedBuilds`). `NothingWaitsForClosed`: `NothingUsedClosed` alone is not inductive. The
  invariant says that a process whose loop or requests are under way still has every connection its
  configuration asks for (`Serving`), and that a loop told to stop meets no requests (`Stopping`);
  as the consumer's connection is closed first (`ConsumerFirst`) and only when the loop is over,
  no connection is closed earlier. `RotatedNeverReturns` follows from what one edit does
  (`EditFacts`). `GradualRolloutKeepsWalks` assumes `GradualRollout`: every list verifies what
  the lists up to the one after it sign. The invariant `WalkInv` says that the process has the list of
  the stage or of the one before, and that a token was signed by a stage that has begun. The rollout
  of `server_rotation_at_once` is not gradual.

  The same module holds the theorems about the lists (any identifiers, page sizes, list functions and
  bounds). `ListsTypeCorrect`: `PSpec => []PTypeOK`. `WalksShowNoItemTwice`, `WalksSkipNothing` and
  `ReconciliationsOfOneMoment` state `NoItemTwice`, `NothingSkipped` and `SummaryOfOneMoment`; none is
  inductive. The invariant `ListInv` says that what was seen is in the order of the list (`InOrder`) and
  ends at the cursor (`AtCursor`), and that what must be seen is among what the walk has shown and what
  it would still show if nothing changed (`Shown`, `ToShow`). The lemmas under it are about the list
  functions: each sorts by one of three strict total orders that no change of an item disturbs
  (`OrderFacts`, `OrderStays`); a list shows every item once, in its order, since each has a place
  of its own and there are as many places as items (`CollectionFacts`); a page is the beginning of
  what follows its cursor, and what follows the page is the rest (`PageFacts`), so that a fetch moves
  items from `ToShow` to `Shown` and loses none. For the reconciliation in memory the two together
  are always a prefix of the ledger (`OneMoment`): a new entry is listed behind those of the same
  time and before all others, so the walk misses it unless it is still at entries of that time, and
  then everything saved earlier is in the walk too (`SaveOneMoment`). Over PostgreSQL this is false
  (`pages_ledger_postgres`).

The type invariant of every component is proved, and therefore not repeated in its runs.

Only model-checked:

* Liveness (`EveryRequestEnds`, `EveryCallEnds`, `OnlyTwoTraps`, `CircuitsHeal`, `EventsArriveUndisturbed`,
  `ShutdownEnds`) and `ENABLED`, which are beyond the prover.
* The violations: each is a behaviour, which TLC finds.

The induction theorems of the library take an operator as a parameter, so they cannot be cited.
Where a fact about all finite sets is needed (`SumIsTotal`, `LeastOf`, `GreatestOf`, and what
follows: that a finite set of places can be listed in order) it is proved by a
minimal counterexample, from the well-foundedness of the strict subsets of a finite set. No
module declares a RECURSIVE operator.

## 5. What is not modelled

* Metrics, the clock port and helpers: no state that decides anything.
* Routing, authentication, headers and most validation: what is refused has no effect. Of the
  configuration, the bounds of single numbers other than list limits, and the format of strings.
* The encoding and the HMAC of cursors (a token is the secret that signed it), HMAC signatures of
  deliveries, urls, SQL text.
* The operations scripts and the contracts: they call or describe the API from outside.
* Fractions. A capture amount that is no integer passes `assertCaptureInput`
  (`api/validators.ts:58`), becomes a fraction in memory and is refused by the BIGINT column of
  PostgreSQL after the provider has captured. Doubles are modelled by a bound on what they are off
  by, not bit by bit.
* A PostgreSQL session that breaks while its handler lives on: the event of a client that nobody
  listens to stops the process.
* Requests whose client hung up. `Drained` is what Fastify's documentation says of `close`: requests
  under way are answered first. Node's server waits for sockets, so a handler whose client went away
  may still be at work when the close actions run, and may meet a closed pool: `NothingUsedClosed`
  is about requests whose clients wait. `index.ts` installs no signal handler: the shutdown modelled is
  that of whoever calls `close`.
* An order of events between servers of one consumer group: nothing promises one.
* Two processes in full: of the fleet around a server only the cursor secrets are modelled. What
  processes do to each other through PostgreSQL and Redis is in `PaymentOrchestrator`,
  `PostgresIdempotencyStore`, `DurableEventBus` and `RateLimiter`, each for itself.

## 6. Plan

Written, in this order: domain and orchestrator with its lifecycle and first proofs; the
idempotency stores with `SingleFlight`, and their proofs; the router; the rate limiters with
proofs; the durable bus with proofs; webhooks; pagination of every list, with the reconciliation;
the server with configuration, shutdown, edits and rotation, with proofs; proofs of the router; the
books, events and refinement of the orchestrator; traces of the bus; webhooks; the lists; refused
queries and lost clients of the PostgreSQL store; rounding in the rate limiters; refused transitions
and the rows of PostgreSQL.

Next: a composition of the orchestrator with keys that expire while a retry is on its way.
