# Airoute: a verification development

Airoute (`nano-gateway`) is an AI gateway in Go: it takes chat, embedding, rerank and multimodal
requests in the OpenAI, Anthropic and Gemini formats, chooses an upstream channel, calls it with a
circuit breaker and fallbacks around the call, meters the usage and charges it to wallets, and
keeps several replicas in step over a database and, optionally, Redis. A management console in
React (`web/`) administers it. This directory holds TLA+ models of its core and of the console,
the TLC configurations that check them on small instances, and TLAPS proofs of theorems about them
for every value of the constants.

All source paths below are relative to the repository (`src/` in `PROJECT.json`).

## 1. Inventory

For each component: the state it keeps, its operations, and what is hard about it.

**Circuit breaker** (`internal/router/circuit_breaker.go`). Per channel a
`BreakerStatus`: state object (CLOSED, OPEN, HALF_OPEN), failure count, success count,
canaries in flight, last failure, last state change. `CanExecute`, `RecordSuccess` and
`RecordFailure` run under one mutex; the call to the upstream happens between them, with
no lock. Hard: reports arrive in any order and in any later state, or never.
Correct means: the count is the streak; an open channel is left alone for the cooldown;
one canary at a time; no channel is shut out for ever.

**Dispatcher** (`internal/router/dispatcher.go`). The channel table and the model
fallback map, each replaced as a whole by the synchronizer; per request the model, the
remaining candidates, the fallback chain and the channel trail (both carried in the
context). Operations: `Dispatch`, `DispatchStream`, `DispatchEmbedding`,
`DispatchRerank`, `DispatchHTTP`, `UpdateChannels`, `SetModelFallbacks`, and the probes of
the console. Hard: failover over candidates and then over models, while both tables
change; the first-token window of a stream, where an event, a 15 s timer and a
cancelled context race; silent upstreams. Correct means: the breaker protocol is
respected, no call is repeated, the fallback ends, nothing is retried after the first
token, the audit trail tells what happened, a request does not hang.

**Load balancer** (`load_balancer.go`): smooth weighted round robin with weights
shared by model and channel; session affinity through Redis or a hash.
**Channel matching** (`internal/model/channel.go`): which channel serves a model and
speaks a protocol. **Providers** (`internal/provider`): calls to OpenAI, Anthropic and
Gemini upstreams; for a stream, a goroutine that pumps events into a channel of 64.

**Inbound handlers** (`internal/api`): routes, translation of formats, the SSE loops, a
usage record per request. **MCP server** (`mcp_handler.go`): sessions with a bounded
queue, a mutex and a closed flag. **Validators** and **adapters**: stateless.

**Authentication and quota** (`internal/middleware/auth.go`): the key table, the check
order, and the overdraft reservation in Redis (Lua) or a local map. **Rate limiter**
(`ratelimit.go`): a token bucket per key, or a sliding window in Redis.

**Usage log pipeline** (`internal/storage/async_logger.go`): a queue in memory, a stream
in Redis, two workers per replica that write batches, a stop channel. Hard: a lost answer
of Redis, a crash between reading and writing, the shutdown. Correct means: each
request is charged once, and what is lost is lost where the code says so.

**Repository** (`internal/storage/repository.go`, `db.go`): users and balances, keys,
channels, redemption codes, recharge orders, verification codes, usage logs, prices, on
SQLite (one connection) or PostgreSQL (READ COMMITTED). Hard: transactions of several
statements that interleave; redelivered webhooks. Correct means: a credit
happens once, wholly or not at all, and no credit is lost.

**Billing engine** (`internal/billing/engine.go`): price table, group lookup, off-peak
slots. **Cluster synchronizer** (`internal/controlplane/sync.go`) with **distributed
coordination** (`internal/distributed/redis.go`): `ReloadFromDB` under a mutex, called by
the start, admin handlers, the subscriber of the Redis channel and a 10 s ticker. Hard:
lost broadcasts, a version noted before it is loaded, queries that fail half-way or whose
rows break off unnoticed, and price handlers that reload the engine outside of the mutex.
Correct means: memory never goes back, a change is in force where it was made when its
reload has succeeded, all replicas converge.

**Admin API** (`internal/controlplane`): validation, CRUD, then `ReloadAndBroadcast`.
**Prober**, **configuration**, **telemetry**, **process**
(`cmd/airoute/main.go`: start and shutdown order).

**Management console** (`web/src`). One React program of `App.jsx` and components; JavaScript
runs one handler at a time, but each request is awaited, so a page is a set of handlers
whose first halves and second halves interleave with timers and with the server. A
handler sees the state of the render it was made in, which may be an older one.

- *Session and navigation* (`App.jsx`, `AuthPage`, `LoginModal`, `AccountManageModal`): token
  and user in the page and in the browser's storage, the hash, view and tab, the dialogs.
  Hard: answers of an earlier session, reloads, tabs reached by the address bar. Correct
  means: a tab of the administration is shown to administrators only.
- *Prices* (`PricingManager.jsx`): list, filters, ticks, a form with discount windows. Hard:
  the console and the billing engine read windows by different code, and the text of a time by
  different parsers. Correct means: what is saved is unambiguous to the engine.
- *Users* (`UserManagementView.jsx`): rows with buttons, three forms with one flag each.
  Hard: rows out of date, forms closed and opened again while an answer is out. Correct
  means: nothing is asked that the server refuses, one adjustment at a time.
- *Wallet* (`WalletManagementView.jsx`): the balance in two copies, recharges through a
  payment page that is left and returned from, gift cards. Correct means: one balance is
  shown, a press is credited at most once.
- *Logs* (`App.jsx`, `LogsView.jsx`): a page of the records, filters, a poll every 8 s whose
  handler is as old as its render. Correct means: only the user turns pages, and in the end
  the page viewed is the page shown.
- *Providers* (`App.jsx`, `ChannelsView.jsx`): rows, tests, batches, one form for new and
  edited providers with presets and a probe. Correct means: a form is saved over the row it
  came from.
- *Playground* (`App.jsx`): a key, a model per modality chosen again by effects, generations
  that share one flag and one output, a video polled by overlapping polls. Correct means:
  models that are offered are played, and the buttons are disabled only while a generation
  is under way.
- *Model routes*, *keys, integration, status*: lists and forms, not modelled (section 6).

Interactions. A request passes authentication, quota and rate limit, then its handler,
then the dispatcher, which consults matching, load balancer and breakers and calls a
provider; on its end the handler hands a usage record to the pipeline, which charges key
and wallet in the database. Independently, admin requests change the database and make
the synchronizer replace the dispatcher's tables, the key table and the prices on every
replica. The shared state between actors is therefore: the breakers (between requests),
the tables (between requests and reloads), the queue and the stream (between
requests and workers), the rows (between transactions of all replicas).

## 2. Modules

| module | models | kind |
|---|---|---|
| `BreakerStatus` | one channel's `BreakerStatus` and the three state objects | operators |
| `CircuitBreaker` | many callers, `CanExecute` ... `RecordSuccess`/`RecordFailure`/nothing | specification |
| `FailFastGate` | what the breaker promises, with no states | abstract specification |
| `Dispatcher` | all dispatch functions, over `CircuitBreaker` as `CB` | composition |
| `VoucherLedger` | a redemption as one indivisible step | abstract specification |
| `Wallet` | `RedeemCode`, `CompleteRechargeOrder` statement by statement | specification |
| `UsagePipeline` | `Record`, both workers, start, shutdown, crash, on several replicas | specification |
| `ClusterSync` | reload, broadcast, subscribe, periodic sync, on several replicas | specification |
| `OffPeakSlots` | discount windows: the console's check, the server's and the engine's matching | operators |
| `PricingPage`, `UsersPage`, `WalletPage`, `SessionPage`, `LogsPage`, `ChannelsPage`, `PlaygroundPage` | one page of the console each, with the server it talks to | specifications |
| `MC_Console` | the pages side by side, one explored at a time | composition |
| `MC_*` | constants for TLC | |
| `SumTheorems` | sums over finite sets | lemmas |
| `*_proofs` | theorems of the module they are named for; `ConsolePages_proofs`: users, wallet, logs, providers, session; `Console_proofs`: prices, playground and the console as a whole | proofs |

**BreakerStatus, CircuitBreaker.** `Status` is the Go struct; the three `CanExecute`
methods are `Admits` (the answer) and `AfterAdmission` (the change), so a step is a
guard and an update. Times are ages: how long ago the last state change and the last
failure were, up to a cap beyond which no comparison in the code can tell them apart.
`Tick` is the clock. A caller is between `Admit` and the report; `Abandon` is a
caller that never reports (`dispatcher.go:536`). `streak` and `quiet` are history: the
failures reported in a row and the time since the last one.

**Dispatcher.** A request is a record with a program counter; the actions are the places where it
can be overtaken: taking the candidates (a snapshot of the table), asking the breaker, the
upstream's answer, the timers, the cancelled context, the fallback. A call is `sending` until the
upstream has taken the whole request (`Sent`, its own doing) and `called` from then on: the
transport's timeout for the headers runs only there (`client.go:25`), and there is no other one
(line 32). An answer or an error may come earlier. One loop stands for the five dispatch
functions, which differ by `kind`: `chat` (`Dispatch`), `stream`, `embed` (`DispatchEmbedding`,
`DispatchRerank`) and `http`. What a selector returns is any order that respects the priority
tiers (`Orders`), so the load balancer cannot be relied on for more. Models and channels are model
values; `Fold` gives the lower case of a model name, `Width` the length of a channel name in a
trail. The breaker variables are those of `CircuitBreaker`, changed by its actions.

**Wallet.** The variables are the committed tables. A transaction's place in the code
says which rows it has changed but not committed and which it holds. On SQLite, one
connection: any other statement waits for the transaction. On PostgreSQL, a row that is
held makes an `UPDATE` or `DELETE` wait, after which its `WHERE` sees the committed row.
`Abort` is a failure at any statement, at the commit, or of the process. `credited` and
`base` are history.

**UsagePipeline.** `ring` is `AsyncLogger.ch`, `batch` the local worker's slice,
`stream` the undelivered entries of the Redis stream, `fetched` what a stream worker
holds. An entry that was delivered and never written stays pending in Redis; no code
reads pending entries, so it is counted as lost. `process` follows `main`: `srv.Shutdown`
waits for running requests, ten seconds at most (`closing`), then the deferred
`asyncLogger.Stop` closes `stopCh` and waits for the workers (`stopping`), then the
process ends. `lost`, `recorded`, `doubled` and `overran` are history.

**ClusterSync.** A part of the configuration is its version number. A reload is: lock,
then for each part a query and an installation; a failing query for a required part
ends the reload with an error, one for an optional part is passed over. Rows that break off are
no failure, for `rows.Err()` is asked nowhere: what was read so far is installed as the list
(`QueryBreaks`; version 0 stands for it). An admin handler commits a change, reloads,
increments the version in Redis, publishes; a change of prices is first read and installed by
the handler itself, outside of the mutex (`ReadPrices`, `InstallPrices`). The
subscriber notes the version and then reloads; the ticker reloads. `first` and `missed`
are history.

**The pages of the console.** Each module has the page's state (`useState`, `useRef`, the
storage) and the part of the server's that it shows. A request is a record in a set:
a handler adds it, the server decides it (`...Answer`, with the checks of the Go handler
that serves it), and the page handles the answer in a step of its own, so that answers
overtake each other and the page changes in between. A request may be refused or lost. What
the second half of a handler reads of its closure is carried by the record. Effects that
React runs after a render belong to the step that caused the render. A timer's handler reads
the state of the render it was made in (`LogsPage`) or a reference to the current one.
Names follow the code: `handleSave`, `fetchLogs`, `handleEditChannel` and so on. Pages share no
state that is modelled, except the balance, of which `WalletPage` has both copies.

- `OffPeakSlots`: the text of a time is what `parseInt` and `Atoi` make of its halves. The form's
  `parseMinutes` and `checkSlotsOverlap` read the former; the server's `ValidateSlotsOverlap` and
  `Applies`, what its `CustomOffPeakStrategy` matches, read the latter (`parseTimeToMinutes`, which
  drops errors). `Unambiguous` is about the engine, `ReadAlike` says that both read the same times.
- `WalletPage` takes an order or a card as credited, refused or unanswered; `Wallet` has what
  the server does for it. `pressed` is history.
- `LogsPage`: `logOffset` is the page viewed, `logOffsetRef` its mirror for the timer, `logs` the
  rows shown, `pollFilters` the filters the timer's handler sees. A deletion carries the filters
  of the render its button was pressed in, with which the rows are fetched afterwards.
- `ChannelsPage`: `from` in the form is history: the row that the form was filled from.
- `PlaygroundPage`: `pollers` are the `setInterval`s of videos, each with the polls it has
  asked and not had answered. `chatRouted` is history: the model of chats was chosen on the page
  of the routes, which offers any.
- The refresh buttons follow the loading flag of their page, which the answer to *any* fetch lowers,
  as in the code.

## 3. Runs

| run | instance | question |
|---|---|---|
| `breaker` | 1 channel, 4 callers, threshold 3, cooldown 2 | streak, sole probe, gate, never shut out |
| `breaker_herd` | 3 callers, threshold 2, cooldown 1 | *violated*: canaries are limited at any age |
| `dispatcher_concurrent` | 2 requests of kind `http`, 2 channels, upstream refusals | reports, trips |
| `dispatcher_fallback` | 6 models, cyclic and long fallback maps, 2 tables | trail, no repetition, bound |
| `dispatcher_live` | 1 request, 2 channels, 2 models falling back to each other, clients that leave | first token, liveness |
| `dispatcher_clients_leave` | 1 chat request | *violated*: only upstream faults trip a breaker |
| `wallet` | 2 workers, 2 users, a code and an order, both databases | credits |
| `wallet_recharge` | the same on PostgreSQL | *violated*: an order is credited once |
| `usage_pipeline` | 2 replicas, 2 requests, queue 1, batch 2, stream 1, Redis | accounting of records |
| `usage_shutdown` | the same without Redis | *violated*: the exit leaves nothing behind |
| `cluster_sync` | 2 replicas, 1 change, 1 failure; or 1 replica, 2 changes | monotone memory, convergence |
| `console` | seven pages, one at a time, 2 to 4 gestures of the user on each | the pages' promises |

What they show:

- `breaker`: while closed, the count is the streak of reported failures
  (`ClosedCountsTheStreak`), although reports may meet the breaker in a state they were not
  made for. `SoleProbe`: one probe until the half-open period is older than two
  cooldowns. `ImplementsGate`: after a full streak nothing passes until the cooldown
  has gone by since the *latest* failure; a late success lifts this at once.
  `NeverShutOut`: the clock alone makes each channel available again.
- `dispatcher_concurrent`: `ProbeIsHeld` (no admission goes unreported, so a half-open channel
  always has the request in flight that will decide it), and `TripsOnUpstreamFaults`, which holds
  for this path because it treats 4xx as an answer.
- `dispatcher_fallback`: `TrailTellsTheCalls` over cut trails, several models and hops to either
  of two channels, `NoCallRepeated` up to letter case while tables change, `FallbackIsBounded`.
- `dispatcher_live`: `CommittedAfterFirstToken`: no other channel is called once a token
  has been passed on. `OnlyBodiesStall` names the places where a request can stay for
  ever: the writing of its own body and the reading of the answer's; `LeavingEndsTheRequest`
  says that the client's departure ends those too.
- `wallet`: `CodeCreditedOnce`, `BalanceHoldsTheVouchers`, and `RedemptionIsAtomic`, the
  implementation of `VoucherLedger`.
- `usage_pipeline`: `EveryRecordIsAccountedFor` is a balance: copies in memory, on the
  stream, in the database and given up add up to one per recorded request, or two if the
  answer to its `XADD` was lost. `ChargedOnce` and `GracefulExitIsDrained` follow the
  charges and the shutdown.
- `cluster_sync`: `NoRollback`, `ReadYourWrites`, `NotedMeansLoaded` (noting before
  loading is harmless unless the reload fails), each but for lists cut short, and `NoRollback` for
  the parts that are loaded under the mutex only; `Converges`, for all parts and after any of this.
  `PricesInForce`: where nothing fails, what the unlocked reload of one price handler takes out of
  force, its reload under the mutex puts back; until then an older price may be charged (section 5).
- `console`: `AsksOnlyWhatIsAllowed`, `OneAdjustmentAtATime`, `OneBalanceShown`,
  `CreditedOncePerPress`, `AdminTabsNeedAnAdmin`, `SavedWhereItCameFrom` and
  `OnlyTheUserTurnsPages` hold whatever answers are lost, late or overtaken.
  `SentWindowsUnambiguous` is what the form's check is worth: enough where both sides read the
  times alike. `StoredWindowsUnambiguous` is what the server's is worth: enough always.
  `PlaysOfferedModels` excepts a chat model that was set from the page of the routes, which takes
  any (section 5). `LoadingIsUnderWay`: refusals, lost answers, broken streams and tasks that never
  finish leave no flag up with nothing left to lower it; that the generation itself ends is not
  claimed, for its fetch has no deadline and neither has the gateway behind it.
  `TimerHasTheLastWord`: the logs' timer repairs what late answers did, and undoes a filter that
  was set since (section 5).

### Bounds

- Breaker: with 4 callers and threshold 3, a full streak, its canary and one more late
  report can be out together. Cooldown 2 gives ages before, at and after every comparison;
  ages are capped at `AgeCap`, past twice the cooldown.
- Dispatcher: two channels give first and second choice, in one tier or two; two requests
  give every pairwise race on a breaker. Six models exceed the limit of four; `m2` is `m1`
  in other letter case. Two maps and two tables suffice to change between any two
  hops. Names are wide enough that four of them overflow a trail. In `dispatcher_fallback` both
  channels answer chats and one of them embeddings; its breakers trip at the first failure, so
  that hops to either channel, alone or after the other, occur.
- Wallet: races are between two transactions or a transaction and a single statement.
  `MaxAdjust` bounds the other writers; the amounts 3 and 7 cannot be confused with them.
- Usage pipeline: a queue of 1 is full after one record, a batch of 2 is filled by two,
  a stream of 1 is trimmed. The retries of the Redis client library are not modelled.
- Cluster: a second change adds no new kind of race (periodic, subscriber and handler already
  reload at once around the first), except between the reloads that two price handlers make
  outside of the mutex: `MC_ClusterSync` therefore also has one replica with two changes and no
  failure. The replicas being alike, changes are made at the first. `MaxFaults` counts crashes and
  failing queries of running replicas; a start may fail each time. Two parts, one required and one
  optional, stand for the four that the code loads.
- Console: an instance explores one page and leaves the others as they opened; since pages share
  no modelled state, the state space is the sum of theirs (about 370,000 states). The gestures of
  the user are bounded: 4 on prices, providers and the playground, 3 on users, 2 on wallet,
  session and logs; timers, answers and effects are not. The races are between a first half, an
  answer and one more gesture, which two reach; prices need four to type two windows and save, the
  providers' form four to be left by one way and opened by another. A day has 4 "minutes" and an
  hour 1, so that windows can touch, overlap and wrap round midnight; among the texts typed are
  ones that the two sides read differently. Two models per modality, two keys and three
  catalogues; `MaxPolls` is 2 for 30, `MaxOverlap` 2 polls of one video in flight.

### Fairness

- `CircuitBreaker`: weak fairness of `Tick`, the clock. Callers need not do anything.
- `Dispatcher`: weak fairness of `Gateway(r)`, what a request's goroutine does with its
  own timers and context. Nothing is assumed of upstreams (not even that they take a request),
  clients, administrators.
- `ClusterSync`: weak fairness of the 10 s tick, and of the reloads of a replica taken together:
  queries answer or fail, and the mutex is handed to some waiting task. Redis, restarts and
  handlers, their own loading of prices included, get no fairness.
- `MC_Console`: while the page of the logs is open its timer fires, and its requests are served and
  not refused for ever (strong fairness: other requests come between). Users need not do
  anything. The other pages have no liveness property and assume no fairness: in particular
  nothing says that a generation of the playground is ever answered.

Deadlock is checked in all runs except `console`, where the bound on gestures ends a page
that has no timer.

## 4. Proofs

**`CircuitBreaker_proofs`** proves, for any callers, channels, threshold and cooldown,
`TypeCorrect`, `StreakCounted`, `SoleProbeHolds` and `ImplementsGateHolds`. None of the properties
is inductive. `IInv` adds `SlotTaken` (the canary slot of a half-open channel is always taken, and
a call is only marked as a probe while its channel is half-open) and `ClocksAgree` (an open
channel entered its state when its latest failure was reported, and a half-open one has been quiet
for a cooldown), which relates `LastStateChange` to the gate's clock. Each action has a lemma;
`ReturnFact` and `AdmissionFact` carry what a report and an admission leave alone. The refinement
maps each step to the gate's step of the same name; the interesting case is an admission by an
open channel, where `ClocksAgree` turns the age of the state into time since the last failure.

**`Dispatcher_proofs`**. Every step is a `CircuitBreaker` step or leaves its variables alone, by
the way the actions are written (lemma `DrivesBreakers`), so `BreakersHold` carries the breaker
theorems over to the composed system without repeating their proofs. The invariant behind it,
`RequestsOK`, says that a request that is in a call has a candidate at the head of its queue, on
which it will report, and a model. `TypeCorrect` adds the history, and stands in for a run of the
module's type invariant.

**`Wallet_proofs`** proves `TypeCorrect`, `CodesAreCreditedOnce` and `RedemptionIsAtomicHolds` for
any number of workers and users and finite sets of codes and orders on both databases. The
invariant: a code whose row is held is still active for everyone else (`MarkedIsActive`), at most
one worker holds it (`OneHolder`), what `Credit` found of the user is still so at the commit
(`HitIsCurrent`), and a code is redeemed for a user; so the commit that credits a code finds
`credited = 0` and leaves the code used. The refinement maps the commit of a redemption to
`Redeem` and all other statements of it to stuttering.

`NoMoneyIsLost` proves `BalanceHoldsTheVouchers`: over what administrators and deductions made of
it, a balance holds at least the worth of every code used by and every order completed for its
user on either database, and exactly that on SQLite. The invariant `MoneyInv` adds three parts to
the types and the parts above: a code that is not used yet names nobody (`UnusedIsNobodys`, so
that using it adds one voucher to one sum), an order is completed in the name of its owner
(`CompletedForTheOwner`), and, with the one connection of SQLite, one transaction runs at a time,
so that an order it completes is not paid yet, and an order that is not paid was not credited
(`OneConnection`). The last part gives `OrdersAreCreditedOnceOnSQLite`: finding 3 of section 5 is
a matter of PostgreSQL alone.

**`Dispatcher_proofs`**, the history. Four more theorems need to know what a request has called so
far. `LogsOK` states it for each request and its log: the models of the log are a chain of the
models tried, each once up to letter case (`Chained`); for the model in hand, the channels called
and the candidates that remain are disjoint and without repetition (`Unrepeated`); the trail
carried in the context is the log, cut as `withChannelTrail` cuts it (`Told`). `NoCallIsRepeated`,
`FallbackEnds` and `TrailsTellTheCalls` follow state by state, `CommitsAfterFirstToken` step by
step. `ProbesAreHeld` assumes that no request is a stream and that every channel is callable, for
the code keeps the promise only there: a stream may be given up without a report
(`dispatcher.go:536`), a channel that is not callable is passed over after its admission
(`dispatcher.go:341`). `TripsNeedUpstreamFaults` has its hypotheses likewise: finding 2 of section 5
has its limits. While nobody leaves, and no answer is a refusal or all requests are of
`DispatchHTTP`, a closed breaker trips only on as many upstream faults in a row as the threshold
says. The invariant `FaultsCounted` says that no client is gone, that no request is reading the
body of a refusal, and that the streak of a channel is its count of upstream faults; with
`ClosedCountsTheStreak`, carried over from the breaker, the report that trips it fills that
streak. Neither hypothesis can be dropped: a client that leaves counts as a failure in every kind,
a 4xx in the others (section 5).

**`UsagePipeline_proofs`** proves `TypeCorrect`, `EveryRecordAccounted`, `ChargedAtMostOnce` and
`DrainedOnExit`, for any finite set of replicas, any requests and capacities, with and without
Redis. The account is the invariant: `PipelineInv` is the types, `EveryRecordIsAccountedFor`
itself, that a request that is still handled has not recorded (`HandledFirst`, so that a record
enters the account once), and what a stopping replica has still to do (`Winding`). Each action has
a lemma that says what it moves (`Moves`): the copies of a record in the memory of one replica, in
the stream, in the database and given up keep their sum, and the other replicas are left alone
(`OthersAlone`). `ChargedOnce` follows from the account, since what is charged is a part of the
sum. What appending, taking the head and cutting do to the number of copies are lemmas, proved by
bijections between index sets.

**`SumTheorems`** has the laws of `SumFunctionOnSet` that both accounts need: its type, `SumSame`,
`SumSplit`, `SumChange`. The library defines a sum by recursion over the set, and induction is out
of the prover's reach. The proof goes round it: the units that are summed up can be counted
(`Units`, a set of pairs), the count satisfies the equation of the recursion, and so does nothing
else, since a least set on which two solutions differ would have a smaller one (`AddsOnlyOnce`,
from the well-foundedness of the subsets of a finite set). So a sum is a cardinality, and splits
as sets do.

**`ClusterSync_proofs`** proves `TypeCorrect`, `NeverRollsBack`, `WritesAreRead` and `NotedIsLoaded`
for any replicas, handlers and parts. The invariant `SyncInv` adds to the types which tasks run
in which phase of a replica (`Lifecycle`); that memory is at most what a reload holds, unless that
was cut short, and that at most the database (`Ordered`), which needs the mutex; and that a
reload started after a change has seen it as far as it has got, and what it installed is not taken
back (`Loads`, with `SyncedKept` for handlers and `SubscriberLoads` for the subscriber). `Ordered`
and `NeverRollsBack` are about the parts loaded under the mutex only (`Guarded`): for prices they
are false (section 5). `WritesAreRead` and `NotedIsLoaded` are about channels
and keys, which are among them.

**`ConsolePages_proofs`** has the pages for users, wallet, logs, providers and the session, each
from an invariant of its page: `AdminTabsAreGuarded` (a token is never without its user, in the
page or in the storage, `TokensHaveUsers`, which keeps a late answer from leaving an
administrator's tab to nobody), `AsksAreAllowed` and `AdjustmentsAreSingle` (the flag is up
exactly while one adjustment is out), `OneBalance`, `PaidOncePerPress` (finite sets of requests,
counted), `SavedWhereFrom` (the form knows the row that is edited), `TheUserTurnsPages` (the
mirror is the offset), and the types of the five pages.

**`Console_proofs`** has the prices, the playground and the whole. `ServerCheckMakesUnambiguous`:
the server's check is as strong as its engine needs, over days and hours of any length and
whatever `Atoi` makes of the texts (a window that wraps is split in two segments, and two windows
that the check lets pass have no segments that meet on a common day); hence
`StoredAreUnambiguous`, from the invariant that every rule stored was accepted.
`ChecksMakeUnambiguous` says the same of the form's check where the two sides read the times alike
(`ReadAlike`), hence `SentAreUnambiguous`; without that hypothesis it is false (section 5).
`OfferedModelsArePlayed`: the effects that choose a model run before the next press, so the model
in hand is offered, unless none is, or it is the chat model the page of the routes has set; the
invariant `PlayInv` adds the types, and that the tables name models only.
`LoadingEndsWithItsCause` is inductive with the types. `PagesAreThemselves`: a step of the console
is, for each page, a step of it or a stutter, so `ConsoleSpec` implements the specification of
every page. This lifts all of the above to the specification that the run checks (`ConsoleSpec`,
to which the run adds the fairness of the logs' timer): `ConsoleTypeCorrect` and
`ConsoleKeepsItsPromises`.

Assumptions are the named `ASSUME`s of the modules: threshold and cooldown are
positive, names are distinct from the null values, amounts are positive, capacities are
positive, tables have their types; replicas, codes and orders are finitely many, and the rows of
users have the fields of the table.

Only model-checked:

- liveness (`NeverShutOut`, `OnlyBodiesStall`, `LeavingEndsTheRequest`, `Converges`,
  `TimerHasTheLastWord`), out of the prover's reach;
- `PricesInForce`, whose induction over the price handlers of a replica is still to be written;
- what is violated.

Every other invariant and safety property of steps that a passing run checks is stated by a
theorem.

## 5. Where the code departs from what is said of it

Shown by a run:

1. `circuit_breaker.go:130` "Limit concurrent canary probes to prevent herd stampede":
   once a half-open period is older than two cooldowns, each `CanExecute` gives up the
   canary and lets another through, because giving up does not refresh `LastStateChange`
   (`breaker_herd`).
2. `docs/HA_ARCHITECTURE.md:74`: the upstream failing three times in a row opens the
   breaker. A client that leaves counts as a failure of the channel, and of every other
   candidate after it (`dispatcher_clients_leave`).
3. `repository.go:1313` "Already completed (idempotent)": two deliveries at once credit
   an order twice on PostgreSQL (`wallet_recharge`).
4. `docs/HA_ARCHITECTURE.md:97`: the log buffer is drained before the exit. A request that
   outlives the ten seconds of `Shutdown` records after the drain (`usage_shutdown`).

Noticed while reading, with no run of their own:

- `admin_handler.go:978` "模型计费单价配置已保存并实时生效" (saved and in force in real time): a
  reload of the engine by another price handler, outside of the mutex (`admin_handler.go:973`),
  that read before the change and installs after the answer takes it out of force. The other
  handler's own reload under the mutex puts it back (`PricesInForce`), or the next one should
  that fail.
- `docs/CONFIGURATION.md:35` has two half-open probes before closing; the threshold is
  fixed at 1 (`circuit_breaker.go:178`).
- `README.md:158` has no way from OPEN to CLOSED; a late success takes it
  (`circuit_breaker.go:116`, part of the gate: a success lifts the ban).
- `README.md:59` speaks of 500, 429 and timeouts; chat, embedding and rerank count a 4xx as a
  failure too (`openai.go:81`).
- `docs/HA_ARCHITECTURE.md:75` has a stalled upstream lead to a fallback; the body of a
  non-streaming answer is read without a deadline (`OnlyBodiesStall` names the place).
- `sync.go:32` "atomically": a reload installs part after part, and a failing query leaves the
  first ones new; a list whose rows break off is installed as far as it was read and reported as a
  success (`repository.go:161-178`, `267-279`). The error of the second listing of keys (line 50)
  is ignored, and handlers answer 200 whatever the reload returned.
- `redis.go:127` has the version heal missed broadcasts; one that was missed before the
  subscription, or whose reload fails, is healed by the ticker of `sync.go` only.
- `repository.go:1379-1402`: two requests can use one verification code.
- `repository.go:604-634`: the costs of keys whose owner is gone are charged to the last
  tenant seen with the key in the batch.

In the console, likewise:

- `App.jsx:349-351` "polls must fetch the page being *viewed*": the timer fetches the offset that is
  viewed with the filters of the render it was made in (`App.jsx:672`, whose effect does not depend
  on them), so that a filter set since is undone by the next tick while its control still shows
  it. `TimerHasTheLastWord` is what holds.
- Signing out is not final: a late answer of `/user/me` stores the token again, a late wallet
  answer sets `adminUser`; a late 401 of an old token ends a new session; and the user shown may
  belong to another token, against "Unified token & user" (`App.jsx:206`).
- An expired session goes unnoticed after the console was entered from the landing page: the
  poll's closure keeps the old `viewMode`.
- `App.jsx:1310` calls `fetchKeys`, and `App.jsx:2708` `setSelectedLog`, which do not exist: a key
  that was created is reported as failed. `handleDeleteKey`, `handleToggleStatus`,
  `handleCreateChannel` and `handleDeleteChannel` do not look at the response.
- Pressing twice creates a provider twice. A late probe puts its models into whatever form is
  open, a late success closes or empties it (prices, quotas, providers, account, routes). The
  dashboard opens the provider form as a cancelled edit left it.
- Prices: deleting one rule leaves its tick; a discount of 0 becomes 0.5; "08 :30" is 8:30 to the
  console and 0:30 to the server, so the form may pass windows that the server refuses as
  overlapping, and a window that is stored may apply at other times than those shown.
- Users: an administrator other than the built-in one may lock himself.
- Model routes: a new row of the mapping is filtered out before it can be filled in; saving
  unbinds a provider that was added meanwhile, and sends a fixed price of 0 and default prices
  when the list of prices could not be loaded.
- Playground: `App.jsx:2755` sets the chat model to a model of any modality, so that the select
  shows another one than is sent. A key typed while there are none is ignored
  (`App.jsx:411-417` against `2965-2975`). Polls of a video overlap: a late one ends another
  generation's loading and overwrites its output, and more polls than the limit are asked,
  which is tested on answers.

## 6. Not modelled

Nothing to model: telemetry and logging (nothing reads them), trace headers, login tokens (no
state), the embedding of the console, `ServiceStatus`, the landing page and the integration
page (texts), database schema and migration. Request validation, the adapters of
formats and the event translation of providers are stateless, large, and their subject is the
wording of messages.

Parts with state that have no module:

- The quota tracker and the order of checks in `AuthMiddleware`, the rate limiter: their
  protocols run in Lua scripts in Redis or in a local map, one indivisible step per reservation.
  A reservation left behind when Redis fails between taking and giving back would be the
  subject of a model.
- The pump of a provider's stream: `Dispatcher` has its first event, silence, error and end,
  not the 64 events between, nor the SSE state of the Anthropic endpoint.
- The selectors of the load balancer: `Dispatcher` holds for any order within the tiers, so
  nothing rests on them. The queue and the close flag of an MCP session; the prober's jobs.
- How a batch of usage is split over keys, owners and tenants, prices of groups, amounts:
  arithmetic on one batch. Two such transactions can wait for each other on PostgreSQL
  (`repository.go:591`), listed as a hazard: the rows of a batch are not modelled.
- Verification codes and registration; seeding of an empty database.
- Console: the model routes (a form in the manner of prices and providers over the tables of
  both), keys, export as a command, what pages show.
- Order numbers that coincide (`wallet_handler.go:744`) and a webhook that answers 200
  although the order was not completed (`wallet_handler.go:1070`): listed as hazards; no
  document states what should happen instead.
