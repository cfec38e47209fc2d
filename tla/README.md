# A TLA+ model of helpers_bot_project

Four Telegram bots, a Celery worker and an admin API share one library
(`helpers_core`), one PostgreSQL database and one Redis. This directory holds
TLA+ modules that model the parts of that system in which order, concurrency or
failure matter, TLC configurations that check them on small instances, and
proofs, checked by TLAPS, of what holds for every value of the constants.
`PROJECT.json` maps every definition to the lines it models. Paths below are
relative to the repository.

- [1. The system](#1-the-system)
- [2. Modules](#2-modules)
- [3. Runs](#3-runs)
- [4. Bounds](#4-bounds)
- [5. Fairness](#5-fairness)
- [6. Proofs](#6-proofs)
- [7. Where the code and its documentation disagree](#7-where-the-code-and-its-documentation-disagree)
- [8. What is not modelled](#8-what-is-not-modelled)
- [9. Plan](#9-plan)

## 1. The system

| Component | State | Operations | Talks to |
|---|---|---|---|
| Circuit breaker (`helpers_core/http/circuit_breaker.py`) | `_state`, `_failures`, `_opened_at` under an `asyncio.Lock` | `call` = `_precheck`, the coroutine, `_on_success` or `_on_failure` | each HTTP client has one |
| HTTP client (`helpers_core/http/client.py`) | the aiohttp session and its pool, the retry state of each request, the in-flight gauge | `start`, `close`, `request` and the per-method shorthands | the breaker, a remote service |
| Task reminders (`worker/runtime.py`, `worker/tasks.py`, `helpers_core/messaging/celery_app.py`) | messages of the broker, unacknowledged deliveries, the run of each worker, one transaction per run | beat posts a message a minute; a run lists the due rows, sends, retires, commits; retry, acknowledge, redeliver | RabbitMQ as broker, PostgreSQL, Telegram |
| Repositories and sessions (`helpers_core/domain/repositories.py`, `helpers_core/db/session.py`) | rows of `users`, `tasks`, `magazines`, subscriptions; one `AsyncSession` per unit of work, one connection of the engine's pool per session in use | `get_or_create`, `list_due`, `deactivate`, `set_balance`, `session_scope`, ... | PostgreSQL at READ COMMITTED |
| Worker processes (`celery_app.py`, `worker/tasks.py`, `db/session.py`) | `_task_start_times`, the engine and its pooled connection, one event loop per task | signal handlers, `_run_async`, replacement after 500 tasks | the broker, PostgreSQL |
| Rate limiter (`helpers_core/cache/throttler.py`) | one counter with an expiry per user, in Redis | `hit`: a Lua script, then the decision | shared by the replicas of a bot |
| Bot update pipeline (`helpers_core/telegram/bootstrap.py`, `middlewares/`, `*_bot/handlers/start.py`) | one task, session and transaction per update | four middlewares around the `/start` handler | PostgreSQL, Redis, Telegram |
| Bot processes (`*_bot/__main__.py`) | polling task, stop event, bot session, Redis, engine | `_run`: start, wait for a signal, stop polling, close one resource after another | the update pipeline |
| Token encryption (`helpers_core/security/crypto.py`, `db/types.py`) | the list of Fernet keys, cached per process | encrypt with the first key, decrypt with any, rotate | the token columns of `magazines` |
| Subscription gate (`helpers_core/telegram/subs_check.py`) | answers of `getChatMember` cached in Redis for ten minutes | look up, ask, judge, store | Telegram, Redis |
| Marketplace clients (`helpers_core/marketplaces/`) | several HTTP clients, one per host, each with a session and a breaker | `start`, `close`, one method per endpoint, the mapping of statuses to errors | HTTP clients |
| Admin API (`admin_api/`) | its engine's pool, its Redis client | `GET /users/{tg_id}`, `/readyz`, the lifespan | PostgreSQL, Redis |
| Settings, logging, telemetry; schema and deployment | none over time | | |

How they interact:

- **Calls.** A marketplace client calls `HttpClient.request`, whose retry loop
  calls `CircuitBreaker.call`, which calls back `_attempt`. Every `await` in
  that chain lets other requests of the same client run.
- **Messages.** Beat posts a dispatch message every minute. The worker
  acknowledges it late, so the broker delivers it again after a crash, a lost
  connection or a time limit, and a failed run posts it again with a countdown.
- **Shared rows.** All bots write one `users` table. The unique index on
  `tg_id` and the row locks are the only things that order their transactions.
  Two runs of the worker share the `tasks` rows in the same way.
- **Shared keys.** Replicas of a bot share the counters of the rate limiter.
- **Callbacks.** aiogram calls the middlewares, each of which calls the next:
  logging, errors, throttling, session, handler. An error passes the session
  middleware (rollback) before the error middleware swallows it.

What is hard here, and what makes each component correct:

| Component | Hard behaviour | Correct if |
|---|---|---|
| Circuit breaker | calls settle long after the state they were admitted in; cancellation settles nothing | it opens exactly at the threshold, admits nothing while the last failure is recent, and can neither stay open nor stay half open once the service is back |
| HTTP client | a timeout leaves open whether the server acted; the breaker may open between two attempts; `close` races with requests | a POST is written once; counters and the pool are exact on every path, also after a close that comes back late; the last error is raised only after the last attempt; everything ends |
| Worker processes | module globals outlive the event loop of a task; a retry may run in another process | the start times stay bounded and give the latency of the run that ended; no dispatch is lost to a connection |
| Task reminders | redelivery while the first run goes on; crash between send and commit; clock read at run time; one bad row | nothing is retired unsent; duplicates come only from scanning a minute twice; one bad send does not stop the others; messages drain |
| Repositories, bots | two first messages of a user at once; commit after the answer; cancellation in a commit | who was answered is stored, who was not leaves no trace, a name is not lost, no update waits for ever |
| Token encryption | processes with different keys during a rotation; one unreadable row fails a whole list | every process reads in every row what was stored last |
| Marketplace clients | a start or a close that fails halfway; one host's outage beside healthy ones; retries between an answer and the error it becomes | errors say of the token what is true, each breaker follows its own host, a close that runs to its end leaves no session |
| Subscription gate | a status that changes between Telegram's answer and its storage; answers that overtake each other on the way to the cache | an answer is one that was true at most a cache period and the flight of one SET ago |
| Units of work (Admin API, `set_balance`) | a pool with an end; a connection held while Redis is silent; a read that is stale when its row is written | no connection is lost, a change that succeeds was in force, no lookup or change waits for ever |
| Rate limiter | late replies, lost replies, restart with lost writes, window boundary | no immortal counter, at most twice the limit, no denial without more scripts than the limit, forgiveness |

The `hazards` list in `PROJECT.json` names each of these at its line, with the
properties that cover it.

## 2. Modules

```
CircuitBreaker  <-- BreakerCalls  --refines--> BreakerPromise
      ^                  ^-- MCBreakerCalls
      |                  ^-- BreakerProbes  <-- MCBreakerProbes (2 configurations)
      |                  ^-- BreakerCallsProofs
      +-- HttpClient  --refines--> RequestPromise
               ^-- MCHttpClient
               ^-- HttpClientProofs
WorkerProcess <-- MCWorkerProcess (2 configurations), WorkerProcessProofs
TaskDispatch  <-- MCTaskDispatch, TaskDispatchProofs
BotUpdates    <-- MCBotUpdates, BotUpdatesProofs
Marketplaces  <-- MCMarketplaces, MarketplacesProofs
RateLimiter, SubscriptionGate  <-- MCRedis, RedisProofs
KeyRotation, UnitsOfWork       <-- MCDatabase, DatabaseProofs
      ^-- KeyPrepend <-- MCKeyPrepend
```

**CircuitBreaker** has the three fields of `_BreakerState` and one action per
critical section of the lock: `Precheck`, `OnSuccess`, `OnFailure`. `opened_at`
is kept as the time elapsed since, up to `ResetTimeout`, because the code only
ever compares the difference with `reset_timeout`; `Elapse` is the monotonic
clock. It is a module without a specification of its own and is composed with
the two that use it.

**BreakerCalls** runs any number of concurrent `call`s over it: admitted or
refused, then settled by a result, by an exception, or by a cancellation that
settles nothing (`CancelledError` is not an `Exception`). **BreakerPromise** is
the abstract specification, without the three states: a call is refused only if
the last `FailureThreshold` settled calls have failed, and always while the
latest of those failures is younger than `ResetTimeout`. What the code and its
docstring decide differently it leaves open: how many probes there may be, and
whether a call that was admitted before the trip still counts after it. A breaker
written to the letter of the docstring would implement it as well; `BreakerCalls`
does under a refinement mapping. **BreakerProbes** adds the calls that
were admitted in half open (`probes`, a history variable) and states the two
sentences of the docstring that the code does not keep.

**HttpClient** is `request` step by step, split at its `await`s: the checks
before the first attempt, the breaker, waiting for a connection, writing the
request, the answer, `_read_json`, the backoff, the next attempt or the error.
`start` and `close` are actions too, with the point inside `close` where the
session is closed and not yet forgotten. A second `close` in that moment goes
through at once, a cancelled one forgets nothing, and one that comes back after the
next `start` forgets the new session: `closers` counts those that wait. `pooled` is
the use of the connector's pool, `inFlight` the gauge, `cut` the requests whose
session was closed under them, `adrift` those whose session was forgotten while
open; `wire` counts, as an observation, how often each request was written to a
connection.
**RequestPromise** is what is left of a request for the task
that calls `get_json` or `post_json`: its method, how often it went out, its
answer. An `ok` is of a request that went out, a POST once; a POST refused by
the breaker did not go out; nothing goes out after an answer. HttpClient
implements it: connections, sessions, breaker and backoff are hidden, and a
request under way has the answer "pending".

**TaskDispatch** is the task from beat's message to its acknowledgement. State:
the minute, the broker's messages, unacknowledged deliveries, the run of each
worker (its phase, the minute it read from the clock, the rows it has listed,
the rows it has retired in its transaction), the committed rows, the row locks,
and what Telegram has accepted. Actions: beat, receive, list, visit a row (fire
or skip), send, deactivate, commit, retry, acknowledge, redelivery, and the
faults: a crash, a lost connection, either time limit, a failing send, a failing
database, a failure behind the commit.

**WorkerProcess** is what a pool process of the worker keeps from one task to the
next: `_task_start_times` with the three signal handlers, and the module-level
engine, whose pooled connection belongs to the event loop of the run that made
it. A run that meets the connection of a closed loop fails and throws it out
(the pre-ping fails with a RuntimeError, which the pool re-raises); one that is
older than `pool_recycle` is replaced. Retries, heartbeats, killed processes and
their replacement after `worker_max_tasks_per_child` tasks are actions. What the
run does in between is TaskDispatch, where such a failure is `DatabaseFails`;
the theorems of TaskDispatch hold for any number of them.

**RateLimiter** is one key with its callers. The script is one step because
Redis runs it in one; the sending, the reply, its loss, the expiry and a restart
that loses the newest writes are steps of their own. The counter saturates just
above the limit, since nothing tells larger values apart.

**BotUpdates** composes the processes (`_run`) with the updates they handle and
the `users` table they share. A step is what a task does between two suspension
points. `inserted` and `renamed` are what an open transaction has written;
`Blocked` is the wait of an INSERT for another transaction that has inserted the
same unique key. `Exit` is the end of `asyncio.run`, which cancels what is left,
a commit under way included.

**KeyRotation** has the setting `FERNET_KEYS` as the operator last wrote it, the
cipher each process has built from it, and the ciphertext in each row: its key
and what it says. A tuple of keys is its first key and the set of all, since
nothing else of the order matters. A process starts with the setting of that
moment and keeps it (`get_settings`, `_cached_cipher`); it stores, lists and
rotates rows. The operator is external and careful: a new key is appended,
promoted once all have it, and replaces the others once all use it. **KeyPrepend**
has the operator of the docstring, who prepends the new key at once.

**Marketplaces** has the two facades, Wildberries with five hosts and Ozon with
one or two. `owner` is where the task that owns the facade is between `start`
and the end of `close`, `at` the host whose session `close` waits for; `session`
is `_session` of each client, as in HttpClient. `CloseFrom` is one stretch of
`close` up to its next await: clients without a session and closed ones are
dealt with on the way. A call goes through argument check, breaker, attempt,
retry, `_read_json` and `_map_http_error`. Its requests are those of HttpClient without the
pool. Of each breaker the failures in a row (`streak`) remain: what a caller can
see of a breaker is BreakerPromise, in which a tripped one refuses or, after
its timeout, admits, so both are allowed. The observations `silent` and
`trouble` count what a host did whatever the code makes of it, and `vouched`
remembers the token an attempt was sent with.

**SubscriptionGate** is one user and channel, hence one key of the cache, and any
number of handlers in `is_subscribed`, split at its awaits: GET, `getChatMember`,
SET with an expiry. Telegram's failures are an answer that is not cached;
Redis's, and cancellations, leave open whether the SET was done. The membership
changes at any time. `flight` is how long an answer has been on its way to the
cache, `lag` an observation: for how long an answer has not been true.

**UnitsOfWork** is the Admin API with its pool: lookups and readiness probes, and
with them calls of `set_balance` in a `session_scope`, which has the shape of the
API's own `db_session`. A connection is taken with the first statement and given
back when the session closes. A probe holds it over its PING, which has neither
answer nor error while Redis is silent. `set_balance` reads, then inserts or
updates; the unique index and the row lock are `writer`. No code in the
repository calls `set_balance` yet (`repositories.py:3-7` says who may). `Terminate`
and `Shutdown` are uvicorn's: it stops accepting, then waits for the requests
under way. `seen` is an observation: the changes whose value was the committed one since
they began.

Definitions called `Faulty_...` and marked `Variant` are not part of any
specification: each is a plausible mistake in the code of the operation it stands
before, and shows which property would notice it.

## 3. Runs

| Run | Configuration | Asks |
|---|---|---|
| `breaker_calls` | `MCBreakerCalls.cfg` | Do concurrent, late and cancelled calls keep the breaker's promise (`KeepsPromise`)? Does it recover once the service does (`RecoversAfterOutage`) and probe in any case (`ProbesEventually`)? |
| `single_probe` | `MCBreakerProbes_probe.cfg` | Is there one probe at a time in half open? No. |
| `refused_for_timeout` | `MCBreakerProbes_timeout.cfg` | Does an open breaker stay open for its timeout? No. |
| `http_client` | `MCHttpClient.cfg` | Is every answer true of what went out, and a POST written once (`AnswersAreTrue`)? Are the gauge and the pool exact on every path (`NothingLeaks`)? Is nothing sent past an open breaker (`OpenBreakerAdmitsNothing`), does every request end (`EveryRequestEnds`)? |
| `task_dispatch` | `MCTaskDispatch.cfg` | Is a row retired only after Telegram accepted it (`RetiredOnlyAfterDelivery`)? Do duplicates need a minute scanned twice (`DuplicatesNeedRescans`), and is a one-shot reminder sent once otherwise (`OnceSentOnce`)? Does each completed scan deliver what is due (`EveryScanDelivers`)? Do the messages drain, deadlocks over row locks included (`WorkDrains`)? |
| `worker_process` | `MCWorkerProcess.cfg` | How many start times can a process collect (`EntriesBounded`), and is a latency that of the run that ended (`LatencyOfLastRun`)? |
| `nothing_given_up` | `MCWorkerProcess_calm.cfg` | Is no dispatch given up while nothing fails around it? No. |
| `redis` | `MCRedis.cfg` | The two clients of Redis. Can a key lose its expiry (`NoImmortalKey`)? How many hits pass in a window (`BurstBound`)? Has every denial more scripts than the limit behind it (`DenialsAreEarned`), and is it forgiven (`ForgivenEventually`)? How old can an answer of the subscription gate be (`AnswersAreFresh`)? |
| `bot_updates` | `MCBotUpdates.cfg` | Does a refused answer leave no row (`RefusedLeaveNoTrace`)? Does an update fail only for a row that is really there (`FailureNeedsWinner`)? Is a handled user stored (`HandledIsStored`), a name kept (`NamesAreKept`), and does every update end (`EveryUpdateEnds`)? |
| `marketplaces` | `MCMarketplaces.cfg` | Does an endpoint return only on a token that was good when it was sent, and is the authentication error raised only of a revoked one (`TokenIsJudgedRightly`)? Does each breaker count every attempt that got no response of its own host, and nothing of another (`BreakersFollowTheirHosts`)? Does a complete close leave no session, whatever failed before it (`CloseClosesAll`)? |
| `database` | `MCDatabase.cfg` | The tokens and the units of work. Does every process, before, during and after a rotation, read in every row what was stored last (`ReadsBack`)? Was a change of the balance that succeeded in force (`SetTakesEffect`)? Does the pool get every connection back (`UnitsTypeOK`), and does every lookup and change end (`EveryUnitEnds`)? |
| `no_downtime` | `MCKeyPrepend.cfg` | Is there no downtime when a key is prepended? No. |

Runs that answer "no" are expected to end with a counterexample; each of the
others must end without one. `mutants` in `PROJECT.json` gives, for every
property of a passing run, a `Faulty_...` definition under which that property
fails in the same configuration.

`redis` and `database` each hold two modules that share no variable, no key and
no row: what the one does can neither enable nor disable anything in the other.
`MCRedis` and `MCDatabase` therefore let each take all its steps while the other
has not begun or is back where it began, instead of every interleaving of the two.
The fairness is that of the two modules, for the limiter's clock as long as the
limiter is the one that is checked.

Four more properties are stated in the modules and proved, and checked by no run
of their own: `TrippedAtThreshold`, `WrittenAtMost` (what `AnswersAreTrue` allows
to go out, by attempts), `RaisesAfterLastAttempt` and `EndedTasksAreForgotten`
(section 6).

`CHECK_DEADLOCK FALSE` is set where the modelled system stops: in `TaskDispatch`
the clock ends at `LastMinute`, in `BotUpdates` every process exits.

## 4. Bounds

| Run | Instance | Why it is enough |
|---|---|---|
| `breaker_calls`, `single_probe`, `refused_for_timeout` | 3 calls, threshold 2, timeout 2 ticks | two calls trip the breaker while a third is still under way; every call can be repeated, so histories are unbounded; a timeout of 2 has a tick in its inside |
| `http_client` | 2 requests, 2 retries, 1 connection, 1 call of close waiting at a time, threshold 2, timeout 2 | one request waits for the other's connection; a task begins a new request when one has ended, so histories are unbounded; the breaker opens between the attempts of either; the last attempt differs from the one before; the waiting close is overtaken by another and by a start |
| `task_dispatch` | 2 workers, days of 2 minutes, last minute 2, 1 retry, and one of two histories (`MCInit`): a one-shot, a daily and a malformed row with 1 fault, or two one-shot rows with none | the run crosses midnight once; two runs overlap in one minute; a fault can fall into every step of either; two one-shot rows are the smallest cycle of locks, and a deadlock needs no fault. The fault budget covers crashes, lost connections, time limits, failing sends and failing databases together |
| `worker_process` | 2 processes, 2 messages, 2 retries, 3 tasks per process, any number of faults | a task is retried in its own process, in the other, and ends in either, before and after a replacement; leaks of ended messages add up |
| `nothing_given_up` | 4 processes, 1 message, 3 retries, 3 tasks per process, no faults | the concurrency and the retries of the code; 3 tasks let a process come to hold a connection and meet it |
| `redis`, limiter | 2 callers, limit 2, window of 3 ticks, 3 scripts a tick, 1 restart | one tick can exceed the limit; a window starts at every offset to the three ticks the property looks at |
| `bot_updates` | 2 bots, 1 user, 3 updates with two names and no name, 1 fault | rows of two users never meet, so one suffices; two inserts race while a third update finds or does not find the row |
| `marketplaces` | 2 callers, threshold 2, 1 retry; endpoints `ping`, `list_feedbacks`, `answer_feedback`; a bad base URL for the second host or none | each facade, with a GET and a POST on one host and a second host beside it; a start that fails halfway leaves a session open before the bad host and none behind it; tasks call again when a call has ended |
| `redis`, gate | 2 handlers, cache period 3 ticks, a SET's flight at most 2 | the handlers' answers overtake each other; an entry expires between them, is overwritten late, and is hit in its last tick |
| `database`, units | a lookup, 2 probes, 2 changes to different values, 2 connections | the probes alone can empty the pool; two changes race to insert, and to update |
| `database`, keys; `no_downtime` | 2 processes, 2 rows, 3 keys, 2 values | one process runs with the old setting while the other starts with the new one; a second rotation can begin in the middle of the first; a rotated row and one that still has an old key exist together |

`LastMinute`, `MaxFaults`, `MaxClosers`, `MaxPerTick`, `MaxRestarts`, `MaxFlight`,
`Used` and `BadUrls` are bounds of the models, not of the program; everything else is a
parameter of the code. In the modules the bounds appear only in guards and in
initial states. `Abandon` of Marketplaces has one in its guard as well: `close`
is abandoned once until one runs to its end. `MaxFlight` is also part of what
`AnswersAreFresh` says: nothing in the code limits the way of an answer to the
cache but the timeouts of the clients.

## 5. Fairness

| Module | Assumption | Why |
|---|---|---|
| BreakerCalls | time passes; a call that is under way settles; tasks keep calling; the calls that no outage has touched are not all cancelled | the clock is monotonic; the total timeout of the session bounds each call; without further calls there is nothing to recover for |
| HttpClient | a wait inside `session.request` or for a body ends, if only by its timeout; a backoff ends; a `close` that waits goes on (or is abandoned); time passes | asyncio runs ready tasks; the total timeout of the session (30 s by default) ends every wait, the one for a connection included; a backoff is a finite sleep |
| TaskDispatch | beat posts; a running worker goes on; the clock advances | beat and the workers are services with `restart: unless-stopped`; requests to Telegram time out and the hard time limit of the task ends a run |
| RateLimiter | time passes | the expiry is Redis's own |
| BotUpdates | the task of an update goes on when it can | Telegram requests time out; the only unlimited wait for PostgreSQL is `Blocked`, and it is a guard, so fairness does not resolve it by itself |
| UnitsOfWork | a wait for a connection ends; a statement that waits for nobody, and a commit, is done or fails; one that waits for a row gets its turn (strong fairness) | `pool_timeout` ends the wait, and PostgreSQL goes on by itself; its locks are first come, first served |

Marketplaces and SubscriptionGate assume none: what is asked of them is safety.
No fault is fair: none has to happen. No run depends on a request that succeeds.

## 6. Proofs

All theorems are of the form `Spec => []Inv`, `Spec => [][A]_vars` or an
implementation, for any set of calls, requests, workers, rows, callers or
updates and any value of the other constants that satisfies the module's
assumptions.

| Theorem | Says |
|---|---|
| `BreakerCallsProofs!TypeCorrect`, `FieldsAgree` | the breaker's fields stay in step: open means tripped, closed means below the threshold |
| `BreakerCallsProofs!ImplementsPromise` | `KeepsPromise`: every step of the breaker with its calls is a step, or a stutter, of `BreakerPromise` |
| `HttpClientProofs!TypeCorrect` | types of the client |
| `HttpClientProofs!NoDuplicateWrites` | `WrittenAtMost` |
| `HttpClientProofs!NoEarlySurrender` | `RaisesAfterLastAttempt` |
| `HttpClientProofs!CountersExact` | `NothingLeaks`: the gauge and the pool are exact |
| `HttpClientProofs!NoAttemptWhileOpen` | `OpenBreakerAdmitsNothing` |
| `HttpClientProofs!KeepsRequestPromise` | `AnswersAreTrue`: every step of the client is a step, or a stutter, of `RequestPromise` |
| `TaskDispatchProofs!TypeCorrect` | types of the dispatch |
| `TaskDispatchProofs!NeverRetiredUndelivered` | `RetiredOnlyAfterDelivery` |
| `TaskDispatchProofs!DuplicatesHaveScans` | `DuplicatesNeedRescans` |
| `TaskDispatchProofs!SendsOnceOnce` | `OnceSentOnce` |
| `TaskDispatchProofs!ScansDeliver` | `EveryScanDelivers` |
| `BotUpdatesProofs!TypeCorrect` | types of the bots, updates and the table |
| `BotUpdatesProofs!NoTraceOfRefused` | `RefusedLeaveNoTrace` |
| `BotUpdatesProofs!Stores` | `HandledIsStored` |
| `BotUpdatesProofs!LosersHaveWinners` | `FailureNeedsWinner` |
| `BotUpdatesProofs!KeepsNames` | `NamesAreKept` |
| `WorkerProcessProofs!TypeCorrect` | types of the worker's processes |
| `WorkerProcessProofs!LeakIsBounded` | `EntriesBounded` |
| `WorkerProcessProofs!ForgetsEnded` | `EndedTasksAreForgotten` |
| `WorkerProcessProofs!MeasuresLastRun` | `LatencyOfLastRun` |
| `RedisProofs!KeyTypeCorrect` | types of the limiter |
| `RedisProofs!EveryKeyExpires` | `NoImmortalKey` |
| `RedisProofs!BurstsAreBounded` | `BurstBound` |
| `RedisProofs!NoUnearnedDenial` | `DenialsAreEarned` |
| `RedisProofs!GateTypeCorrect` | types of the subscription gate |
| `RedisProofs!NoStaleAnswer` | `AnswersAreFresh` |
| `DatabaseProofs!RotationTypeCorrect` | types of the setting, the ciphers and the rows |
| `DatabaseProofs!AlwaysReadsBack` | `ReadsBack` |
| `DatabaseProofs!UnitsTypeCorrect` | types of the units of work, the size of the pool among them |
| `DatabaseProofs!SetsTakeEffect` | `SetTakesEffect` |
| `MarketplacesProofs!MarketTypeCorrect` | types of the facades, their calls and the counts |
| `MarketplacesProofs!TokensAreJudgedRightly` | `TokenIsJudgedRightly` |
| `MarketplacesProofs!BreakersKeepToTheirHosts` | `BreakersFollowTheirHosts` |
| `MarketplacesProofs!NoSessionIsLeft` | `CloseClosesAll` |

A proof module is about one component, but for two of them: RedisProofs has the
two components that keep a key in Redis under an expiry, DatabaseProofs the two
whose processes meet in rows of Postgres. They extend both modules, which is why
definitions of SubscriptionGate and UnitsOfWork have names of their own
(`GateSpec`, `UnitsSpec`, `GateTypeOK`, ...).

Assumptions: `ThresholdAssumption` and `TimeoutAssumption` (CircuitBreaker),
`RetriesAssumption`, `PoolAssumption` and `ClosersAssumption` (HttpClient), `FiniteAssumption` (the
set of requests is finite, needed to count it), `DispatchAssumption`,
`LimitAssumption`, `WindowAssumption` and `BoundAssumption` (RateLimiter),
`UpdatesAssumption` (BotUpdates), `RotationAssumption` (KeyRotation),
`WorkerAssumption` (WorkerProcess, whose messages are finite because entries are
counted), `MarketplacesAssumption`, `SubscriptionGateAssumption` and
`UnitsOfWorkAssumption`. TLC evaluates each of them in the runs. Each says what
the types of the settings say: a threshold, a limit, a window, a cache period or
a pool is at least 1, a number of retries is a number, values that stand for
"none" are no value. The units of UnitsOfWork may be infinitely many: only
connections are counted.

The inductive invariants:

- **BreakerCalls**: the type invariant and `TrippedAtThreshold`. The latter is
  inductive only because a success resets all three fields at once and a
  failure compares with `>=`.
- **HttpClient**: `BreakerInv` (the above, with a lemma for each critical section
  of the breaker), the types of the data, `AttemptInv`,
  `GaugeExact` and `PoolInv`. `WrittenAtMost` is not inductive: it bounds the
  writes of a request by its attempts, and the attempts by the configuration,
  but does not say whether the next write or attempt is still allowed.
  `AttemptInv` adds that: an attempt that waits for a connection has not been
  written, and a request that sleeps has an attempt left. The two counters owe
  their types to being exact. The refinement needs `Tried` besides: a request
  under way has had an attempt (so that only a GET is ever retried), and one
  with a response has been written (so that `ok` is of a request that went out).
- **TaskDispatch**: the type invariant, `RetiredOnlyAfterDelivery`, which covers
  the rows that open transactions have retired, and `KnowsDelivered`: a run that
  is past Telegram's answer is at a row that was delivered, and one that waits
  for a row lock at a one-shot row. Without it the flush could retire anything.
  `ScansPay` is the account behind two more theorems: what was sent of a row and
  what open runs may still send of it (`Pending`) is at most the scans of its
  minute, and exactly that while an undisturbed row fires every day. Every step is first
  shown to be one of three for each row: quiet, a scan, or a delivery (`RowStep`).
  `OnceSentOnce` needs another invariant, `Undisturbed`: one run at a time, and a
  one-shot reminder that was sent is retired, or about to be, and on no list.
- **BotUpdates**: the type invariant, the properties, and `TableInv`, what an
  open transaction knows of the row it is about: an inserted row is the only one
  of its user and not committed, and a transaction that is past its flush
  without an insert has seen a row. `HandledIsStored` needs the second half (its
  commit may write nothing), `NamesAreKept` the first (an insert without a name
  replaces no name). `Traced` names, for every stored row, the update that may
  have stored it, which is `RefusedLeaveNoTrace` turned around. Every step is
  first shown to commit a set of updates, perhaps none, and to end them
  (`RowStep`), so that each invariant meets the table in one place only.
- **WorkerProcess**: `EntriesPaid` bounds the entries of a process, leaked ones
  included, by the tasks it has served; `worker_max_tasks_per_child` bounds
  those. `BusyIsTimed` says that a process at work has the entry of its run,
  which needs `OneProcess`: nobody else works on the same message.
- **RateLimiter**: the type invariant, `ExpiryMatches` (the key has an expiry
  if, and only if, it exists; `NoImmortalKey` alone would let the expiry of an old
  key pass to a new one) and `PassedAreHits`, which bounds an observation. For
  the other two properties `BurstInv` splits the window at the birth of the key,
  which the expiry dates (`KeyAge`): the scripts let through since are those the
  counter has counted, up to the limit, and those it has lost; those before it
  are of one earlier key at most, as far as the window reaches.
  `CounterInv` is the other direction: the counter counts only scripts run in the
  life of the key. `BurstBound` alone is not inductive, since it does not say how
  much room the present key still has.
- **SubscriptionGate**: the type invariant and how old an answer may be at each
  station: none when Telegram gives it (`NowIsNow`), as many ticks as it has been
  on its way to the cache (`FlightIsRecent`), and then as many more as its expiry
  has gone down (`CacheIsRecent`). A tick adds to the age and takes from the
  expiry; a late SET replaces both at once.
- **KeyRotation**: the type invariant, `TokensShared` (the key of each row is
  known to every running process and is still in the setting, so that a process
  which starts later knows it too) and `KeysShared` (the same of the keys the
  running processes will encrypt with, and every running process knows the
  setting's first key). `ReadsBack` is the part of `TokensShared` that speaks of
  the present; the rest is why `Start`, `Store` and `Drop` keep it.
- **UnitsOfWork**: the type invariant, with the finiteness of `out`, and three
  facts about the sets under way. `Witnessed`: one that finds its balance
  committed, at its beginning or by another's commit, has noticed. `EndsWell`: one
  that is about to commit has noticed, or holds the row's lock with its own value
  written. `Roles`: only sets write and only probes ping, or a probe could come to
  an end that `EndsWell` speaks of. `SetTakesEffect` says nothing of a set before
  it returns, which is where it would be broken.
- **Marketplaces**: three invariants, by who changes the variables. Of the owner,
  `InTurn` (the hosts before the one `close` is at have no session) and
  `NoStrangers` (nor have the hosts of the other facade), which with the last step
  of `close` give `CloseClosesAll`. Of the calls, `Judging`: as long as the token is
  good, every attempt under way was sent with a good one, and a status that is
  being read still says so. Of the hosts, `BreakersFollowTheirHosts` with the
  types, which is inductive because all three counts saturate at the threshold.

Checked by TLC only: the liveness properties `RecoversAfterOutage`,
`ProbesEventually`, `EveryRequestEnds`, `WorkDrains`, `ForgivenEventually`,
`EveryUpdateEnds` and `EveryUnitEnds` (fairness and ENABLED are beyond the
prover), and the four runs that end with a counterexample. Every safety property
and every action property of the other runs is proved. `BurstBound` and
`DenialsAreEarned` count scripts with `Cardinality` for the sake of the proof: a
sum over the ages would be a fold, and what a fold computes takes an induction
that the prover cannot instantiate.

## 7. Where the code and its documentation disagree

| Run | Documentation | Code |
|---|---|---|
| `single_probe` | `circuit_breaker.py:12`: half open, "a single probe call is allowed" | `_precheck` turns callers away in the open state only: whoever comes in half open is let through |
| `refused_for_timeout` | `circuit_breaker.py:10`: open, "calls are refused for `reset_timeout` seconds" | `_on_success` closes an open breaker too, when a call admitted before the trip succeeds after it |
| `nothing_given_up` | `tasks.py:33`: a fresh loop per call is "sufficient for the extracted jobs at hand" | each run leaves a connection of its closed loop in the process-wide pool and the next one fails on it; a dispatch that meets one in each of the four processes has no retry left |
| `no_downtime` | `crypto.py:9`: rotating is "a config change (prepend the new key) — no downtime" | a restarted process encrypts with the new key at once, and the processes not yet restarted cannot list the rows it writes. `database` shows the order of steps that has no downtime: append, restart all, promote, restart all, re-encrypt, drop |

More are visible in the models without a run of their own:

- A 5xx answer to a POST is returned, hence a success of the breaker
  (`docs/ARCHITECTURE.md:82`: it "prevents queue build-up during outages"). All of
  Ozon's endpoints are POST: its breaker only ever trips on silence.
- A run takes the minute from its own clock (`runtime.py:43`), so that a late
  message scans a later minute a second time and its own is never scanned, where
  `repositories.py:118` finds H:M enough "because the scheduler ticks at minute
  granularity".
- The error middleware sits on `dispatcher.update` (`bootstrap.py:78-80`), where
  the event is an `Update` and not a `Message`: the user of a failed update is not
  notified (`docs/ARCHITECTURE.md:104`: "notifies the user").
  `ThrottlingMiddleware` finds no `from_user` there and lets every update pass, so
  `BotUpdates` has no limiter in it; `RateLimiter` models the class itself.
- `/readyz` holds a connection of the pool while it waits for Redis, and its client
  has no socket timeout. With Redis silent, probes can take the whole pool and keep
  a process from ending its graceful shutdown, which is why `EveryUnitEnds` leaves
  them out (`health.py:4-5`: anything expensive there "would be a
  self-inflicted outage").
- `ping` of either facade is False for any error of the domain, an outage or a rate
  limit as well as a refused token. `TokenIsJudgedRightly` is about True only.
- The limiter's `current` counts scripts, which `throttler.py:37` calls the "number of
  requests inside the current window". A script that the Redis client sends again
  after a broken connection counts twice, so that a single request can be denied:
  `DenialsAreEarned` is about scripts.
- "rotation converges naturally without a dedicated backfill job"
  (`crypto.py:12-14`), and `crypto.py:42` speaks of a "read-repair". Reading
  re-encrypts nothing, nothing calls `needs_reencryption`, and an update writes
  only the columns that have changed: a token that stays the same keeps its old
  key. `Drop` of KeyRotation therefore waits for an external re-encryption.
- `wildberries/client.py:10` has circuit breaking "per seller-client instance"; each
  facade has a breaker per host (`BreakersFollowTheirHosts`), so that an outage
  of one host leaves the others reachable.
- `close` forgets the session the client has when it comes back (`client.py:146`), not
  the one it has closed: one opened by a `start` in between is never closed, and
  `NothingLeaks` is about the pool of the session the client knows. Nothing in
  the repository shares a client between two owners that close it.
- A "restricted" status counts as a member, also of a user who has left
  (`subs_check.py:47`: "Return whether `user_id` is a member").

## 8. What is not modelled

- Formats, log records, metrics other than the gauge, and the content of
  messages and endpoints.
- Jitter and length of backoffs and countdowns: a sleep ends after any time.
- PostgreSQL beyond what the code relies on: unique indexes that make an INSERT
  wait, row locks, READ COMMITTED, deadlock detection.
- Redis beyond the script, the expiry and a restart that loses whole scripts.
- aiogram's own FSM middleware, webhooks and the confirmation of updates to
  Telegram; in `BotUpdates` each update is handled at most once.
- Configuration parsing, logging and the schema: no behaviour over time.
- Of the Admin API: the liveness probe, the metrics endpoint and the kinds of its
  error answers; of the repositories: queries no process runs together with
  another that they could meet, such as `TaskRepository.add`.
- Of the marketplaces: payloads, and the error class of a 429 apart from other
  errors of the API.
- The way of Redis's answer to the GET of the subscription gate: it is a step with
  the GET, as a longer way only makes the answer older by as much.
- In WorkerProcess, the same message in two processes at once (a delivery after a
  lost connection): TaskDispatch has it, for the rows; the start times are kept
  per process.
- How a run ends at the soft time limit: it is a rollback at once, where the connection
  of the abandoned coroutine, and its row locks, may last until it is collected.
- What handlers that still run open again behind `_run`'s clean-up (the bot's session,
  a connection of the engine): `open` of BotUpdates is how far `_run` has got.
- The pool of an HTTP session that was forgotten open; what is sent through it is
  modelled.
- Who rotates keys and re-encrypts rows: no code of the repository does, so
  KeyRotation has an external operator.

## 9. Plan

BotUpdates: updates that Telegram hands out again to the next process.

Each module keeps the conventions of the present ones: an assumption per
parameter, one action per operation, invariants as conjunctions of named parts,
no RECURSIVE operator.
