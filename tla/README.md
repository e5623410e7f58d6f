# TLA+ models of the crawling platform

The repository is a pnpm monorepo (TypeScript) for a platform that crawls Weibo,
cleans and analyses what it finds and shows statistics of it. This directory
holds TLA+ modules that model the parts of it in which several things happen at
once, TLC configurations that check them on small instances, and theorems about
them that TLAPS has checked for every value of the constants.

Contents: [the system](#1-the-system) · [which module models
what](#2-modules-and-the-code-they-model) · [the runs](#3-what-the-runs-show) ·
[where code and docs disagree](#4-disagreements-found) · [the
proofs](#5-what-is-proved) · [limits](#6-what-is-not-shown) · [the
plan](#7-plan) · [running it](#8-running-it)

## 1. The system

```
 users ─► api (GraphQL) ─► weibo_search_tasks ◄─► broker ──crawl ranges──► crawler
                            (PostgreSQL)           │  (RabbitMQ)            │ runs workflows
                                                   │                        ▼
 admin, web, bigscreen ◄── api ◄── statistics ◄── aggregator ◄─ analyzer ◄─ cleaner ◄─ raw documents
                                  (PostgreSQL, Redis)    (events over RabbitMQ)         (MongoDB)
```

Users create *search tasks* through the API. Once a minute the broker looks for
tasks that are due and publishes the range of time that each has not been
crawled for yet. The crawler takes such a message and runs a *workflow*, a graph
of nodes (pick an account, build a URL, drive a browser, parse HTML, publish
what was found) with a loop for the next page. Raw documents go to MongoDB; an
event per document leads the cleaner to store normalised posts in PostgreSQL,
the analyzer to judge them and the aggregator to count them by hour, day and
window, with a cache in Redis. Every arrow between processes is a RabbitMQ queue
reached through `packages/rabbitmq` (or its older client).

### Inventory

The last column says what the models make of a component: *modelled* or *partly*
(section 2), or the reason for neither (section 6 says more).

| Component | State | Operations | Hard behaviour | Correct when | |
|---|---|---|---|---|---|
| Connection pool (`packages/rabbitmq/src/connection-pool.ts`) | state, connection, channel, reconnect timer, health intervals | connect, cleanup, scheduleReconnect, health check, close | callbacks between any two awaits; overlapping dials; a broker that stops answering | the channel it hands out is alive; a lost connection is replaced; close is final; one connection at a time | partly |
| Consumer (`consumer.service.ts`) | subscriptions, unanswered deliveries, retry counts | consume, handleMessage, handleError, resubscribe | channels replaced under a running handler; redelivery | no message is lost or acknowledged unhandled; one handler at a time | modelled |
| Workflow execution (`packages/workflow-core`, `workflow.service.ts`) | states and outputs of nodes, iteration counters | schedule, execute, executeWorkflow, resumeWorkflow | handlers of a batch in any order; loops; failures and throws; resumes; standstill | inputs are fresh; nothing is run twice, left behind or falsely reported stuck; it ends | partly |
| Workflow records (`workflow.service.ts`) | row of the definition, its copy in Redis, execution record | upsert, run, resume | a copy written before its transaction commits; a crash between two writes; two resumes of one execution | a record tells what happened; the copy is the row | modelled |
| Search tasks (`apps/broker`, `weibo-search-task.service.ts`) | rows of tasks and subtasks, runs in progress | execute, dispatchSubTask; create, update, delete, pause, resume, runNow, pauseAll, resumeAll | overlapping executes; stale rows; rollbacks after a publish; users racing the scheduler; restarts | no hole and no overlap in what is crawled; a due task is served | partly |
| Aggregation (`apps/aggregator`) | hourly, daily and window rows, marks of seen messages | consume, aggregate, roll up | check and mark far apart; marks and messages that expire; read-modify-write under READ COMMITTED; retries after commits; errors acknowledged | a message is counted once, and none is forgotten | partly |
| Account health (`weibo-account.service.ts`, `account-health.service.ts`, `account-health-scheduler.service.ts`, `weibo-health-check.service.ts`) | rows of accounts, a sorted set of scores | select, deduct, expire, recover, validate, check, log in, delete | pop, look and put back as separate calls beside pipelines that write old scores and rows | no account is lost, none is used after it was retired | partly |
| Login sessions (`weibo-auth.service.ts`, `jd-auth.service.ts`, their session storages) | browser context, timer, subject, record in Redis | start, events of the page, save, time out | handlers and a timer racing to end one session; record updates that read and write back | one ending, no context left open, a record that tells the end | partly |
| Screen editor (`apps/admin/.../canvas.service.ts`, `screen-editor.component.ts`) | store, save timer, save in progress, pages | edit, save, retry, undo, load, leave | answers after further edits; saves overtaking each other; a store that outlives its page | "saved" is true, and true of the right screen | partly |
| Publisher (`publisher.service.ts`, `rx-producer.ts`) | none of its own | publish, publishBatch, next | confirmations nobody waits for | – | the channel it is handed is the pool's (`NoDeadChannel`) |
| Legacy client (`legacy-client.ts`) | connection, channel, flag | connect, publish, consume | a lost connection has no listener: consumption never resumes | – | its consumption is in `HourlyStats` |
| Dead letters (`dlq-manager.service.ts`, `failed-task-retry.service.ts`) | messages in hand, task statuses | list, retry, delete | two users in one queue; publish and save as two steps | each dead letter is retried or deleted at most once | those of the analysis results are in `HourlyStats`; the rest is one person's tool, its consumer never subscribed |
| Lock, rate limiter, priority queue (`packages/workflow-nestjs`) | keys and sorted sets of Redis | acquire, release; check; push, pop | `setnx` and `expire` apart; release by a former owner; count and add apart | – | used by a workflow nothing instantiates |
| Raw documents (`raw-data-source.service.ts`, `raw-data.consumer.ts`) | status of a document | create, process, complete, fail | a crash between cleaning and the status | – | one document and one writer at a time |
| WebSocket client (`packages/components/src/websocket`) | socket, state, streams | connect, reconnect, refresh token | – | – | the reconnection is socket.io's |
| Aggregate scheduling (`aggregate-scheduler.service.ts`) | four cron jobs | publish the window before now | – | – | stateless; nobody consumes what it publishes |
| Workflow compiler, builder, editor | graphs | pure construction | – | – | only the edges reach the scheduler |
| Crawler workflows | a browser, HTML, HTTP | handlers of nodes | overlapping runs of consecutive messages | – | handlers are outcomes in `WorkflowScheduler` |
| Persistence of posts, database access | rows; one shared DataSource | one transaction of upserts; `useDataSource` | two first callers initialise it | – | PostgreSQL's semantics |
| Analyzer, crawler analysis, graph analytics | – | formulas over records | – | – | no interaction |
| Task status | – | a consumer without a producer | – | – | dead code |
| Accounts, users, API keys, screens, events, bugs | rows | single statements | – | – | no interaction |
| Notifications, monitoring, metrics | counters, sockets | fan-out, reads, logs | – | – | output only |
| Core (dependency injection), error handling, clients of Redis, MinIO, LLM and Weibo, shared libraries | providers; none | sequential calls | – | – | no interaction |
| Front ends, deployment | – | rendering, files | – | – | – |

`PROJECT.json` lists the same components with their files, and the hazards of
the code at the lines where they bite. Each hazard names the properties that
would fail if it struck, and, where the code does not withstand it, the premise
with which the property holds.

## 2. Modules and the code they model

| Module | What it is | Code |
|---|---|---|
| `ConnectionPool` | one process's connection and channel, amqplib around it | `connection-pool.ts`, `rabbitmq.service.ts` |
| `RabbitConsumer` | EXTENDS the pool with one queue, its consumers and handlers | `consumer.service.ts` |
| `AtLeastOnce` | what a queue with acknowledgements promises (abstract) | – |
| `WorkflowScheduler` | one execution of a workflow graph under either driver | `workflow-core/src/execution/*`, `executor.ts`, `workflow.service.ts` |
| `MCWorkflowScheduler` | the graphs TLC runs it on | test and production graphs |
| `SearchTaskScheduler` | the broker's interval scheduler beside the API's task operations | `core/scheduler.ts`, `simple-interval-scheduler.service.ts`, `weibo-search-task.service.ts`, `main.ts` |
| `CrawlCoverage` | what the requests to crawl must add up to (abstract) | – |
| `HourlyStats` | aggregators, one keyword's hour and day | `message-idempotency.service.ts`, `transaction.service.ts`, `hourly-` and `daily-aggregator.service.ts`, `analysis-result.consumer.ts`, `legacy-client.ts`, `dlq-manager.service.ts` |
| `AccountHealth` | the accounts' rows and their sorted set, everybody who touches them | `weibo-account.service.ts`, `account-health.service.ts`, `weibo-account-init.service.ts`, `account-health-scheduler.service.ts`, `weibo-health-check.service.ts`, `main-search.workflow.ts` |
| `LoginSession` | one login by QR code, of either service | `weibo-auth.service.ts`, `jd-auth.service.ts`, the two session storages |
| `ScreenEditor` | the editor's store and its saves | `canvas.service.ts`, `canvas.store.ts`, `screen-editor.component.ts`, `snapshot.service.ts`, `screens.service.ts` |
| `WorkflowRecords` | what is stored of a workflow and of its executions | `workflow.service.ts`, `runPostDetailWorkflow.ts`, entities |
| `MCHourlyStats`, `MCLoginSession`, `MCWorkflowRecords` | the symmetries TLC uses | – |
| `*_proofs` | theorems and their proofs, one module per component, the pool's with the consumer's | – |

`RabbitConsumer` composes the consumer with the pool, and the proofs of the one
build on those of the other, in `RabbitConsumer_proofs`. `SearchTaskScheduler`
composes the broker with the API, and `AccountHealth` crawlers, broker and API,
each over the rows they share. `WorkflowRecords` stands beside
`WorkflowScheduler`: where the one has a graph that runs, the other has only how
far it is and how it ends.

Everywhere an action is a stretch of code between two awaits. JavaScript runs
such a stretch without interruption, so interleaving actions is exactly the
concurrency the code has. Definitions carry the names of the functions they
model; `PROJECT.json` maps each to its lines. Definitions commented as *mutant*
or *mutation* belong to no behaviour of a specification: each is a plausible
mistake (a dropped guard, a missing reset, an off-by-one) in the definition next
to it, and for each checked property there is one that makes TLC refute it, so
the property is known to be able to fail.

### ConnectionPool

| State | Code |
|---|---|
| `pool.state`, `.connection`, `.channel`, `.timer` | the four fields of `ConnectionPool` |
| `intervals` | live health check intervals (each dial starts one, only the last handle is kept) |
| `dial[k]`, `target[k]` | where the *k*-th `connect()` past its early return waits, and for which object |
| `conn[k]`, `chan[k]` | amqplib's objects of that dial |
| `closer`, `muted` | where `close()` waits; whose listeners it removed |
| `initialized` | `RabbitMQService.isInitialized` |

Actions: `OnInit`, `TimerFires`, `HealthTick` (the three callers of `connect()`),
`DialOk/DialFail` and `OpenOk/OpenFail` (the answers of `amqp.connect` and
`createConfirmChannel`), `CleanupChannelClosed/CleanupConnectionClosed` (the two
awaits of `cleanup()` in the catch clause), `ConnectionLost`, `ChannelLost`, and
`OnDestroy`, `CloseChannelClosed`, `CloseConnectionClosed` for `close()`. The
listeners are functions from the pool's fields to its fields and are applied in
the order amqplib emits: `error` and `close` of a connection and the `close` of
its channel come in one turn of the event loop. A `close()` whose peer dies
first never settles (`Hung`).

amqplib and the broker are external; they are modelled by what the pool can see.
Left out: the listeners for `blocked` and `unblocked`, which only forward an
event, the formatting of the status, and the end of the process on an unhandled
rejection.

### RabbitConsumer

One queue with the messages `Msgs`, all ready at first. `Consume` and
`Subscribed` are the two halves of `consume()`, called by the application once
and by the `connected` listener on each reconnection; `Deliver` is the broker
within the prefetch limit of 1; `HandlerReturns` and `HandlerThrows` are
the two ends of `handleMessage` with `handleError`. A message in a handler
carries the channel object captured at the start and the delivery tag of the
channel that delivered it; tags count from 1 on every channel, so an
acknowledgement on the wrong channel may name another message or none, and then
the broker closes that channel. `PoolStep` is any step of the pool, at which the
broker requeues what a dead connection held. `SlowHandlers` says whether a
handler may outlive a redial; the five seconds of the timer make that a question
of how slow handlers are.

`AtLeastOnce` has no connection, channel or tag: a pending message goes away
only with a handler run that accepted or refused it, once. The refinement maps
`pending` to the messages ready or unacknowledged.

### WorkflowScheduler

A graph is a set of edges; an edge has no condition, the condition *source
succeeded*, or asks for a value of its source. `StartIteration` is the part of
`schedule()` up to its await, `HandlerReturns` and `Throw` are handlers settling
in any order, each with its reset of the targets in the shared graph
(`scheduler.ts:61-73`), `EndBatch` the merge after `Promise.all` with the
service's count of unchanged iterations, `ExceedLimit`, `Finish`, `SaveFailure`
and `resumeWorkflow` the rest of the service. `driver` chooses `execute()`
(`executor.ts`) or the service. After a throw, `orphans` are the handlers of the
rejected batch that still run and still write the graph.

The data on an edge is abstracted to `fresh[to][from]`: has the target started
after the source's latest completion? `out` keeps the one value of a node that
conditions ask for. The merge modes of multi-input properties and the database
row beyond its status are left out so far. `Grounded`, `LoopsBack`,
`RestartsTogether` and `EnteredFromReached` describe shapes of graphs, the premises
of section 5.

### SearchTaskScheduler

`run[r]` is one `execute()` in progress: when it began, the rows it still holds
and the subtask it has inserted but not committed. `StartUp`, `Tick`, `Load`,
`SaveSubTask`, `TaskGone`, `CommitSubTask`, `StatementFails` and `Exit` are the
broker; `Create`, `Delete`, `Pause`, `Resume` (also `runNow`), `PauseAll`,
`ResumeAll` and the two halves of `update()` are the API, each with the
statement it executes. PostgreSQL is external: statements are atomic,
transactions become visible when they commit, and the foreign key of a subtask
keeps a task from being deleted under it. `asked` is what was handed to the
producer, which happens before the commit and survives a rollback. All tasks
share one start date and interval. Left out: edits of the start date (ignored by
the code after the first crawl), of the interval and of texts, and the answers
of the API.

`CrawlCoverage` says what a task's requests add up to: each begins at the start
date or where an earlier one ended.

### HourlyStats

`job[i]` is the message process `i` has in hand and where the code that handles
it waits: `Deliver`, `CheckDuplicate`, `Begin`, `Save`, `Commit`, `Mark` and
`Ack` are its stretches, `Collide`, `Fail` and `UpdateThrows` what goes wrong and
how often it is tried again; `tries` and `txs` are the two nested retry counters.
A transaction reads the row in one step, takes the row's lock in another
(`Locked`) and shows its row at the commit. `Fetch` and `WriteDay` are the
rollup, `Shutdown`, `Stop`, `Start` the process, `GoDeaf` a lost connection of
the legacy client, `Republish` the analyzer. Two things end by themselves: a
message that has waited 30 minutes in the queue (`x-message-ttl` of
`setupQueue()`) moves to `dead`, its `.dlq` (`Expire`), and the key of a mark ends
after 24 hours (`MarkExpires`). There is no clock: either may happen at any time,
and each is one of the bounded `faults`. A person at the page of the dead letters
sends one back or deletes it (`RetryDead`, `DeleteDead`). A row counts *per
message*, so a message counted twice cannot hide one that was lost. Left out:
averages and keyword lists of a row, the window statistics, the caches (which
nothing fills), the metrics.

### AccountHealth

`status` is the row, `score` the sorted set, and each call in progress has its
place: `crawler[c]` runs `selectBestAccount()` or, for `Searchers`,
`getBestHealthAccount()` with what `MainSearchWorkflow` does afterwards;
`starter`, `recovery`, `validation` and `check` are the daemons. Every command
of Redis and every statement is a step, a pipeline is one step with what was
read before it. `unsynced` and `retired` are histories that the properties
need. `FindExpired`, `MarkExpired` and `Zrem` are the three calls of
`markAccountAsExpired()`; the last is made for a missing row too. Left out:
reports of scores, daily metrics, and operations without callers
(`recoverHealth`, `decreaseHealthScore`).

### LoginSession

One session. `stage` and `context` follow `createLoginSession`, `live` says that
the session is in the service's map with its timer armed, `task[p]` where each of
the parties is that may end it: navigations to the home page, the status check,
`page.goto` and the timer. `Finish` is what all of them share: the events of the
ending, `complete()`, and `cleanupSession()` up to its first await, whoever comes
first. `wire` holds the commands on their way to Redis in order; an update is a
GET whose answer sends the SET of the record as read, so updates can undo each
other. `publishing` holds events that the `redis` driver of `PubSubService` has
not confirmed. Left out: what `getSession()` writes when it meets an expired
record, cleanup jobs, contents of snapshots.

### ScreenEditor

The content of a canvas is the page it belongs to, a version `v` of what a save
sends, and `rest`: whether anything a save does not send differs from a new canvas.
A save sends the size of the canvas and of each component its id, type, position
and configuration (`ApiFormat`, for `performSave()` and
`convertComponentsToApiFormat()`), and the API replaces what it had by that; the
background, class name, attributes and description of the canvas, rotations,
locks, visibility, the children of groups and data sources stay in the editor.
`Edit` changes the one, the other or both and starts the timer in any case; what
`Loaded` shows has the rest of a new canvas, or the canvas' own attributes that
the page before has left behind. `debounce` is the 2.5-second timer, `save` the
save that the `switchMap` listens to, `requests` those on their way, `server`
what the API has. A request that the `switchMap` has forgotten is still applied,
but its answer is nothing to anybody (`Unheard`). `Retry` sends nothing, as the
code does: `retryWhen` subscribes again to a settled promise. `OpenPage`,
`LoadReads`, `Loaded`, `LoadFails` and `Leave` are the pages, `UndoOrRedo` puts
back a whole earlier store, any that the bounds allow to have been one
(`Snapshots`). Left out: geometry (the API rounds positions to whole pixels),
import and export, the keyboard.

### WorkflowRecords

`at[c]` is where a run or a resumption waits. `Find` to `Commit` are
`upsertWorkflow` with the row's lock, `Lookup` and `Refresh`
`getWorkflowBySlug`, `Create` to `Fill` the part of `executeWorkflow` outside its
try, `Iterate` to `CatchThrows` the part inside, `Resume` and `ResumeSaves`
`resumeWorkflow`. A graph is the number of steps done and a state. `LoseRedis`
and `Crash` happen at any time. `Open` also stands for the write of the
execution's state to Redis, which touches nothing the model has; `Open`, `Look`
and `Fill` are the three calls of `getWorkflow()`.

## 3. What the runs show

| Run | Question | Bounds |
|---|---|---|
| `consumer_fast` | When handlers end before a redial and only the network fails: is the consumer an at-least-once queue with one handler at a time, that drains, over a pool that is never stranded, keeps one connection, reconnects and closes for good? | 2 messages, 6 dials, 3 faults, 1 failing handler |
| `consumer_slow` | With slow handlers, channels closed by the broker and a health check: is the channel handed out alive, does the state tell the truth? | 1 message, 3 dials, 2 faults |
| `consumer_lost` | the disagreement of section 4 | 2 messages, 4 dials, 2 faults |
| `wf_any` | On every graph: fresh inputs, no false deadlock | all 729 graphs over 3 nodes, both drivers, throws, 6 iterations, 1 resume |
| `wf_real` | On the keyword search and all acyclic graphs over 4 nodes: nothing repeated, nothing left behind, deadlock only after a failure, fresh branches, termination | 65 graphs, 10 iterations, 1 resume |
| `tasks_any` | No hole, no overlap unless executes raced, no due task dropped, refinement of `CrawlCoverage` | 1 task, 2 overlapping executes, 1 fault, 2 requests, clock to 2 |
| `tasks_two` | Is a due task served whatever happens to the one before it? | 2 tasks, 1 execute at a time, 1 fault, 2 requests |
| `stats` | Is what is counted counted once, nothing forgotten, and the day within its hours? | 2 messages, 2 processes, 2 tries, 1 repeated transaction, 2 faults or expiries |
| `accounts` | Is an account never lost for good and never used after it was retired? | 1 account, a crawler of each kind, scores 0 and 1, 2 attempts, 2 calls beside a validation, 1 deduction, 1 crash |
| `login` | Is there one ending, no context left, and a record that ends right? | 2 navigations, both services and drivers, 1 event before the end, 1 fault |
| `editor` | Is what a save sends of what is shown as saved saved, in its own screen, and does every edit of it arrive or say that it did not? | 2 screens, 2 acts, 2 openings, 1 retry, 1 fault |
| `execution` | Does the cache follow the row, and does the record tell the truth? | 2 runs, 2 resumptions, 2 steps, 2 faults |

**Why the bounds are enough to be interesting.** Overlapping dials need a loss
while a dial is opening its channel or a health check that finds the channel
gone, so 3 dials with 2 faults contain them, with a
close among them; where only the network fails dials never overlap
(`ConnectionReuse`), and 6 of them with 3 faults are three losses in every order.
Tags collide on the second channel, so two messages and two channels show every
kind of wrong acknowledgement. Joins, branches, cycles and nested loops exist
over three nodes; diamonds and the production loop over four. The deadlock check
needs 3 equal iterations and the loops need at most 2 rounds to close, so 6 and
10 iterations reach both ends; the code's limit is 1000. Two executes are the
fewest that race; an interval of 1 and a clock of 2 let a task become due three
times. Two aggregators are the fewest that lose an update or handle one message
at once, two faults make a failed commit meet a lost mark, and a message that
expires and is sent back meet a mark that has expired, and the code's three
tries and three repetitions differ from two and one only in number. Accounts do
not interact but in which of them is popped and in the attempts a call has left, so
one account with two attempts shows a call that meets it twice; the proofs are for
any number. A second navigation is the
handler that comes late. Two openings are the fewest in which one screen's save
can meet another's page. Two resumptions overlap, and with two steps a record can
lag behind. For the safety properties named in section 5 the proofs remove the
bounds.

**Which action may stop.** Runs with `CHECK_DEADLOCK FALSE` are of systems that
come to rest: a drained queue, a finished execution, an ended session, an
editor whose acts are used up (a bound), counted messages. The search tasks never
stop and are checked for deadlock.

**Fairness.** `ConnectionPool!Fairness`: timers expire and each request to the
broker is answered or fails; no fairness on faults or on the application.
`ConsumerFairness` adds that the broker delivers and a handler ends.
`WorkflowScheduler!Progress`: straight async code goes on when it can, and a
handler settles (browser steps have timeouts); nobody has to resume.
`SearchTaskScheduler!Fairness`: the interval fires, statements are answered, time
passes, a begun `update()` is finished, and the container is started again
(`docker-compose.yml`: `restart: unless-stopped`). `AccountHealth!Fairness`:
calls that have begun go on and cron starts the validation every ten minutes;
nobody has to crawl, check or log in. `ScreenEditor!Fairness`: timers fire and a
request is applied, answered or fails. All of it is weak fairness. The
other modules state no fairness and check safety only.

**Properties.** The comment above each one names the code it is about. In short:

- `NoDeadChannel`, `StateTellsTruth`, `NeverStranded`, `ConnectionReuse`,
  `CalmCloseIsFinal`, `Reconnects`: what the pool promises:
  a live channel, automatic reconnection, one connection, an end.
- `OneHandler`, `AtLeastOnceDelivery`, `Drains`: the promises of the consumer.
- `FreshInputs`, `FreshBranches`: no node works on old inputs. `NoRepeat`: no work
  is done twice. `NothingLeftBehind`, `NoFalseDeadlock`,
  `DeadlockMeansFailure`: the verdict is right. `Terminates`,
  `EndsUnlessFailure`: there is one.
- `NoHole`, `NoOverlapUnlessRaced`, `DueMeansServed`, `DueIsServed`,
  `ImplementsCoverage`: crawling covers time once and goes on.
- `RowIsTheCommits`, `MarkedIsFinal`, `NoneForgotten`, `DayWithinHours`: counting
  is exact where the code makes it so, and the properties say where it does not:
  two transactions open at once, a mark that Redis denied or that has lived its
  24 hours, a message in two hands, in the dead letters or deleted from them, an
  acknowledgement during a shutdown or after the last try.
- `NoneLost`, `NoneRetired`, `AccountReturns`: the set of accounts.
- `OneEnding`, `NoContextLeft`, `EndingStored`, `CompletedIsSaved`: the end of a
  login, as told, as cleaned up and as recorded.
- `SavedTellsTruth`, `OwnContent`, `EditArrives`: what the editor says of its saves,
  of what these send; the rest of the canvas is shown as saved and never is.
- `CacheFollowsRow`, `RunIsAlone`, `RunningMeansRun`, `NeverGoesBack`: what is
  stored of a workflow.

A premise such as `~overlap` or `m \notin together` in a property is a history of
something the code allows and does not withstand. Each is reachable in the run
that checks the property, and dropping it makes TLC refute it; section 4 says
what happens then.

## 4. Disagreements found

One has a run, whose counterexample is the evidence; `PROJECT.json` quotes the
line it refutes.

- `consumer_lost` (`consumer.service.ts:99`): a handler that outlives a
  reconnection acknowledges with the tag of an old channel on a newer one, where
  the tag can name a message that no handler has accepted: the broker forgets it.

The others were met in the models or while reading. Where a property has a
premise for one, the premise is named.

*Connection pool and consumer*

- `connection-pool.ts:167`: the broker closes a channel while the timer of an
  older loss is pending and a newer dial has already set CONNECTED. No second
  timer is set, the pending one finds the state CONNECTED and returns, and the
  pool stays without a channel. `NeverStranded` therefore holds only where
  nothing but the network fails (`consumer_fast`).
- `consumer.service.ts:160`: the retry count is raised in the consumer's copy of
  the message and `nack` requeues the broker's, so a message that always fails is
  retried for ever.
- With lost channels, or a connection that `cleanup()` forgot, a message left
  unanswered at `consumer.service.ts:110` stays with the connection that is still
  open, so `Drains` holds only in the environment of `consumer_fast`.
- A `close()` in the middle of a dial is not final: the dial installs its
  connection afterwards. Only the calm case is promised. Health check intervals
  pile up, one per successful dial, and survive `close()`.

*Workflow execution*

- `executor.ts:58`: when a source of a join fails, `execute()` never leaves its
  loop; `__tests__/scheduler.test.ts:776` is named for the state fail.
  `EndsUnlessFailure` says so.
- A node whose incoming edges are all conditional runs in the first batch
  whatever its condition turns out to be (`dependency-analyzer.ts:34`;
  `__tests__/scheduler.test.ts:278` is named for the opposite).
- `FreshBranches` fails on the graph of `post-detail.workflow.ts:63-76`, where a
  node and its conditional source run in one batch; `NoRepeat` fails when a
  handler throws while another of its batch has succeeded and the execution is
  resumed. `wf_any` therefore checks neither.

*Workflow records*

- Redis failing after the final transaction (`workflow.service.ts:387`) leads to
  the catch block, which overwrites the recorded success with `fail`; the
  disjunct about `catch` in `NeverGoesBack`.
- A crash, or a failure between `create` and the try, leaves a record that says
  `running` for ever: `resumeWorkflow` refuses it, as its metadata is empty
  (`lost` in `RunningMeansRun`).
- An execution whose graph ended in `fail` is resumed by a loop that finds nothing
  to do, and is recorded as failed again.
- Two resumptions may overlap; the last to write decides (`overlapped`).
- The definition is cached before its transaction commits, and a reader may fill
  the cache with a row it read earlier (`torn`, `raced`); nothing corrects it for
  the cache's time to live. The second of two first runs is refused by the unique
  slug and ends.

*Search tasks*

- `NoOverlap` without its condition fails as soon as two executes overlap: both
  read the same row and ask for [0, 1) and [0, 2). The optimistic lock that
  `apps/broker/AI.md:19` mentions does not exist.
- `runNow()` or `resume()` between the query and the commit of an execute is
  overwritten for one interval; `DueMeansServed` excludes exactly that (`Stale`).
- A publish that fails is logged (`rx-producer.ts:33`), and the range counts as
  crawled: `NoHole` is about what was handed to the producer
  (`test/integration/README.md:41` asks for a rollback).

*Aggregation*

- Two transactions open at once lose an update (`overlap`); a message that is
  delivered again while its first consumer, gone deaf, still works on it is
  counted twice (`together`), and so is one whose mark Redis does not return
  (`misses`).
- A mark lives 24 hours (`message-idempotency.service.ts:90`): a message that comes
  again later, from the dead letters or from an analyzer that repeats itself, is
  counted again. `MarkedIsFinal` is about the mark while it lives.
- The queue has a time to live of 30 minutes (`legacy-client.ts:63`, `:87`): what
  no consumer takes in that time moves to `analysis_result_queue.dlq` uncounted and
  stays there until a person sends it back or deletes it. `NoneForgotten` allows
  both.
- During a shutdown, and after the last failed try, a message is acknowledged
  uncounted.
- The legacy client never reconnects: a process that lost its connection stays up
  and deaf until it is restarted. The decorators that name transactions and
  caches have no effect, and the cache of hours is invalidated but never written.

*Accounts*

- The API's check saves the whole row it read before asking Weibo
  (`weibo-health-check.service.ts:81`): it brings back an account that was banned
  or deleted meanwhile, with its status of before.
- `select` finds nothing while another crawler holds the only account between
  `ZPOPMAX` and `ZADD`, and the workflow of `WeiboAccountService` then fails for
  good. A crash in between loses the account until the next validation
  (`AccountReturns`).
- A deduction meanwhile starts from 0 and is overwritten when the account is put
  back; the recovery's pipeline writes scores read earlier.

*Login sessions*

- The account can be saved and the client be told of a timeout, when the timer
  fires between the save and the event; a navigation that fails after another
  has succeeded makes JD's record say `expired` although the account is saved.
  `CompletedIsSaved` is the direction that holds.
- With the driver `redis` a late event writes `active` back over the final
  status: `EndingStored` is about the driver `memory`. JD's record never holds the
  ending as its last event.
- A failing `newPage()` leaves its context open (the first disjunct of
  `NoContextLeft`); the API enables no shutdown hooks, so its sessions are not
  cleaned up at an exit.
- `cleanupExpiredSessions()` and `getStats()` call `getTime()` on what JSON has
  made a string (`weibo-session-storage.service.ts:277`) and fail on their first
  session.

*Screen editor*

- The retries promised by `README-error-handling.md:10` send nothing, see above;
  a save that fails for a moment ends as an error after seven seconds. The errors
  its lines 15 to 18 tell apart are all classified as retryable.
- A save leaves out most of what can be edited (`canvas.service.ts:1017`, `:1050`):
  the background, class name, attributes and description of the canvas, and of a
  component rotation, lock, visibility, group membership and data source. All of
  it marks the canvas dirty, starts a save and is shown as `saved` afterwards; the
  next load shows components unrotated, unlocked and ungrouped, the children of a
  group gone, and the canvas with the attributes of whatever screen was edited
  before. What the API had stored of data sources and the like is replaced
  (`screens.service.ts:149`). `SavedTellsTruth` and `EditArrives` are therefore
  about what a save sends (`ApiFormat`).
- Undo and redo put back the save status with the canvas and save nothing
  (`undone`); requests the `switchMap` has forgotten may be applied late
  (`overtaken`).
- A save of one screen may be sent as another's: when a screen is opened while
  the timer of the former runs, when it is edited before it is loaded, or when it
  cannot be loaded and the canvas keeps what it showed (`astray`).
- The answer to a save clears `isDirty` and says `saved`, whatever was edited
  meanwhile, and only the restarted timer makes up for it. If the save it starts
  then fails, the status is `error` with `isDirty` false, so neither the
  five-minute save nor the return of the network tries again.
- `forceSave()` and `manualRetrySave()` have no callers.

## 5. What is proved

The theorems hold for every value of the constants that satisfies the named
assumptions (`PoolAssumption`, `ConsumerAssumption`, `SchedulerAssumption`,
`SearchTaskAssumption`, `HourlyStatsAssumption`, `AccountHealthAssumption`,
`LoginAssumption`, `EditorAssumption`, `RecordsAssumption`), which only say that the constants have
their types and that sets of model values are disjoint where the code's names
are.

| Theorem | Property | For every |
|---|---|---|
| `PoolTypeCorrect` | `ConnectionPool!TypeOK` | number of dials and faults, environment |
| `PoolNoDeadChannel` | `NoDeadChannel` | " |
| `PoolStateTellsTruth` | `StateTellsTruth` | " |
| `ConsumerTypeCorrect` | `RabbitConsumer!ConsumerTypeOK` | messages, retries, slow or fast handlers, and the above |
| `ConsumerNoDeadChannel` | `NoDeadChannel` of the composition | " |
| `ConsumerStateTellsTruth` | `StateTellsTruth` of the composition | " |
| `PoolSteady` | `ConnectionReuse`, `NeverStranded`, `CalmCloseIsFinal` | dials and connection losses, if `ChannelFaults` and `HealthCheck` are FALSE |
| `ConsumerConnectionReuse` | `ConnectionReuse` of the composition | messages, retries, dials, losses, if `SlowHandlers` is FALSE as well |
| `ConsumerNeverStranded` | `NeverStranded` of the composition | " |
| `ConsumerCalmCloseIsFinal` | `CalmCloseIsFinal` of the composition | " |
| `ConsumerOneHandler` | `OneHandler` | " |
| `ConsumerAtLeastOnce` | `AtLeastOnceDelivery` (implements `AtLeastOnce`) | ", if `MaxRetries` is not 0 |
| `WorkflowTypeCorrect` | `WorkflowScheduler!TypeOK` | finite set of nodes, graphs, driver, limits |
| `WorkflowFreshInputs` | `FreshInputs` | " |
| `WorkflowNoFalseDeadlock` | `NoFalseDeadlock` | " |
| `WorkflowNoRepeat` | `NoRepeat`, if no handler throws | " |
| `WorkflowNothingLeftBehind` | `NothingLeftBehind` | ", if every graph is `EnteredFromReached` |
| `WorkflowFreshBranches` | `FreshBranches` | ", if every graph `LoopsBack` |
| `WorkflowDeadlockMeansFailure` | `DeadlockMeansFailure` | ", if every graph is `Grounded`, `LoopsBack` and `RestartsTogether` |
| `SearchTaskTypeCorrect` | `SearchTaskScheduler!TypeOK` | tasks, runs, interval, faults, requests |
| `SearchTaskNoHole` | `NoHole` | " |
| `SearchTaskNoOverlap` | `NoOverlapUnlessRaced` | " |
| `SearchTaskImplementsCoverage` | `ImplementsCoverage` | " |
| `SearchTaskDueMeansServed` | `DueMeansServed` | " |
| `StatsTypeCorrect` | `HourlyStats!TypeOK` | messages, processes, tries, repetitions, faults |
| `StatsRowIsTheCommits` | `RowIsTheCommits` | " |
| `StatsNoneForgotten` | `NoneForgotten` | " |
| `StatsDayWithinHours` | `DayWithinHours` | " |
| `StatsMarkedIsFinal` | `MarkedIsFinal` | " |
| `AccountsTypeCorrect` | `AccountHealth!TypeOK` | accounts, crawlers, scores, calls, crashes |
| `AccountsNoneLost` | `NoneLost` | " |
| `AccountsNoneRetired` | `NoneRetired` | " |
| `LoginTypeCorrect` | `LoginSession!TypeOK` | navigations, events, faults, service, driver |
| `LoginOneEnding` | `OneEnding` | " |
| `LoginNoContextLeft` | `NoContextLeft` | " |
| `LoginEndingStored` | `EndingStored` | " |
| `LoginCompletedIsSaved` | `CompletedIsSaved` | " |
| `EditorTypeCorrect` | `ScreenEditor!TypeOK` | screens, retries, edits, openings, faults |
| `EditorOwnContent` | `OwnContent` | " |
| `EditorSavedTellsTruth` | `SavedTellsTruth` | " |
| `RecordsTypeCorrect` | `WorkflowRecords!TypeOK` | runs, resumptions, steps, faults |
| `RecordsCacheFollowsRow` | `CacheFollowsRow` | " |
| `RecordsRunIsAlone` | `RunIsAlone` | " |
| `RecordsRunningMeansRun` | `RunningMeansRun` | " |
| `RecordsNeverGoBack` | `NeverGoesBack` | " |

Each rests on an inductive invariant, shown to hold at first, to be kept by
every action, and to imply the property.

- **`PoolInv`** = `TypeOK`, `ListenersOn`, `Untouched`, `NoTimerWhileConnecting`,
  `NoDeadChannel`, `StateTellsTruth`. Neither property is inductive alone. That a
  dead channel is never in the pool needs that listeners are installed until
  `close()` (`ListenersOn`), that objects of dials not made are unused
  (`Untouched`), and, for the state, that a pool that says CONNECTING has no timer
  pending, or a dial could end without anything left to wait for
  (`NoTimerWhileConnecting`).
- **`ConsumerInv`** = `PoolInv`, `ConsumerTypeOK`. A step of the consumer leaves
  the pool alone or ends the channel it sends on, which is open: the pool's lemmas
  are stated for its moves and for the loss of any open channel, so they carry
  over. `ConsumerTypeOK` holds with the types that a message is in one place:
  ready, or delivered once, or settled.
- **`SteadyInv`** = `PoolInv`, `OneConnection`, `OneDial`, `TimerIsAlone`, `InUse`,
  `Calm`, for an environment where a channel ends only with its connection and no
  health check runs (`SteadyPremise`). The pool's own connection is the only
  live one (`OneConnection`) and a dial past its first await has no rival
  (`OneDial`); a timer waits only while no connection is alive and no dial is about
  to make one, so what it starts races with nothing (`TimerIsAlone`); until
  `close()` a pool that says CONNECTED has its channel (`InUse`); a `close()` that
  overtook no dial has muted whatever is still open (`Calm`).
- **`FastInv`** = `ConsumerInv`, `Steady`, `Fast`, for fast handlers too
  (`FastPremise`). Tags are unique on a channel (`Tags`), one handler runs
  at a time, no channel but its own is open meanwhile, and its delivery lasts as
  long as that channel (`HandlerAlone`). So an answer is sent on the channel of its
  delivery or on none, it settles the handler's own message and closes no channel,
  and a loss is a redelivery, which `AtLeastOnce` allows.
- **`SchedulerInv`** = `TypeOK`, `Idle`, `SnapshotCurrent`, `ExecutedWerePending`,
  `EmptyBatchStuck`, `ExecutedAreFresh`, `FreshInputs`, `NoFalseDeadlock`. A node
  of a batch was pending when it started, so its success is a change the deadlock
  check sees; a batch that changes nothing was empty, and emptiness is the absence
  of executable nodes. Freshness survives a batch because a node that runs has no
  unconditional source that runs beside it (`ExecutedAreFresh`), and a source that
  completes resets its targets; `Idle` and `SnapshotCurrent` say what holds between
  two batches. **`RepeatInv`** adds, without throws, that there are no orphans and
  that a node that succeeded and was not reset says so in the graph or in the
  result about to be merged over it (`SuccessKept`); only pending nodes start.
- **`BatchInv`** = `SchedulerInv`, `ExecutedPending`, `NeverBeside`,
  `TargetsReset`, `ExecutedSaw`: what the other verdicts need to know of a batch.
  What it runs is still pending, never beside its unconditional sources, and has
  seen the outputs of all that had succeeded; what one of its handlers puts back
  to pending stays so.
- **`VerdictInv`** = `SchedulerInv`, `Verdict`, the graph is one of the constants.
  `Verdict` ties the outcome to the states of the nodes when the loop ended.
  Success means that no reached node waits, so nothing is left behind if all that
  could wait is reached: nodes reached whatever the conditions say, and nodes
  entered only from these (`EnteredFromReached`).
- **`BranchInv`** = `BatchInv`, `Branches`, for graphs whose conditions lead back to
  a node that their source waits for (`LoopsBack`). What a condition sends on it puts
  back to pending, and that node is never in a batch with its source, which waits
  for it: by the time it has run again it has seen what the source returned.
- **`LoopInv`** = `BatchInv`, `Verdict`, `RootsFirst`, `LoopTogether`,
  `LoopRunning`, `Running`. Were a deadlock reported without a failure, a node
  would wait with all its unconditional sources done, by `Grounded`; what keeps it
  from running is then a condition, whose source has succeeded after it was put
  back, with the value that holds (`LoopTogether`): a contradiction. That whatever
  restarts the target of a condition restarts its source too (`RestartsTogether`),
  or has no source and so runs once and before both (`RootsFirst`), keeps it so.

  The graph of the keyword search and every graph without a cycle over its nodes
  have all these shapes (`RealShapes`, an assumption that TLC evaluates in the
  run `wf_real`). None can be left out: over all graphs of three nodes TLC
  refutes `NothingLeftBehind` without `EnteredFromReached`, `FreshBranches` without
  `LoopsBack`, `DeadlockMeansFailure` without `LoopsBack` and without `Grounded`,
  and on one of five nodes without `RestartsTogether` (a loop that
  puts the first node of another loop back to pending, but not its last).
- **`TaskInv`** = `TypeOK`, `EndsInv`, `ClockInv`, `HeldInv`, `FreshInv`. A row's
  `latestCrawlTime` is always the end of some request (`EndsInv`), and so is the
  beginning of every range a run still holds, even one loaded from a row that has
  moved on (`HeldInv`); with the clock ahead of every time recorded (`ClockInv`)
  this gives the refinement of `CrawlCoverage`, whose own invariant `NoHole`
  gives the scheduler's. Without overlapping runs the range a run will ask for
  begins where the row's last one ended (`FreshInv`), which gives disjointness.
  **`DueInv`** adds that a run holds only rows that were due when it began, so the
  end of the range it asks for is not before the time its row became due.
- **`StatsInv`** = `TypeOK`, `HandsFull`, `ReadIsCurrent`, `DayIsBehind`,
  `Accounted`, `NoneLeft`, `MarkedIsOver`. While no two transactions have been open
  at once, the one that is open has read the row as it is (`ReadIsCurrent`), and
  what a rollup has fetched is no more than the row (`DayIsBehind`). Each place an
  update is at says what has happened to its message (`Accounted`), so a message
  the broker awaits from nobody is accounted for or in the dead letters
  (`NoneLeft`), even if a process gone deaf still works on it. While a mark lives
  its message is in nobody's hand on the way to a commit (`MarkedIsOver`); a mark
  that ends takes nothing from the invariant, a message that expires only goes
  from one queue to the other.
- **`HealthInv`** = `HealthTypes`, `NoneLost`, `OutgoingWait`, `RetiredStayOut`. A
  crawler decides to remove an account and removes it later; should the account
  be active again by then it still waits to be added, whoever has added it in
  between (`OutgoingWait`). `RetiredStayOut` says that what a call has found
  active was not retired when it began.
- **`LoginInv`** = `TypeOK`, `Telling`, `OneEnding`, `NoContextLeft`. `Telling`:
  nothing has ended a session that lives, only a running one lives, and before it
  runs nobody was told anything. Who ends a live session closes its context; who
  comes second is not the one that is closing it.
- **`RecordInv`** = `LoginInv`, `Closers`, `Carried`, `StatusKept`, `EventKept`.
  An update of the stored record is two commands, a read and a write of the whole,
  and two updates may lose one. `WritesLast` says of the commands on their way, in
  their order, that the one wanted is written last: either its read is yet to
  come and after it there are only writes, or all are writes and the last of
  them, or the record once there are none, has it. The final status is so kept
  from the moment the context is closed (`StatusKept`), and the last event while it
  is being closed and, unless it closed in a hurry, for good (`EventKept`). One
  party at most closes the context, and JD's says `completed` only with the account
  saved (`Closers`); what a write carries is a record, and nothing writes one where
  none is left (`Carried`).
- **`EditorInv`** = `TypeOK`, `Shape`, `Own`, `Truth`. As long as nothing went
  astray, the content of everything that may still be applied, shown or saved is of
  its screen: in the API, in the requests, in what has been read, and on the canvas
  while it is dirty, its timer runs or its editor is open and loaded (`Own`).
  While no timer runs the save that is waited for took what is shown, in the form
  a save sends it, and once none is waited for and the status is `saved` the API
  has that; whatever else is on
  its way for the screen was sent before, so that applying it counts as overtaking
  (`Truth`). `TypeOK` has the part the `switchMap` plays: only the last request can
  be an answer. `Shape`: what may be saved is of a screen.
- **`RecordsInv`** = `TypeOK`, `Locked`, `Resumed`, `Unwritten`, `RunningMeansRun`,
  `Alone`. The row's lock is held from the write to the commit by one run, and the
  cache has what was written last (`Locked`). There is no graph in a record
  before its run's loop is over (`Unwritten`), and resumptions need one, so a
  resumption starts only then (`Resumed`). The one call at work on an execution is
  ahead of its record (`Alone`).

The premises of `PoolSteady` and of the `Consumer...` theorems are needed, and TLC
shows it: with channel faults, with health checks or with slow handlers it finds
each of the five properties of the consumer violated, and with `MaxRetries` = 0
`AtLeastOnceDelivery`. They are where the code's promises end, and section 4 says
what happens beyond them.

Every safety and action property that a passing run checks is a theorem, and so
are both refinements (`AtLeastOnce`, `CrawlCoverage`). Only model-checked are the
properties under fairness (`Reconnects`, `Drains`, `Terminates`,
`EndsUnlessFailure`, `DueIsServed`, `AccountReturns`, `EditArrives`), which the
prover cannot reason about because they rest on ENABLED. No module declares a
RECURSIVE operator.

## 6. What is not shown

- Crashes are modelled where something survives them: the broker's rows, the
  aggregator's marks and queue, the sorted set, the records. The pool and the
  consumer live in one process, and a restart of it is a fresh `Init` with the
  broker's queue as it is.
- Contents of messages, HTML, database schemas, GraphQL, permissions, rendering
  and numerical analysis.
- Not modelled, with the reason:
  - the distributed lock, the rate limiter and the priority queue are
    check-then-act sequences over Redis that only `MainSearchWorkflow` uses, which
    nothing instantiates;
  - the publisher has no state: what can fail is the channel, which is the pool's,
    and an answer nobody waits for;
  - the WebSocket client leaves reconnection to socket.io;
  - dead letters are inspected, retried and deleted by a person at a page, one
    message at a time (`HourlyStats` has what that means for the analysis results),
    and the consumer that would do it is never subscribed;
  - a raw document has one writer at a time, and its status is a statement;
  - the cron schedulers of aggregates keep nothing between two ticks, and nobody
    consumes what they publish;
  - handlers of workflow nodes are outcomes (success, failure, throw, a value);
  - the remaining components are single statements, pure computation or output.
- Most of the repository's lines are such: user interfaces, generated GraphQL
  types, entities, texts. The share that the map covers is small and is where the
  concurrency is.
- The consumer of `weibo-task-status` has no producer and the crawl queue's message
  format no reader in `apps/broker`; the script `fix-next-run-at` is run by hand.

## 7. Plan

Done, in this order: the pool, the consumer over it, the workflow scheduler, the
search tasks; then the aggregator, the accounts, the login sessions, the screen
editor and the workflow records; each with its invariants first checked and then
proved.

What would add most next:

1. `WorkflowScheduler` with the merge modes of properties with several inputs, and
   its graph as the graph of `WorkflowRecords`.
2. `Publisher` over `ConnectionPool`, with the reactive wrappers and `switchMap`,
   composed with the consumer for the whole way of a message.
3. The status of raw documents across crawler, cleaner and retries.

## 8. Running it

```
tlc -workers 2 -config consumer_fast.cfg RabbitConsumer.tla
tlc -workers 2 -config wf_any.cfg MCWorkflowScheduler.tla
tlapm RabbitConsumer_proofs.tla
```

`PROJECT.json` names the module and the configuration of each run. A run takes
from a few seconds to a few minutes; a proof module a few minutes.
