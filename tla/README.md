# FKCrypto: formal specifications

FKCrypto is an asyncio Python program that collects signals from several agents,
turns them into a decision per trading pair and sends orders to Freqtrade. These
are TLA+ specifications of its control logic, the TLC configurations that check
them on small instances, and proofs that TLAPS checks for every instance.

Everything in `src/src/` runs in **one** process on **one** event loop. A step of
every model is therefore what one coroutine does between two `await`s; the
interleavings that matter are those of coroutines that share an object and
suspend in the middle of using it. The other sources of trouble are what the
program waits for: a human, a database, Freqtrade, an exchange, an executor.

1. [Inventory](#1-inventory)
2. [Modules and the code they stand for](#2-modules-and-the-code-they-stand-for)
3. [Runs](#3-runs)
4. [Proofs](#4-proofs)
5. [Where the code and its documents disagree](#5-where-the-code-and-its-documents-disagree)
6. [What is not modelled](#6-what-is-not-modelled)
7. [Plan](#7-plan)

## 1. Inventory

Paths are relative to `src/src/`. "Hard" names the behaviour that a test hardly
reaches; the properties in italics are the ones that make the part correct.

| Part | State | Operations and interaction | Hard; *correct when* | Module |
|---|---|---|---|---|
| Human approval `execution/approval.py`, `service.py:270-346` | `_pending`, `_history`, status and times of each request | `create_request`, `approve`, `reject`, `check_expired`, `get_request`; polled by `_handle_approval` every 2 s | answers race the end of the wait; the caller can be cancelled. *Consent is given by a live answer only; verdicts are final; every wait ends* | `Approval` |
| Order execution `execution/service.py`, `validator.py`, `risk/engine.py` | recent orders, rate-limiter stamps, order rows | `execute` calls approval, validator, risk engine, rate limiter, Freqtrade, audit log | checks before an `await` and records after it; lost answers; failing database. *Nothing leaves without consent or under the kill switch; the log tells the truth; duplicates only from overlapping calls* | `ExecutionService` |
| Risk guardian `agents/risk_guardian.py` | kill switch and reason, error count, peak, day's start, `_running`, the loop task | `run`, `start_monitoring`, `stop`, `reset_kill_switch`, `set_portfolio_value`, `reset_daily_tracking` | three tasks inside `run` at once; `stop` overlapping `start`. *An error count at the limit means the switch is on; lasting trouble trips it; the peak survives restarts* | `RiskGuardian` |
| Lane scheduler `agents/scheduler.py` | queues, active sets, histories, workers, `_running` | `submit`, `start`, `stop`, worker loop, executors | start and stop in any order, cancellation in the middle of a task. *No task is lost, duplicated or overtaken; the limit holds; stop ends everything* | `LaneScheduler` |
| Application and workflow `gateway/__main__.py`, `graph.py`, `nodes.py`, `utils/notifications.py` | references to all components, graph state of a cycle | analysis, sentiment and risk cycles, two loops, notifications, start, shutdown | cycles and loops over shared connections, errors turned into state, the order of the shutdown. *Nothing uses a closed connection; a placed order is announced; every pair has its turn* | `TradingSystem` |
| Periodic scheduler `utils/scheduler.py` | `_running`, task list | interval and cron loops, `start`, `stop` | polling a clock; exceptions outside the `try`; start and stop while loops end. *No matching minute goes by; no loop escapes `stop`; a bad field harms no other task* | `TaskScheduler` |
| Delegation `agents/delegation.py` | permission links, slots per agent, active, history | `delegate`, `add_permission`, `remove_permission` | timeouts and cancellation between taking and returning a slot; limits per link counted per agent. *Slots taken equal delegations under way; the limit of a link holds; every delegation ends* | `Delegation` |
| Decision engine `agents/decision_engine.py`, `signal.py`, `database/repository.py` | the session shared by all; weights and thresholds (constant) | `process_signals`: save, normalise, deduplicate, score, decide, explain, save | order of arrival, boundaries, a commit that fails and breaks the session. *The order of arrival does not matter; no decision against all signals; a saved decision has its signals* | `DecisionEngine` |
| Message buses `bus/` | queues, pub/sub object, reconnect task | `connect`, `publish`, `subscribe`, `listen`, `close` | competing listeners, reconnection, `close` under listeners. *Over one queue or pub/sub object once at most and in order; lost or doubled only for reasons that can be named* | `InMemoryBus`, `RedisBus` |
| Market monitor `agents/market_monitor.py` | windows of prices and volumes; loop task | `run`, `start_monitoring`, `stop`, three detectors, order book | overlapping checks over one history, windows of different length. *A crash prevails; few samples make no anomaly* | `MarketMonitor` |
| Alpha seeker `agents/alpha_seeker.py`, `data/onchain.py` | seen events | `run` over parallel sources, classification, signal | overlapping cycles, trimmed memory, keys that do not tell events apart. *An event is told once; tables of priority and direction agree* | `AlphaSeeker` |
| Technical analyst `agents/analyst.py` | none across cycles | reading of timeframes, five strategies, confirmation | a failing strategy or indicator in the middle. *A signal stands on its own evidence and survives the failure of others* | `Analyst` |
| News and sentiment `agents/news_sentiment.py`, `data/news.py`, `data/social.py` | none across cycles | four services and a model per symbol, score, signal | services that fail one by one. *No direction against the view it is based on* | `NewsSentiment` |
| Heartbeat `agents/heartbeat.py` | failure counts, reports, callbacks | `register_agent`, `generate_report`, callbacks | overlapping reports while callbacks are awaited. *Critical exactly after the n-th failure in a row* | `Heartbeat` |
| LLM tracing `agents/tracing.py` | open and closed spans | start, complete, fail a span; metrics | reused ids, two ways to end, one of which cuts the history. *A span ends once; the newest survive* | `Tracing` |
| LLM gateway `llm/litellm_gateway.py`, `security/__init__.py` | blocked sources, alerts | screening, attempts, fallback, parsed score | one source name for all messages. *A message is judged before any model sees it; the fallback comes last* | `LLMGateway` |
| Freqtrade client `freqtrade_client/client.py` | none | requests with retries | an answer lost after the bot acted. *A call acts once at most, and its answer is true* | `FreqtradeClient` |
| Exchange source `data/ccxt_source.py`, `data/cache.py` | cache entries, exchange | `fetch_ticker`, `fetch_ohlcv`, retries, start, stop | overlapping fetches of one key. *A price is no older than its bound* | `MarketData` |
| Knowledge graph `agents/knowledge_graph.py` | SQLite tables, an open transaction | `add_entity`, `add_relationship`, search, traversal | a statement or commit that fails half-way, a restart, a search that returns ten rows. *What was added can be found, from either end, unless others fill the answer* | `KnowledgeGraph` |
| Backtesting `backtesting/` | cash, position, trades, snapshots, replay position | replay, simulated buy and sell, finalize, metrics | the last step. *The books balance; no decision sees a later candle* | `Backtest` |
| Risk rules and sizing `risk/engine.py`, `risk/position_sizing.py` | none; rows of the day | `validate_order`, sizing formulas, trailing stop | limits that meet. *An engine's own size is never refused; exposure is bounded* | `RiskSizing` |
| Reasoning log, vector store, secrets, metrics export, configuration, dashboard, scripts | mostly none | output, text search, encryption, file reading | - | none, see section 6 |

How the parts meet: `FKCryptoApp` (`gateway/__main__.py`) creates one instance of
each and starts the periodic scheduler, which runs the cycles; an analysis cycle
runs the graph, whose nodes call the market monitor, the decision engine and
`ExecutionService.execute`; `execute` calls approval manager, validator, risk
engine and rate limiter, then Freqtrade, and writes rows through the repository.
The risk engine reads the kill switch from the database; the guardian keeps its
own in memory. Lane scheduler, delegation, buses, heartbeat, tracing and knowledge graph are
libraries of the agents that the application does not wire up, so their
environment in the models is any caller that keeps to their interface.

The hazards, each with its line and the properties that would notice it going
wrong, are in `PROJECT.json`.

## 2. Modules and the code they stand for

| Module | Stands for | Notes |
|---|---|---|
| `ApprovalGate` | - | Abstract specification: a trade goes ahead only after its one, final verdict was "approved" |
| `Approval` | `ApprovalManager` and `ExecutionService._handle_approval` | Implements `ApprovalGate`: `GateSpec` is a property of its run and a theorem |
| `ExecutionService` | `execute`, `OrderValidator`, `RiskEngine.validate_order`, `RateLimiter`, `_audit_log` | Composes with the *abstract* gate, which `Approval` implements, instead of repeating clocks and polls |
| `RiskGuardian` | `RiskGuardianAgent` and the parts of `BaseAgent` it uses | |
| `TaskBoard` | - | Abstract specification: one set of waiting tasks per lane, the most urgent first |
| `LaneScheduler` | `Lane`, `LaneScheduler`, `ScheduledTask` | Implements `TaskBoard`: property `BoardSpec` |
| `TopicChannel` | - | Abstract specification: over one line, a message of a topic is received once at most, and in the order of publication |
| `BusUsers` | - | The topics, listeners and bound that both buses have in common |
| `InMemoryBus`, `RedisBus` | `bus/` | Both implement `TopicChannel` (`BusesInOrder`) |
| `TradingSystem` | `FKCryptoApp`, the graph and its nodes, `Notifier.send` | The components it composes are choices among their outcomes |
| `TaskScheduler`, `Delegation`, `Heartbeat`, `Tracing` | the module of that name under `utils/` or `agents/` | |
| `FreqtradeClient`, `LLMGateway`, `MarketData` | the clients of three external services | |
| `DecisionEngine`, `MarketMonitor`, `AlphaSeeker`, `NewsSentiment`, `Analyst`, `KnowledgeGraph`, `Backtest`, `RiskSizing` | the component of that name | Algorithms on integers, with the state that lasts between calls |
| `Totals` | Python's `sum`, an accumulator in a loop | Folds, used by monitor, alpha seeker, risk sizing and backtest |
| `Buses`, `Services`, `Agents` | - | Components side by side, see below |
| `*_proofs` | - | Theorems and proofs, one module for each core component and one for each composition |
| `MCApproval`, `MCExecution`, `MCRiskGuardian`, `MCLaneScheduler` | - | Constants and symmetry sets for TLC |
| `MCServices`, `MCAgents`, `MCProgress` | - | The constants and inputs of `Services` and `Agents`; liveness |

Definitions marked `Fault:` are not part of a specification. Each is an operator of
the model with a plausible programming error in it, put in the place of the
original to see that a property notices.

**Side by side.** Components that share no state would only multiply their state spaces if
they ran together. `Services` (ten of them) and `Agents` (eight) EXTEND them all, and their
variable `part`, chosen in `Init`, names the one that moves in a behaviour, while `RestBut`
leaves the others in their initial states. The reachable states are the sum of the
components' own and each component has all of its behaviours, so that an invariant or action
property of the composition holds if and only if it holds of the component alone. One half of
this is a theorem (`ServicesAreThemselves`, `ComponentsAreThemselves`). `MCProgress` states
each component's own fairness, guarded by its part. Where components do share state or call
each other, they are composed in a module (`TradingSystem`, `ExecutionService` with the gate,
`DecisionEngine` with the session) instead.

### Approval

`status`, `pending`, `answeredAt` are the fields of the same meaning; `age` is the
time since `created_at`; `caller`, `waited` and `nap` are the state of the polling
coroutine: where it is, its own count of the seconds it slept, and what is left of
the current sleep. `Tick` lets a second pass without anyone being scheduled, so a
sleeper may be resumed late by any amount. `Wake` is one turn of the polling loop:
add the interval, test `waited < max_wait`, read the status. `Ask` is
`create_request` with the first poll, since nothing suspends between them. A
request created by `create_request` is in `_pending` and `_history`; the model
keeps the first as `pending` and the second as "status is not none". `CheckExpired` is
an operation of the manager that nothing in the repository calls: with `Sweeper` it may
happen at any time and need not, without it never.

### ExecutionService

`pc` says at which `await` a call is. `Submit` is everything from the end of the
approval to the departure of the request (lines 180 to 221): validator, risk engine,
rate limiter, "submitted" row. `Answered`, `Failed` and `Cancel` are the three ways
the request ends for the caller; what Freqtrade does with it is `Freqtrade`, which
may happen before the answer, after it, or after the caller is gone. `stamp`
are the rate limiter's records by age; `recent` is the validator's set, cut to an
arbitrary part when full. `met` and `crowd` are history variables that record
which requests were under way together; they guard nothing. The database may be
unreachable: the kill switch then counts as set, the drawdown test passes, and rows
are not written.

`OrderSize`, `StopLossSet` and `Balance` are constants because `execute` fixes
them. With its own values no order passes the validator (run `execution_shipped`);
the other runs ask what the gates are worth for orders that have a size.

### RiskGuardian

`pc[x]` is the `await` at which task `x` is suspended inside `run`, and `todo[x]` the
number of symbols it still has to examine. `BeginRun` is `run` up to the first
`await`, including the synchronous drawdown, daily-loss and position checks and the
early return under an active switch; `CandlesArrive` is the volatility check of one
symbol; `ProbeAnswers` counts or clears an API error and judges the count. The
monitor passes neither value nor positions, like `_monitor_loop`. `stopping`
follows `stop()` through its two phases: waiting for the cancelled task, and
`BaseAgent.stop` after it. Percentages are integers; the comparisons are
cross-multiplied, so no rounding is involved. The test of the exposure compares the
sum of the positions' values with itself, and the model does the same
(`Violations`).

### LaneScheduler

A worker is a coroutine that `start` created; `slot[l]` is the one the scheduler
knows as lane `l`'s, and an earlier one may still be alive. `Take` and `Finish` are
the two halves of a turn of `_worker` with an asynchronous executor; `TakeAndRun` is
both with a plain function, which ends before anything else happens. Between two tasks
a worker does not suspend: it is "rolling", and until it takes the next task, goes to
sleep (`Rest`) or ends (`Exit`) no other coroutine runs. `Stop` cancels
the known workers and then waits for them one by one (`StopGoesOn`), reading
`_workers` again at each, as the code does. The `Lane` class owns a semaphore that
nothing acquires, so it is not in the model: the limit holds only because a lane has
one worker. Nothing stops a caller from starting a scheduler whose workers have not
ended; the history variable `overlapped` remembers that one did, so that `WorkersEnd`
can say what holds as long as none does. `Cancelled` covers both `stop`'s cancellation and
a `CancelledError` of the executor's own: `_worker` cannot tell them apart and
ends the worker either way. Tasks and workers are numbered in the order in which they
are submitted and created; a lane and a priority are arguments of `Submit`.

### TradingSystem

`at[w]` says where each of the three cycles and two loops is; `Shutdown` is the order in
which `stop()` ends tasks and closes connections. `Edges` is the graph as `build_graph`
makes it: no edge leads from the entry point to analyst, sentiment, risk or alpha, so
their nodes never run. `replaceable` is external: whether the installed LangGraph
lets `_build_graph` add a node under a name that a stub has taken. If not, the graph of each
pair raises and the cycle goes on to the next pair (`BuildRaises`). `Announced` tests the
decision, not the order, as `_run_analysis_cycle` does. `ExecutionNode` does not read
`tripped`: the risk engine asks the database for rows that nothing writes.

### TaskScheduler, Delegation, Heartbeat, Tracing

`TaskScheduler` counts half minutes (the cron loop's sleep) on a calendar of `Days`,
`HoursPerDay`, `MinutesPerHour`. `_match` is `Match`, which answers "yes", "no" or
"raises", and a raise outside the `try` ends the loop (`LeaveLoop`). `listed` is
`_tasks`, the list that `stop` goes through while loops end and others start.
`Delegation` gives a slot back in `ReleaseSlot`, the `finally` clause that success,
failure, `TimeOut` and `CancelDelegation` share; `slots` is counted per agent, like
`_agent_concurrency`, and compared with the limit of one link. In `Heartbeat` a report reads the
failure count once and carries it (`report[c].count`) through its callbacks. In
`Tracing` a start under an id in use replaces the span (`replaced` remembers it), and only
`CompleteSpan` cuts the history.

### Buses

`InMemoryBus` numbers queue objects: a listener keeps the one it found first, `close`
empties and forgets them, and whoever comes next makes new ones. `RedisBus` numbers
pub/sub objects: `pubsub` is the one that `_pubsub` names, and `Replace` (in `connect` and in the
reconnect loop) rebinds only that name. A listener calls `get_message` on the
object of that moment (`via`) and stays with it until the poll ends, while the old object keeps its
subscriptions and its buffer. Listeners that poll one object compete; whoever takes a raw
message of another topic drops it. `due` records what the server sent through the present object,
`renewed` the topics whose subscription stayed with one that was replaced, and `twofold` those
that were subscribed to anew while a listener of theirs still polled the old object: for these, and
no others, a message may be received twice. The client library's own reconnection, `Rewire`, renews the
subscriptions of an object and is external.

### Clients

`FreqtradeClient`: `Serve` is the bot, which may have acted when the answer is lost;
`BackOff` is where `_request` awaits `self._client.sleep`, which `httpx` does not have, so a call ends with an
`AttributeError` instead of a second attempt. `LLMGateway`: the calls are
synchronous, so one is under way at a time; a text is the number of patterns found in
it. `call.level` is the verdict on the user message, and `call.shown` the form in which a model got
it: wrapped for the model, raw for its fallback (`litellm_gateway.py:103`, `:142`). An answer with
no JSON in it is a neutral 0; one without content or of the wrong shape raises out of
`classify_sentiment` (`Unreadable`). `MarketData`: a value is the time it was read at the exchange; askers overlap
between reading, answering and storing.

### Agents and algorithms

Confidences, weights and thresholds are integers (hundredths), so comparisons at a
threshold are exact. `DecisionEngine` evaluates `Decision` on every sequence of at most
three signals of `EmittedSignals` with every place at which the database fails.
`MarketMonitor` cross-multiplies the comparison with the standard deviation.
`AlphaSeeker` enumerates what each source may answer; `Key` is the key under which the
code remembers an event: a flow's names neither amount nor direction, a whale's the amount and neither
end. `Forced` are the configured `priority_overrides`, which apply to listings and breaking news. `NewsSentiment` scores in thousandths times the count of news.
`Analyst` reads configured strategies (copied from `config/strategies/*.yaml` into
`MCAgents`) on readings in which any `MaxLapses` of the calculations may have failed, each in
its own `try` block.
`KnowledgeGraph` has two copies of its tables, `live` with the open transaction and
`durable` as committed; its index is a sequence with a row for each time an entity was added, of which a search
returns the first `Limit` that match. `Backtest` and `RiskSizing` use integer money; a position's cost is
kept instead of its size times price, which is the same number. A trade keeps the `fee` of its
exit, which the code reports, apart from what was `paid` at its entry.

## 3. Runs

"violation" runs check one statement of the documents which the code does not
keep; section 5 quotes them. Where several properties of one component are conjuncts of one
checked property, each conjunct has a name and a comment of its own in the module.

| Run | Question and answer |
|---|---|
| `approval` | Two trades, late wake-ups, cancellation, sweeps that may come or not: no trade goes ahead without a timely approval, verdicts are final, the table is exact, nobody gives up early, and `ApprovalGate` is implemented. An approval that a poll still follows is honoured, and every call returns whether or not somebody answers (`CallerReturns`) |
| `approval_last_window` (violation) | An approval after the last poll is accepted and ignored |
| `execution_races` | Three calls at once (`ExecutionSafe`): duplicates come only from overlapping calls or a forgotten key; the rate limit is exceeded by at most the overlap; what is reported filled was placed |
| `execution_approval` | Two calls with approval: nothing leaves without consent, the kill switch is judged after the wait, and a begun call ends |
| `execution_shipped` (violation) | With the order that `execute` really builds, the validator rejects everything |
| `guardian` | The loop and two callers: the count at the limit means an active switch and a switch has a reason (`SwitchIsRight`), trips are bounded by the tasks in flight, running means monitored, the peak never falls; a stopped loop ends and a lasting outage trips the switch again after every reset (`MonitorServes`) |
| `guardian_drawdown` (violation) | The loop never learns the portfolio's value and ignores a drawdown |
| `lanes` | Three tasks in two lanes, starts and stops in any order, executors that cancel themselves (`LanesSafe`): every task is where its status says, the history is the latest part; started only when stopped, a lane never has two workers, and none after `stop`. `TaskBoard` is implemented even with several workers in a lane |
| `lanes_limit` (violation) | Started twice, a lane of limit 1 executes two tasks |
| `services` | Nothing uses a closed connection and every placed order is announced (`TradingSystem`); slots, history and limits of delegations (`LimitsAreKept`); loops in matching minutes only, none missed, at most twice, none left after `stop` (`LoopsAreKept`); spans accounted for and the newest kept (`TraceIsTrue`); status, history and criticality of heartbeats (`HealthIsTrue`); a bus loses or doubles messages only for named reasons (`BusesDeliver`) and over each queue or pub/sub object implements `TopicChannel` (`BusesInOrder`); a client's call acts once at most and its answer is true (`ClientIsTrue`); no model, the fallback included, is given a severe message, none is asked while the shared source is blocked, and the fallback comes last (`GatewayIsOrderly`); prices have a bounded age (`FreshEnough`) |
| `progress` | `Progress`, one conjunct per component: delegations end though executors do not, interval loops go on and `stop` returns, every pair has its turn, the shutdown ends, callbacks are all told, model calls and fetches are answered or given up, lane tasks begin and `stop` returns |
| `agents` | The order in which signals arrive matters only for equal times, and no decision goes against all its signals (`DecisionFollows`); a crash prevails over a spike and few samples make no anomaly (`DetectorsAgree`); an entity is found by its present name unless rows of others fill the answer, and relations from both ends (`GraphAnswers`); an event is told once per cut of the memory, and priorities, directions and weights agree (`AlphaIsSound`); no sentiment signal against its view or without a crowd (`ScoreIsGrounded`); signals stand on their evidence whatever fails (`SignalsStand`); a backtest's books balance and it never looks ahead (`BacktestIsHonest`); sizes, exposure and stops agree (`SizingAgrees`) |

### Bounds

* Approval: two requests (they interact only through `check_expired`, which
  handles a set), a timeout of 5 and an interval of 2, so that the interval does not
  divide the timeout and the last sleep overshoots, as a late event
  loop makes it with 300 and 2. Ages saturate one second after the timeout, when nothing can change.
* ExecutionService: three calls are the least with which two can overlap and a third
  come later; `MaxRecent = 1` and `MaxPerMinute = 1` put both limits within
  reach; a window of two ticks lets a record be young, old and gone. Two calls are
  enough where the question is about one call and its approval.
* RiskGuardian: the application has three tasks that call `run` (loop, risk cycle,
  graph), and so has the run. Two errors trip, so that one error may be counted by one
  task and the other by another. Worths 100 and 60 are apart by more than every
  limit; the books reach the number of violations that trips and one fewer.
* LaneScheduler: three tasks of two priorities distinguish overtaking from
  order of arrival; two lanes make `stop` wait for one worker after another; four
  workers allow the lanes to be started twice; history limits 2 and 1 let it be cut. In
  `progress` two tasks suffice, one that waits and one that occupies the worker.
* Services: three delegations over three links let two links share a target and two
  agents ask each other, with limits 1 and 2; a calendar of four minutes has a matching hour,
  another hour, and a matching minute after a mismatch; the loops are one good cron, one
  with a bad field and one interval. Two pairs and two channels let a failure or a notification
  sit between pairs. Four spans over two ids with a history of 2 let it grow beyond its bound
  by failures and be cut. Three reports reach the limit of two failures with one more in flight.
  Two topics, two listeners of one of them, two messages each, two pub/sub objects: a listener can
  stay with the old object while the other polls the new one, so that a message can be received twice, out of
  order, or, on the topic that has no listener, be taken by the wrong one. Two client
  requests with two tries; three model calls from two sources with two tries per model. Two askers of one
  key, a time to live and a flight of 1, four instants: the order of reading, storing and
  expiring can be any.
* Agents: three signals out of eight cover equal and different sources, markets and
  times. Six market samples with two deviations and a window of six pass the number
  ((n - 1)^2 > 4n) below which nothing is an anomaly; histories of three prices roll. Two entities
  with two names, an index of two rows and searches for one, so that rows of others can fill an answer; five
  events (two whales under one key, two flows under one, a kind whose priority is forced) in
  two cycles over a memory of two that is cut to one, three
  cycles in all; two news per mood, two timeframes with three readings and up to two failed calculations;
  backtests of up to five candles in windows of two, so that a position can be opened,
  closed and opened again; two positions, one refused order in a day.
* Progress: as for services, cut to two callers each, since liveness checking costs more.

Symmetry is used only over the calls of `ExecutionService`, in runs that check
safety alone. Deadlock is checked in the runs of approval, execution and guardian. The others
say `CHECK_DEADLOCK FALSE`: a lane scheduler may have used up its workers and tasks, and the
components side by side have a bounded number of calls after which nothing is left to do.

### Fairness

Liveness is checked under the least that the event loop and its libraries provide:

* a coroutine whose sleep is over, or whose awaited future is done, is resumed
  (`Wake`, `StopGoesOn`, `StopEnds`, `MonitorCancelled`, `LoopEnds`, `Turn`,
  `CancelledLoop`, `StopContinues`, `StopStep`);
* a request over HTTP ends, because `httpx`, `ccxt` and `litellm` are called with timeouts
  (`Answered \/ Failed`, `RunStep(Monitor)`, `Analyse`, `CheckRisk`, `CompletionFails \/
  CompletionAnswers`, `Read \/ FetchFails`);
* time passes (`Tick` in `Approval`, `TimePasses` in `TaskScheduler`, `TimeOut` in
  `Delegation`, whose `wait_for` has a timer);
  `ExecutionService` takes the end of an approval from `Approval` as fairness of
  `Granted \/ NotGranted`;
* executors of the lane scheduler and callbacks of the heartbeat return. The code sets no timeout for them, so
  this is an assumption about their authors, and `EveryTaskBegins`, `StopReturns` and
  `EveryCallbackHears` say nothing without it. Executors of delegations and functions of the
  periodic scheduler are not assumed to return.

Nobody is assumed to ask, answer, sweep, publish, reset, start, stop or cancel.

## 4. Proofs

The theorems hold for every value of the constants that satisfies the named `ASSUME`
of each module (`Backtest` has two, the second once its prices are defined): any number of requests, calls, tasks, lanes, workers, pairs, topics, spans,
signals, candles and attempts, any limits, intervals and windows. TLC evaluates each assumption in
the runs that extend its module. Every proof of a state machine has the same shape: an
inductive invariant `IInv`, a lemma for each action or kind of action that says the action
keeps it, and theorems that add temporal logic only.

Every invariant and action property that a passing run checks is stated by one of the
theorems, and so are the refinements.

| Module | Component | Theorems |
| --- | --- | --- |
| `Approval_proofs` | `Approval` | `TypeCorrect`, `GrantSafety`, `TableSafety`, `PatienceSafety`, `VerdictSafety`, `Refinement` (to `GateSpec`) |
| `RiskGuardian_proofs` | `RiskGuardian` | `TypeCorrect`, `ErrorSafety`, `ReasonSafety`, `MonitorSafety`, `PeakSafety`, `TripSafety`, `SwitchSafety` |
| `ExecutionService_proofs` | `ExecutionService` | `ExecutionSafety`, `ConsentSafety`, `KillSwitchSafety` |
| `LaneScheduler_proofs` | `LaneScheduler` | `LaneSafety`, `Refinement` (to `BoardSpec`) |
| `Clients_proofs` | `FreqtradeClient` | `ClientTruth` |
| | `LLMGateway` | `GatewayOrder` |
| | `MarketData` | `PricesAreFresh` |
| `Buses_proofs` | `InMemoryBus`, `RedisBus` | `BusTypes`, `MemoryBusImplementsChannel`, `RedisBusImplementsChannel`, `BusesImplementChannel`, `BusesLoseOnlyBy` |
| `Services_proofs` | `TradingSystem` | `ShutdownSafety`, `AnnouncementSafety` |
| | `Delegation` | `LimitSafety` |
| | `TaskScheduler` | `LoopsInHand` |
| | `Heartbeat` | `HealthTruth` |
| | `Tracing` | `TraceTruth` |
| | `Services` | `ServicesAreThemselves`, `ServicesTypes`, `ServicesTruth` |
| `Agents_proofs` | `KnowledgeGraph` | `GraphTruth` |
| | `NewsSentiment` | `ScoreTruth` |
| | `MarketMonitor` | `DetectorTruth` |
| | `RiskSizing` | `SizingTruth` |
| | `AlphaSeeker` | `AlphaTruth` |
| | `Backtest` | `BacktestTruth` |
| | `DecisionEngine` | `DecisionTruth` |
| | `Analyst` | `SignalsTruth` |
| | `Agents` | `ComponentsAreThemselves`, `AgentsTypes`, `AgentsTruth` |

The inductive invariants are theorems as well (`InductiveInvariant`, or the component's name and
`Invariant`).

### What the assumptions say

Most assumptions are the types of the constants. The others:

* a configuration that makes sense: a time to live, a window, a number of attempts or a
  capital is not zero; stops, trailing stops and shares are percentages (`RiskSizingAssumption`,
  `BacktestAssumption`); the smallest size is not above the largest; a memory is cut to no more
  than its bound (`HeartbeatAssumption`, `SeekerAssumption`);
* names tell things apart: strategies and timeframes have different names
  (`AnalystAssumption`), as they are keys of a dictionary and files of a directory; a nameless
  entity and a missing span are not among the named ones;
* a price after slippage is no more than the unit in which `Backtest` counts sizes
  (`PriceAssumption`), so that no purchase is rounded to a size of nothing;
* prices and balances are positive, and a balance is large enough for one whole unit of size,
  because the models count in whole numbers (`RiskSizingAssumption`);
* the view of the language model is within -10..10 (tenths of the range that its prompt asks
  for and `NewsSentiment` clamps), and signals and readings have the fields of their records.

### Core

**Approval.** The safety properties are not inductive alone. `NeverGivesUpEarly` needs the relation between the caller's own
count and the clock, `waited + (CheckInterval - nap) <= age` while the age is below
saturation; `GrantedOnlyIfApproved` needs that a verdict was given at an age within
the timeout, unless it is "expired". The refinement maps a step of the clock to a
stutter, `Wake` to `Go`, `Stop` or a stutter according to what the poll read, and a
sweep to one answer to several requests.

**RiskGuardian.** `RunningIsMonitored` needs to know that while a cancellation is on
its way the loop is alive and `_running` is clear (`CancelledIsStopped`): otherwise
the cancelled loop might end while the agent believes to run. `ErrorsTrip` is
inductive because counting and judging happen in one step, the counter is cleared
together with the switch and nothing else clears the switch. `TripSafety` counts: a
task leaves the set of tasks in flight when it trips, and none enters while the
switch is on, so `trips + Cardinality(InFlight)` cannot grow beyond the number of
tasks. `SwitchSafety` puts these together into the property `SwitchIsRight` of the run.

**ExecutionService.** Two executed calls with one key must have overlapped, or the
validator has forgotten. By itself this is not kept: a call that is at Freqtrade has not been
remembered yet. `DuplicatesHaveMet` therefore speaks of calls that are sent and of calls that
are executed, `SentHaveMet` says that any two calls at Freqtrade met there, and
`RecentIsExecuted` that the validator knows every executed key until there are more of them than it
holds. The rate bound rests on `CrowdCounts`: the calls of a pair that are
at Freqtrade are no more than those that shared the limiter's check, and a record that
enters the window comes from one of them. `StepKinds` sorts the many endings of `execute` into three
kinds (a call leaves for Freqtrade, is answered, or neither), and the counting is done for the kinds.

**LaneScheduler.** `InPlace` ties queues, active sets and records to the status of each task,
`Sorted` gives every queue the order from which the place of a new task is computed, and `JobsRun` ties
running tasks to the workers that hold them. That a worker performs the most urgent waiting task is then the head of a
sorted queue, which is what the refinement to the task board needs; workers, cancellations and cut
histories are stutters of the board. `KnownWorkers` is the strengthening of "stop leaves no worker behind": without
overlapping starts a live worker is the one in the slot of its lane, and `stop` has ended those of the lanes before `stopAt`.
The lemmas before it are about sequences without repetition: insertion in order, removal of the
head, and the last elements of a longer list.

### Clients and buses

**FreqtradeClient.** The bot acts at the moment that it answers. `UnservedDidNothing` says that a request that is
still to be answered, limited or refused has no act to its name; it is what keeps a second attempt from
acting twice. The proof depends on the missing `sleep`: after a lost answer there is no attempt.

**LLMGateway.** `CountsAreBounded` and `UnaskedIsNeutral` tie the position of the call to its
counts: before the prompt is screened no model was asked, and the fallback is asked only when `first` has reached its
limit. `AskedIsHarmless` carries the verdict on the message, given once, over all later attempts: the raw text
that the fallback gets is one that passed. The theorem does not say that the fallback gets the screened
text, which is false (section 5); it says that the raw text goes to the fallback and to no other model.

**MarketData.** Fetches of one key overlap and the last to be stored wins, which need not be the
last that was read. `FetchesAreYoung` bounds what a fetch carries by its own duration, and
`EntriesAreYoung` what is stored: it expires no later than a time to live and a flight after it was read.

**Buses.** What was heard of a topic over one line, what waits there and what is still unsent are one rising sequence of
numbers; this is what a step of either bus has to keep (`Ordered` in memory, `Line` over Redis). In memory
the lines are the queue objects: a listener keeps the one it found, `close` makes new ones, and an
object belongs to one topic for ever. Over Redis they are the pub/sub objects, whose buffers mix all topics, so the statement is
about the messages of a topic wherever they stand. That a topic outside `twofold` comes in order over all objects together
needs that at most one of them can still bring it forward at a time: one that a listener polls, or the present
one (`Carriers`). Everything but publishing and hearing is a stutter of `TopicChannel`.

### Services

**TradingSystem.** `StopsInOrder` says how far the shutdown is: the tasks before the position of `stop`
are off, and the connections at it or after it are open. Since every task that uses a connection comes before
the connection in `Shutdown`, nothing uses what is closed. An order follows a decision to trade
(`OrdersAreDecided`), which is what the notification depends on, so that an order cannot
skip it.

**Delegation.** The limit is compared with a counter, so the step property needs that the
counter tells the truth: `slots[a]` is the number of delegations that `a` serves (`SlotsCount`),
also across cancellations and links that are replaced meanwhile.

**TaskScheduler.** `AtMostTwice` is a statement about one minute, but the loop sees half minutes and sleeps by
the clock: `RunsCounted` keeps the account at every half, with what the loop last saw. A nap leads
into the next half, and a minute that matches at its start matches until its end because the
fields are of whole minutes. `StopsInTurn` says that nobody is alive in the list before the place that
`stop` waits at, which the removal of a loop that ends by itself must not disturb.

**Heartbeat.** A report reads the counter, awaits callbacks, and others report meanwhile. The counter is
related to the reports of the agent since its registration (`EndsIn`: exactly so many
failures end them), and the bounded history to the same sequence from its end
backwards (`Agrees`), since its beginning is cut off and agents are mixed in it. "Critical exactly
at the limit" follows from the step that judges, because the increment and the
judgement are not separated by an `await`.

**Tracing.** A serial number is open under one id, has ended once or was displaced (`OpenOnce`,
`OpenIsNotEnded`, `EndedOnce`, `SpansAreCounted`), and the history is the end of all that
ended (`EndOfAll`). What a reader gets, the newest spans of an agent, newest first, is a
filter, reversed and cut, of that end; the lemmas about filters of an end of a sequence are where
the work is.

### Agents

These components compute, so the module begins with what computation needs: induction over the naturals
(`LeastNat`, `UpTo`), which the library offers as minimal elements of a well-founded order and in no
other form that the provers here can use; the existence of the function by which the community modules define a
fold (`FoldExists`), how it runs along a sequence (`FoldRuns`) and sums over sequences
and over finite sets (`SumFacts`, `SumAdds`, `SumGrows`).

**KnowledgeGraph.** The index is right in both states of the file, the one that the connection sees and the one that a restart would
find; each action replaces one of them by the other or changes one by a statement that keeps it. An
entity whose adding succeeded has a row under its present name (`failed` holds the others), and a row that is not
returned has `Limit` matching rows before it, which cannot all be rows of others unless there are as many.

**NewsSentiment.** `ScoreNeedsBoth` does the arithmetic of the weights: a score beyond a threshold
cannot be had against the view, nor, to buy, without a crowd.

**MarketMonitor.** A sample that is k deviations above the mean of the n samples it is itself part
of needs (n - 1)^2 > k^2 n (`AnomalyIsRare`). It follows from the Cauchy-Schwarz inequality for
the other samples (`CauchySchwarz`), which is proved for sequences of any length; for the
three deviations of the code this is the "eleven, not five" of section 5.

**RiskSizing.** The size of the engine is a quotient of integers; that it never exceeds the limit
it is checked against is a fact about `div`. The stop of a position is a share of its entry or of its highest price, and
the highest price only rises.

**AlphaSeeker.** `ToldOnce` counts: how often the events of one key were told is at most the number of cuts, and one more while
the key is remembered (`Known`). Overlapping cycles may hold the same event; the second finds its key.

**Backtest.** `Books` balances cash, position and the sum of the results in every state,
buying and selling being the two steps that move money from one side to the other. `DeepestFall` shows that one pass with a running
peak finds the largest relative fall between any two snapshots, comparing fractions by
cross-multiplication.

**DecisionEngine.** That the order of arrival does not matter is shown for two signals that change
places, of which every other order is made: deduplicating keeps the latest of each key, so the set of
kept signals is the same unless two of one key carry one time, and scores and confidences are sums over
that set. A decision to trade has a signal of its direction because a sum has the sign of
one of its terms (`SumHasSign`).

**Analyst.** `Stand` says of the signals so far and the readings so far what `SignalsStand` says at the end:
each sound strategy has one signal per timeframe that met its rules and none elsewhere, boosted
afterwards or not. The boost at the end changes confidences only.

### What is model-checked only

* All liveness, because the prover handles neither fairness nor `ENABLED`: `HonouredIfPolled`,
  `CallerReturns`, `CallEnds`, `MonitorServes`, `Progress`.
* The other half of "side by side": that the composition has every behaviour of a component (an
  existence of behaviours, not a safety property).
* The counterexamples of the violation runs.

## 5. Where the code and its documents disagree

Found while modelling, each shown by a run:

1. `approval_last_window` - `_handle_approval` tests `waited < max_wait` before it polls
   and not after the last sleep, so an approval in the last interval is recorded as
   approved and the order is refused.
2. `execution_shipped` - `execute` builds orders of size 0.0, which the validator rejects.
3. `guardian_drawdown` - the monitor loop checks no drawdown, having no value to check.
4. `lanes_limit` - `start` on a running scheduler doubles the workers of a lane.

Seen while modelling; the models do what the code does, and where a property had to make
room for it, its comment says so. They have no run of their own.

* *Kill switch.* No code calls `save_kill_switch`: the guardian's switch never becomes a row
  that the risk engine reads, so it halts no trading (`README.md:164`,
  `docs/ARCHITECTURE.md` say it does). Nothing calls `set_portfolio_value`, so the peak stays 0.
* *Approval.* `docs/FEATURES.md:298` lets the timeout lead to EXPIRED; only `check_expired` writes that
  status (`approval.py:245`) and it has no caller, so a request that nobody answers stays pending.
  `CallerReturns` therefore speaks of the caller alone.
* *Execution.* An attempt without consent is not
  in the audit log; `create_order` of the client uses neither the amount nor the side of its
  arguments; the trade notification is sent for refused orders too.
* *Workflow.* The graph adds nodes under names that are taken, and analyst,
  sentiment, risk and alpha have no edge from the entry point, so the cycle runs the market
  monitor, the decision engine and the execution only.
* *Periodic scheduler.* A short cron function runs twice in a matching minute (`AtMostTwice`); one
  that takes longer than a minute skips the matching minutes that go by meanwhile.
* *Delegation.* The slots of an agent are compared with the limit of each link, so one link can be
  refused because of what others occupy.
* *Message bus.* When the reconnect loop or a second `connect` makes a new pub/sub object, a listener in the
  middle of a poll is still subscribed through the old one, so a message can be received twice, through both
  (`redis_bus.py:76`, `:133`; `InOrderUnlessTwofold`).
* *LLM gateway.* `docs/FEATURES.md:723` says that all user messages are sanitized before they are sent; the
  attempts on the fallback pass `messages` and not `sanitized_messages` (`litellm_gateway.py:103`, `:142`), so it gets
  the text as it came (`FallbackIsLast`: `shown = "raw"` exactly then). An answer without content, or a JSON that is no object, raises out of
  `classify_sentiment` (`litellm_gateway.py:188-198` catches neither error).
* *Freqtrade client.* The back-off calls a `sleep` that the HTTP client does not have, so
  there is no second attempt (`client.py:102`); that is also why an order cannot be
  sent twice (`ClientIsTrue` fails as soon as the sleep works).
* *Heartbeat.* `run_check` uses `inspect` without importing it: every check fails.
* *Decision engine.* The boost takes the score out of the range that
  `calculate_score` promises; `min_confidence` is unused; the explanation awaits a dictionary
  and is always "N/A"; a failed commit leaves the shared session broken.
* *Market monitor.* A flash crash is measured against the oldest price of the last minute, not
  the highest, so a rise and fall within it is not seen; the volume is part of its own
  history, so three deviations need eleven samples, not five.
* *Alpha seeker.* The key of an on-chain flow does not name its direction, so a reversal
  is never told (`alpha_seeker.py:653`); that of a whale names neither end, so a deposit and a
  withdrawal of one amount are one event (`alpha_seeker.py:230`).
* *Analyst.* The multi-timeframe boost counts timeframes and not their directions
  (`analyst.py:704`); the "crossover" of averages does not look at the previous value;
  the timeframes and pairs that strategies configure are ignored
  (`config/strategies/README.md:17`).
* *Sentiment.* A missing social service counts as no interest at all, so no signal to buy
  is possible without it.
* *Knowledge graph.* `INSERT OR REPLACE` on a full-text table inserts, so a search finds an entity by
  its old names, once per renaming; those rows count against the `LIMIT` of a search, so ten additions of one entity
  can hide another of the same name (`knowledge_graph.py:188-205`).
* *Backtest.* `finalize` sells at the entry price of the position and reports the
  value from before; a trade's profit leaves out the fee of its entry, so a loss can count as
  a win (`docs/BACKTESTING.md:105`).
* *Risk rules.* The daily loss is 1 % of the refused orders of the day
  (`engine.py:52`); `calculate_dynamic_size` bounds the risk where its parameters
  name the size (`position_sizing.py:133`), so a boosted size is refused by the engine.

## 6. What is not modelled

* The arithmetic of indicators (the `ta` library) and statistics on floating-point series (Sharpe, Sortino,
  annual figures): TLC has no reals. Where such a number decides control, it is a choice among
  readings (`Analyst`) or an integer (`MarketMonitor`, `Backtest`).
* Matching and scoring of text, prompts, vector search (`data/vector_db.py`): how many patterns or which
  view a text gives is a choice.
* HTTP, SQL and Redis themselves: they appear as what may come back.
* `data/coingecko.py` and `backtesting/replay.py`, which nothing uses or which print what was
  stored; `agents/reasoning.py`, a log.
* Warnings and log entries: they change no state that anything reads.
* The reconnect loop of an earlier `connect`, which `close` does not cancel, in the moment before it sees that the
  bus was closed; and delays between the Redis server and a listener: what was published is in the buffer at once.
* Encryption of secrets, metrics export, configuration files, dashboard, set-up scripts: pure input and
  output. The scripts under `.agent/` and the vendored skills are tools of the
  authors, not part of the program.
* The life of a process: nothing in the modelled parts is read back from disk at a
  start, except order rows, kill-switch rows and the knowledge graph. A restart of the whole program is
  therefore `Init` with those rows; `ExecutionService` covers it by letting
  the kill-switch row be set at any time, `KnowledgeGraph` by `Reopen`. Duplicate memory,
  rate limit, seen events and histories begin empty after a restart.

## 7. Plan

Done: the core (approval, execution, guardian, lanes), the composition
(`TradingSystem`), the libraries of the agents, the clients, the algorithms, and a theorem for every
safety property that the runs check. Next, in this order:

1. *Proofs*: the safety half of what liveness rests on, as theorems: the deadlines that bound how long a poll,
   a delegation or a fetch can go on, and that the waits of `stop` get shorter with every step.
2. *Composition*: approval and execution joined by their theorems, so that the gate of
   `ExecutionService` is shown to be the one `Approval` implements in one statement.
3. *Composition*: guardian, kill-switch rows and `execute` in one module with
   the statement that a tripped guardian halts trading, once the code persists the switch.
4. *Larger instances*: three clients' requests and three askers, when the runs leave
   room in TLC's time.
