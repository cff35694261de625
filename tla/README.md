# A TLA+ model of iron-pilot

iron-pilot is a Rust program in which an AI provider proposes trade plans, a
deterministic validator accepts or rejects them, and a paper executor carries
them out against market observations; everything that matters is a row of one
SQLite database. Beside that path stand a single-instance lease, an emergency
controller that sells what is managed, supervised tasks with bounded queues, and
adapters to Bybit, DeepSeek and Telegram.

This directory holds TLA+ modules of the parts that decide what happens to plans,
orders and lots, of the adapters that talk to the outside, and of the market features
and their replay, the configurations that TLC checks them with, and proofs that tlapm
checks. Every definition is named after the
code it stands for; `PROJECT.json` gives its lines.

## Inventory

Paths are under `src/crates/`. "Hard" says where tests hardly reach; "correct" says
what must hold.

| Component | State | Operations | Interacts with | Hard | Correct |
|---|---|---|---|---|---|
| Instance lease (`ironpilot-adapters/src/persistence.rs`) | one row: owner, expiry | acquire, renew, release; a check in every tradable write | every write below | takeover races, caller-supplied old timestamps | one holder; a superseded owner is fenced |
| System state, audit, outbox (`persistence.rs`) | `system_state` row and append-only tables | compare-and-swap change, forced HALTED | emergency; nobody reads the outbox | stale expected state | a halt is left by recovery only |
| Trade-plan ledger (`persistence.rs`, `decision_context.rs`) | plan and action rows | record a plan and its action | runtime writes, validation and execution update | reopened plans meet new ones | one plan per instrument under way |
| Execution validation (`ironpilot-application/src/execution_validation.rs`) | evidence per action | validate against facts, persist | reads plans, orders, lots | facts older than the decision | accepts only what the facts allow |
| Paper execution (`paper_execution.rs`, `execution.rs`) | orders, specs, fills, the action's and plan's states | submit a request; process an observation | lots, ledger, emergency | a long transaction over rows read once; partial fills; expiries | no overfill, no lost lot, plans follow their life cycle |
| Managed lots (`persistence.rs`) | FIFO lots | open, consume by instrument, consume by plan | paper execution, emergency, reconciliation | lots of several plans on one instrument | lots account for fills |
| Emergency core (`emergency.rs`) | action state, fills | execute, replay | all of the above | replays with old observations, missing observations | sells managed lots only and once; COMPLETED means flat |
| AI paper runtime (`paper_runtime.rs`) | cycle log of events | run a cycle from input to report | provider, ledger, validation, execution | a crash between any two steps, two runs of one cycle | a cycle executes at most once, and its log and report say whether it did |
| Bounded queues (`ironpilot-application/src/runtime.rs`) | channel, two atomics | try_send, recv, drop, snapshot | tasks, health | every access interleaves | depth accounts for events, bounded |
| Supervision and health (`runtime.rs`) | JoinSet, issues | spawn, reap, shutdown, health level | all tasks | tasks end while shutdown times out or is dropped | no fault lost; shutdown ends |
| DeepSeek provider (`deepseek.rs`, `ai.rs`) | in memory: budget of the day, replanned contexts, one permit | reserve, request, settle or release, replan | runtime | answers lost or refused after a reservation, a new day, a dropped call | the budget counts what was asked, once |
| Telegram (`telegram.rs`) | challenges in memory; cursors of the caller | views; challenge and confirm an emergency; notify audit events | emergency, audit | repeated updates, replies that fail, restarts | a challenge authorizes once, its operator, in time; no cursor skips work |
| Bybit private sync (`bybit_private.rs`) | sync state, orders, wallets, executions, events | stream events, REST snapshots, acknowledgements | portfolio, contexts, smoke | gaps, reordering, reconnects, snapshots beside the stream | after a gap nothing is served without a reconciliation; what is served is current |
| Bybit public REST and stream (`bybit_public*.rs`) | cursors per topic, freshness, session and backoff | connect, subscribe, read, heartbeat, shut down | queues, health | late, repeated and restarted messages, sessions that fail in a row | a consumer sees only news; fresh means delivered; a shutdown ends it |
| Bybit Testnet smoke (`bybit_testnet.rs`) | acknowledgements, intents, executions | place, query, cancel, sell, clean up, recover | exchange, private sync | calls that time out after taking effect, other orders of the account | sells only what it bought; ends with nothing open |
| Portfolio and reconciliation (`portfolio.rs`, `persistence.rs`) | balances, lots | apply fill, reconcile | private sync | local and remote differ | mismatch stops trading |
| Replay (`replay.rs`) | clock, records, one eligibility engine per instrument | check a dataset, run it | features | what is available at an instant | nothing is seen before it is known |
| Historical harness (`historical*.rs`) | - | drive the store with recorded data, evaluate | paper execution | - | - |
| Paper soak (`paper_soak.rs`) | evidence of a run | evaluate | health, queues | limits and consistency of evidence | a sound run is not disqualified |
| Market features and eligibility (`market_features.rs`) | bounded maps of events seen and cooldowns | indicators, levels, patterns; decide what becomes an event | replay, contexts | ties and rounding; full maps at a boundary | no direction is favoured but by the two ends of the channel; events are a cooldown apart |
| Domain values, configuration, resources | none | pure functions, parsing, sampling | - | - | - |

All database calls take one write gate (a mutex around the pool) and run in one
transaction each, so calls are atomic with respect to each other and to crashes;
what interleaves is the callers, each of which acts on something it read earlier.

Left out for good: the empty binary, `legacy/v2`, vendored SDKs, request encoding,
log and view formatting, configuration parsing.

## Modules

| Module | Models | Checked by | Proofs |
|---|---|---|---|
| `InstanceLease` | the lease row and the tradable-write check | `MCInstanceLease` | `RuntimeProofs` |
| `PaperStore` | ledger, validation evidence, orders, lots, observations | `MCPaperStore` | `EmergencyCoreProofs` |
| `PlanLifecycle` | abstract: how committed plans go from state to state | `MCPaperStore` | `EmergencyCoreProofs` |
| `EmergencyCore` | extends `PaperStore` with system state and emergencies | `MCEmergencyCore` | `EmergencyCoreProofs` |
| `BoundedQueue` | one queue, every atomic access a step | `MCBoundedQueue` | `RuntimeProofs` |
| `RuntimeSupervisor` | tasks, shutdown, health level | `MCRuntimeSupervisor` | `RuntimeProofs` |
| `AiProvider` | the DeepSeek provider: budget, permit, replans, every end of a request | `MCPaperRuntime` | `PaperRuntimeProofs` |
| `CycleLedger` | abstract: what a cycle promises | `MCPaperRuntime` | `PaperRuntimeProofs` |
| `PaperRuntime` | extends `AiProvider` with `run_cycle`, several runs at once, restarts | `MCPaperRuntime` | `PaperRuntimeProofs` |
| `Portfolio` | the reconciler's operators | `PrivateSync` | `PrivateSyncProofs` |
| `PrivateSync` | extends `Portfolio` with the private stream, snapshots and what a context is served | itself | `PrivateSyncProofs` |
| `TestnetSmoke` | the smoke run, its clean-up and recovery, and the exchange | itself | `TestnetSmokeProofs` |
| `Telegram` | polls, challenges, replies, notifications | `MCTelegram` | `TelegramProofs` |
| `PublicStream` | sessions, verdicts on messages, freshness, queues | `MCPublicStream` | `MarketProofs` |
| `MarketFeatures` | operators: windows, indicators, levels, patterns | `MCReplay` | used by `MarketProofs` |
| `Prefilter` | extends it with the eligibility engine | `MCReplay` | `MarketProofs` |
| `Replay` | extends it with datasets, the replay's clock and a shared engine | `MCReplay` | `MarketProofs` |
| `SumTheorems` | no code: what sums over finite sets satisfy | | itself |

A definition whose name begins with `Mutant` is the neighbouring definition with a
plausible fault. No specification uses it; substituting it shows that a property
notices that fault.

### InstanceLease

`row` is the table's one row, `handle[o]` the `InstanceLease` value instance `o`
keeps, `now` the wall clock. The calls compare the row with a timestamp that their
CALLER took earlier: `at` is any of the last `MaxLag` ticks. `superseded` and
`lastWrite` are history variables.

### PaperStore

`plan`, `action`, `order` and `lots` are the tables (`trade_plans`,
`trade_plan_actions`, `paper_orders` with their specs, `managed_lots`). An order is
named by its action and its role, and a role is its rank in the ORDER BY of
`process_observation`: stop, entry, reduction, exit, take-profits.

* `RecordPlan`, `PersistValidation` and `Submit*` are one action each, as each is
  one transaction. Facts are read when the validation is persisted; submission is
  a later step, before which anything may happen.
* `process_observation` is a loop with many branches, so it is one action per row
  between `BeginObservation` and `CommitObservation`. `tx` holds its locals; the
  write gate keeps every other call out (`Call`). The set of rows is read once,
  as in the code. `AbortObservation` is an error at any row or a crash, and
  restores `saved`, the committed tables.
* Prices, triggers and slippage are the choice between `NotMatched` and a fill.
  A deadline once over stays over while it has an order to end (`passed`).
* Validation rules on prices, losses, balances, time and authorization only
  reject more, so `PersistValidation` may reject anything and accepts only what
  `Acceptable` allows.

`PlanLifecycle` is what a reader of `trade_plans` may rely on: a commit moves one plan at
most, only along a transition that some call makes, and proposes one only for an
instrument without a plan under way. `PaperStore` implements it with the
committed table as the plans, so what an observation does before it commits is a stutter
and what it leaves is one step, or none after an abort.

### EmergencyCore

`Execute` is the whole of `execute`, one transaction: the first execution halts
the system, cancels every order and stops every submitted action; each execution
sells lots plan by plan against one observation per instrument and records the
sale under (command, plan, observation). Plans are visited in the order of random
ids, hence in any order. Between two executions the store goes on. The states
REQUESTED, ENTRY_DISABLED and ORDERS_CANCELLED exist inside the transaction only.
`ChangeSystemState` takes an expected state that may be stale.

### BoundedQueue

Each access of `try_send`, `recv`, the receiver's Drop and `snapshot` to the
channel, an atomic or the health is a step; senders, the receiver and a snapshot
interleave freely. A sender is in `sender[s]` between reserve, `fetch_add`,
`fetch_max` and send. The atomics are taken as sequentially consistent: each
property is about one location, or two loads in program order.

### RuntimeSupervisor

`tasks` is the JoinSet, `task[t]` how a task is doing. A call takes `&mut self`, so
`call` names the one that holds the supervisor. `shutdown` is a future:
`DropShutdown` is its caller dropping it at an await, after which any call may
follow. Tasks end at any time, also between the deadline and the abort.
Issues are kinds, per task where the code names the task. Staleness of a
resource sample is computed by a snapshot and never stored; it is left out.

### AiProvider, PaperRuntime, CycleLedger

`run[r]` is the local state of one call of `run_cycle` by `r`: its position, its own
event sequence number, its attempt. Two callers may run the same cycle, as nothing but
the primary key of `paper_runtime_events` keeps them apart. Every transaction and
every call of the provider is a step of its own: `StorageFails` is any of them
returning an error, `Cancel` the caller dropping the future while a request is in
flight, `Restart` the process dying between two steps.

`call[c]` is a request on its way through `generate_plan` and `execute`: the replan is
reserved first and never given back, the day is stamped before the permit is taken,
the reservation is settled or released by how the request ends. `bill` is a history
of what was asked since the budget was last reset; `BudgetIsExact` compares the two.
The days that begin with a request in flight are excluded by name (`straddled`): the
request then settles into a budget that never reserved it.

`CycleLedger` is the promise to a reader of the log: opened once, executed at most
once and only while open, closed once with an outcome that says whether it executed.
`PaperRuntime` implements it with the refinement mapping at its end.

### PrivateSync and Portfolio

`exchange` is what the exchange has, as revisions; `inbox` the messages on their way,
taken in any order; `facts`, `events`, `sync`, `evidence` the tables. A snapshot
is fetched, stamped and applied in three steps, with messages before, between and
after. `Restart` loses the connection and the fetched snapshot, never a row.
`ContextPortfolio` is what `load_context_facts` makes of the rows with the reconciler
of `Portfolio`. `sound` is the history that `ServedFactsAreCurrent` is conditional on:
a snapshot fetched with the stream up and applied with nothing ingested or changed
meanwhile, and no crash and no failed message since. Where `sound` is false the code
serves rows that may be old, and the stored state does not show it.

### TestnetSmoke

`run.pc` is the position in the smoke run; each call of the exchange is a step that may
succeed, fail before its effect, or fail after it. `orders` and `executions` are the
exchange's, with a buy order (`Foreign`) of the account's owner. It is filled like any other,
and its executions come in the same history and on the same private stream; only the
link of an order tells them apart (`OwnedExecutions` in the clean-up, the link of the probe in
`ManagedBoughtQuantity`). Runs follow one another over one database, each ended by a report,
a clean-up or a crash, and the recovery command may come between. A request that timed out does not take
effect later: its receive window is shorter than the timeout of the call.

### Telegram

`poll` is `poll_once_with_emergency` with the updates of its batch, `cursor` what the
caller keeps. An update is in `updates` for good, and Telegram returns those after
the cursor, so a failed poll sees them again. The clock of a poll is read once, at
its start. `accepted` records which acceptances were sent without an error, and in which process;
a challenge and a command carry their process too, since a restart forgets the challenges.
What the read-only views say is not modelled, only that they answer or fail.

### PublicStream

`phase` and `session` are a session from its connection to its failure, backoff and
the count of failures in a row; `cursor`, `vouched` (the freshness that others read) and
`given` (the last thing queued) outlive sessions. The exchange's history is a
constant; the node behind a connection may lag, so that a new session repeats or goes
back. The timers of a session fire whenever it is in the stage that has them.

### MarketFeatures, Prefilter, Replay

The indicators are recursive functions over sequences of whole prices, with fractions
rounded half to even where the code rounds; `Scale` stands for its decimal places.
`NewEngine`, `Prune` and the evaluation follow the eligibility engine with its two
bounded maps. In `Replay` a request is a manifest and the data handed in with it, and a
state has several replays side by side, so that `NoLookAhead` can compare them. The
shared engine beside them serves several instruments, as its interface allows and the
replay does not use it. Its events are numbered, so that two at one instant count as two.

`Seen`, the data of an instant that `NoLookAhead` compares, is stated from the times of candles and
books and uses nothing of the code's selection.

`MirrorImage` is about the features of a whole window and of its reflection. The channel is
asymmetric by design: its upper end looks back 20 candles and its lower end 10
(`market_features.rs:11-12`, `docs/MARKET_FEATURES_V1.md:48-49`). So the reflected market has
the reflected channel only when both extremes lie where either end looks, and only then are
key location and pattern, which are judged at the channel's ends, claimed to be mirrored. TLC
violates the property without that condition. RSI, the averages, ATR, ADX, volume
and the alignment do not look at the channel and are mirrored or kept always.

## Runs

Run with `tlc -config X.cfg M`; the largest take two to four minutes.

| Run | Bounds | Result |
|---|---|---|
| `lease` | 2 instances, 6 ticks, leases of 1-3, lag 2 | one holder, fencing |
| `store` | 2 plans of one instrument, 3 actions of any kind, quantity 2, 1 take-profit, liquidity 2; 1.1 million distinct states | one plan under way, plans follow `PlanLifecycle`, a plan pending entry has its order, no overfill, lots account for fills, protections wait for the entry |
| `emergency` | 2 plans of one instrument, 3 entry or exit actions, 2 observations, 1 command, changes of the system state with a stale expectation; 398,000 states | lots sold once, finished orders stay finished, COMPLETED means flat, a halt stands |
| `queue` | 3 senders, capacity 2 | depth accounts for events, metrics bounded by the capacity and one, watermark covers, a snapshot is off only during a send |
| `supervisor` | 3 tasks, one critical, limit 2 | no fault lost, reports add up and are explained, shutdown ends |
| `cycle` | 2 callers, 2 cycles of one context, 2 attempts, 1 observation, 2 days, limits of 2 calls, 3 tokens, cost 4; 771,000 states | a cycle is executed and reported once, its log matches its effects, one replan per context over restarts, exact budget |
| `private_sync` | 2 orders, 1 wallet, 1 execution, 3 changes, 2 messages at once, 2 ticks, 2 disconnects; 524,000 states | one reconciliation per disconnect, projections are the newest facts, served facts are current under the named conditions |
| `testnet` | 2 runs, a buy that fills in 2 executions, fee 1, minimum 2, an order of the owner's that may be filled too; 685,000 states | no more is sold than owned orders bought and the owner's order is not cancelled, one unrecorded order per run at most, ended runs leave nothing open |
| `public_stream` | 1 instrument, 4 candle and 4 book messages with a restart of the book, queue 2, 3 failures; 1 million states | consumers see only news, fresh means delivered, gives up only when barren, shutdown ends |
| `telegram` | 2 chats, 2 users, 3 updates, 2 challenges, batches of 2, 1 restart, 3 audit events; 588,000 states | challenges authorize once, commands are entitled by a challenge of their process, cursors skip nothing |
| `replay` | windows of 4 candles, 64 series of 3 candles of 4 shapes, 3 last books, cut at 2 instants; 3 instruments on 1 engine with room for 2, 6 instants; 140,000 states | no look-ahead, features of a reflected window are reflected as far as its channel is, events are spaced |
| `telegram_lost` | as `telegram` | violated: see below |

Why the bounds are enough: two plans are what one-plan-per-instrument and FIFO
lots need to go wrong; a third action lets the second plan act after the first
was cancelled or exited; quantity 2 and liquidity 1-2 give partial fills, and one
take-profit competes with stop and exit. Three senders are one more than the
capacity; a limit of two with three tasks leaves one refused. Two runs of one cycle
and a second cycle of its context are what the primary key of the log and the index on
replans are for, and each limit of the budget can be the one that is reached. Two changes of
one key and two messages on their way are enough to reorder, repeat and lose. Two runs
of the smoke let the second meet what the first left. Three updates are a request, its
confirmation and one more that fails or repeats. The candle shapes were chosen so that
each pattern and each location occurs, which mutants of them confirm. Ids, quantities and
deadlines run out in these instances, which is why deadlock is not checked there;
the runs of the lease and the supervisor check it.

### Where code and documents disagree

`telegram_lost` violates `AcceptedCommandReturns`: an emergency's acceptance is sent without an
error, then a later update of the same batch fails (in the trace, a query whose rows cannot be
read); the poll returns the error and drops the command, whose challenge is used up, so the
repeated confirmation is rejected. The property asks nothing of an acceptance that could not be
sent, nor of one whose process was restarted: the later failure alone loses the command.

The following properties are stated in their modules, with the sentence of the
repository they come from, and TLC violates each. They are no part of a passing run;
to see one, make it the only INVARIANT or PROPERTY of the named configuration.

| Property | Configuration | What happens |
|---|---|---|
| `PendingExitIsWorking` | `PaperStore.cfg` | a reduction accepted before the exit sells out; the exit is cancelled for want of a quantity and its plan stays EXIT_PENDING |
| `ClosedPlanIsFlat` | `PaperStore.cfg` with `Actions <- FourActions` | an exit sells the lots a cancelled plan left behind and closes its own plan with its lots left |
| `ExistingStopIsKept` | `PaperStore.cfg` | changing only take-profits cancels the stop the validation counted with |
| `ReplayAddsNoFill` | `EmergencyCore.cfg` | a replay sells the observation's liquidity again, through another plan of the instrument |
| `NoEntryWhileHalted` | `EmergencyCore.cfg` | a plan accepted before the emergency opens its entry after it |
| `WatermarkWithinCapacity` | `BoundedQueue.cfg` | a permit is free before its event is counted off, so the watermark of a healthy queue may be capacity + 1, which the soak evaluation disqualifies |
| `FactsNeverRegress` | `PrivateSync.cfg` | applying a snapshot deletes the rows and with them the newer facts of the stream |
| `ProviderFailuresAreReported` | `PaperRuntime.cfg` | an answer received after its context expired is refused by the store, and the cycle ends with an error and without a terminal report |

Smaller ones, without a property. A tradable write compares the lease with its
event's timestamp, so it may commit after expiry, though never against another holder.
`TradePlanState::can_transition_to`, which only tests call, is another life cycle than that of
the rows: a protection takes an ACTIVE plan to CLOSED and a CANCEL_ENTRY validated before the
fill takes an ACTIVE or EXIT_PENDING one to CANCELLED, neither of which it allows; its
PROPOSED to CANCELLED, ACCEPTED to ACTIVE, CLOSED or CANCELLED and RECOVERY_REQUIRED to ACTIVE
never happen. `PlanLifecycle` states the transitions that do. An emergency that sells the lots a
CANCELLED plan left behind makes that plan CLOSED, and may move several plans in one commit, so
`KeepsLifecycle` is a property of the store without emergencies.

### Hazards no property covers

* `paper_execution.rs:927`, `:255`: a partly filled entry that expires leaves its
  protections staged for ever, and a partly filled stop leaves the rest without one.
  Nothing in the code promises otherwise, so there is nothing to state.
* `paper_execution.rs:873`: an error at one row undoes the whole observation, and the
  next observation meets the same row: the loop is in the model, that it ends is not.
* `emergency.rs:195`, `:294`: an entry-pending plan keeps its state while its entry is
  cancelled; a large position is refused for slippage in a liquid market.
* `telegram.rs:402`: a full table of challenges fails the poll at an update that the
  next poll meets again, until a challenge runs out.
* `bybit_private.rs:712`: after a crash the stored state is still LIVE; see `sound`.
* `runtime.rs:770`: a critical task that returned before the shutdown, but is joined by
  it, passes for one that the shutdown ended; the code cannot tell the two apart.
* `paper_execution.rs:907`: cancelling an order leaves its action EXECUTION_PENDING.
* `replay.rs:527`: one instant without a book fails the whole replay; a cooldown equal to
  the replay's step never suppresses anything.

## Fairness

`RuntimeSupervisor` and `PublicStream` state liveness.

`RuntimeSupervisor!Fairness` says that the timer of `timeout_at` fires (`Expire`,
`TimeOut`), that the runtime polls a future its caller keeps (`JoinNext`,
`JoinAborted`, `Report`), and that an aborted task reaches an await and is cancelled
(`Cancel`). The last is an assumption about the tasks: the code's wait after
`abort_all` has no deadline of its own, and a task that never yields would hang it.
Nothing is assumed about tasks that are not aborted, nor that a caller drops the
future or keeps it.

`PublicStream!Fairness` says that a connection attempt and a write end, one way or the
other (the attempt has a time limit; that a write ends is an assumption about the
socket), and that `select!` takes the branch of a signal that stays ready. No message,
no heartbeat and no backoff need come.

The other specifications have safety properties only, so no fairness.

## Proofs

`tlapm X.tla` checks each. Every invariant and every action property of the passing runs
is the statement of a theorem, for all values of the constants that the named `ASSUME`s admit,
and so are the refinements of `CycleLedger` and of `PlanLifecycle`.

### What is assumed

* Bounds are positive or natural, ids are naturals where the models number them. `MaxRev` and
  `MaxClock` of the private account are positive, or there would be no fact to type.
* `PeriodAssumption`, `CeilingAssumption`: windows and periods are naturals, and the price that a
  market is turned upside down at is a whole number of steps and an even one, since a price
  between two steps is rounded to the even one of them. They restrict the check, not the code.
* Callers, senders, tasks, plans, actions, emergencies, observations and keys of the account are
  finite sets (`CycleAssumption`, `QueueAssumption`, `SupervisorAssumption`, `ActionsAssumption`,
  `IdsAssumption`, `KeyAssumption`): sums over them exist.
* `HistoryAssumption`, `OrderAssumption`: an exchange publishes something, candles by start
  and trade, books by id from one restart of its service to the next. The code relies on
  the order without being able to check it.
* `RequestAssumption`, `LiveAssumption`: datasets are sequences of candles and books of whole
  instants. What makes a dataset valid is no assumption; the model checks it as the code does.
* `UsageAssumption`, `LimitsAssumption`: usages, prices and limits are what the code parses.

### The lease, the queues and the supervisor (`RuntimeProofs`)

* `LeaseInv` says that a handle never outlives the row it came from and that the row's
  owner is not superseded. `AtMostOneHolder` alone is not inductive: a takeover is safe
  because the old owner's handle is no later than the row's expiry, which is over at a time
  no later than now.
* `QueueInv`: while the receiver lives the depth is exact (`DepthExact`), afterwards what
  the senders may still count is bounded by their permits (`DepthCleared`), since a closed
  channel hands out none; a sender that is about to count proves that there is room
  (`DepthBounded`). `SnapshotIsCovered` is inductive by itself.
* `SupervisorInv`: `AbortIsRecorded` and `CancelledIsAborted` are the strengthening: no task
  is cancelled before ShutdownTimedOut is in the health, so dropped results and silent
  cancellations hide nothing, and `Latched` says that no step takes back what makes the
  level Halted.

### The store and the emergency (`EmergencyCoreProofs`)

* `StoreInv` speaks of the tables one by one, and of the committed copy as of the
  transaction's: that every order that is not absent belongs to a recorded action, that fills stay
  within quantities, which plan states an open order allows. The steps of the observation loop
  are proved one by one; an abort is covered because `saved` satisfies the same predicate.
* `StoreKeepsLifecycle` says that the store implements `PlanLifecycle`. Its invariant `LifeInv` adds
  what an accepted command and each order say of the state of their plan, and that the plans
  an observation has changed are one at most: it concerns one instrument, of which one
  plan is under way.
* `LinkInv` speaks of rows of several tables: an OPEN_LONG is its plan's only one, entries
  belong to OPEN_LONGs and have something left to buy, the rows an observation still has to
  process were open when it began and hold no protection of an entry that works. It gives
  `StagedUntilEntered` and `TerminalOrderIsFinal`, both with emergencies too
  (`EmergencyKeepsProtectionsWaiting`, `EndedOrdersStand`); `Awaited`, on top of it, gives
  `PendingEntryIsWorking`.
* `LotsAccountForFills` and `EmergencyAccountsForLots` equate sums. `Accounts(X)` has an
  argument for what others than orders sold, nothing for the store and `SoldByEmergencies`
  with emergencies, so the store's steps are proved once. A step enters these proofs only
  as its effect (`RowEffect`, `CallEffect`); a FIFO sale is a change of one lot after the other.
* `CompletedIsFlat` is a step property: `Execute` decides COMPLETED from the lots it leaves, and a plan
  without managed lots there has none on any instrument.

### The cycle and the provider (`PaperRuntimeProofs`)

* In `CycleInv` a run that has appended an event is the only writer of its cycle's log
  (`OneWriter`): its sequence number is the length of the log, any other run of the cycle
  still has number 0 and meets a conflict. The place of the writer says whether its cycle
  was executed, so every step of `run_cycle` is an `Open`, `Execute` or `Close` of
  `CycleLedger` or a stutter (`RefinesCycleLedger`).
* `ReplanInv` adds the claim: a cycle claims the replan of its Context when the evidence of
  its second attempt is stored, the index admits one claim, and only a claim leads to a
  second plan. It survives a restart because the claim is a row, and it needs
  `Attempts \in 1..2`, which the code's input check ensures.
* `LogInv`: the effects of a kind are its events in the log plus what the writer's place says
  it still owes; the writer dies owing one at most, and no other run can write.
* `BudgetInv` adds to `BudgetIsExact` that the one permit says who waits for an answer
  (`PermitHolderWaits`) and that only a run that is asking has a call under way
  (`OnlyAskedCalls`), so no step but a cancellation drops a call that waits. A settlement
  never saturates, because an open request still holds its reservation.

* `ObservedInv` counts observations: the writer of a cycle knows how many were applied, its
  place says how many may be, and who finds an empty log finds that none was. With it and the
  earlier invariants `RuntimeTypes` proves the type invariant, bounds on days included.

### Telegram (`TelegramProofs`)

* `CursorInv` and `BatchInv` say that everything behind the place of a running poll or batch
  is done, and that a reported cursor waits to be saved only while no poll runs.
* `ChallengeInv` follows a challenge through its life: offered by its key, being accepted, a
  command of the running poll, returned. It is at one of these at a time and once in either
  list; a key offers one challenge and no two keys the same.
* `EntitledInv` says the same of a command's title at each of these places, and of nonces that a
  message can only repeat after it was told them. That the process of a confirmation is the one of its
  challenge rests on `OffersOK`: what is pending was issued since the last restart.

### The private account (`PrivateSyncProofs`)

* A batch of facts is a left fold; `FoldIsChosen` and `Batch` turn it into a chain of stores, each what
  `PersistEvent` makes of the one before, and later lemmas argue along the chain.
* `EvidenceInv`: a generation that recovers has no reconciliation yet, every later state has one.
* `Newest`: a row is absent and no fact of it was applied since the last reconciliation, or is one
  of them and none is later. A conflict fails the batch and the fold's store is dropped.
* `ServedFactsAreCurrent` is the deepest. `SourceInv` says that rows, messages and the fetched
  snapshot are facts the exchange once had. While `sound` holds, each row is `Current`, or its
  latest fact is `Coming`: on its way and not recorded yet (`SoundInv`), and the same of a snapshot
  that is fetched and not applied (`SnapshotInv`), whose row is the snapshot's or the one kept.
  Served with nothing on its way, every row is current.
* `PrivateTypes`: nothing recorded is revision 0 or of the future. The bound on what is recorded is
  the bound on the exchange, because `SourceInv` says it was told of nothing else.

### The Testnet smoke (`TestnetSmokeProofs`)

`SmokeInv` says which orders the exchange and the store hold at each step of a run, that a run leaves one
order without an intent at most, and that what is for sale never exceeds what the executions of owned
orders left in the wallet: those of the owner's order are taken out of the sum
(`CoveredWithout(Foreign)`). Before the exit it holds without the fill probe's executions as well,
because the run sells these again (`HeldSplit`), and the clean-up's sum is of the owned
executions (`HeldByOwned`). `SellsOnlyItsOwn` follows.

### The public stream and the replay (`MarketProofs`)

* `TopicInv`: until a full queue ends the client, a topic's cursor is the content last queued, and
  the book service did not restart between the node's place and that content.
* `FailureInv`: the count of failures is that of the sessions since the last with data, and one.
* `SpacedInv`: until the cooldown after an event is over, the engine keeps an entry of its
  instrument that runs at least as long, so pruning and a full map cannot shorten it. Numbers are
  at most the number of events, so a new event is later than all, at the same instant too.
* `TraceInv`: a replay has a trace, the states it went through, each determined by what was available
  at its instant. Two traces of data that is the same up to an instant agree up to it: a least
  place where they differ would follow two equal ones (`NothingComesEarly`).
* `UpsideDownIsMirrored` is about one window and its reflection. `WindowInv` says that every
  recorded window is full, has features, and thus positive candles with their prices in order. Each
  average is a fold along the window, hence a chain, and the least place where the chains of the window and of its reflection disagree would
  follow two that agree. A quotient rounded half to even is symmetric around an even number of
  steps, and gains and losses change places (`IndicatorsTurn`). The ends of the channel are the extremes of
  finite sets of prices (`Extremes`), hence integers; where they are reflected, location and pattern
  compare the same differences (`LocationOpposite`, `PatternOpposite`). `FeaturesTurn` puts these
  together for `TimeframeFeatures`. Nothing is proved of location and pattern where the channel is not
  reflected: there the mirror is violated.

### Sums and folds

The provers do no induction over data. `SumTheorems` proves what is needed of
`SumFunctionOnSet` (one index changed, two sums of which one is bounded, a set split in two) by
minimal counterexample: the strict subsets of a finite set are well-founded, hence a set of
subsets that fail a fact has a minimal one. `LeastOf` is the same for naturals and serves the
chains of `PrivateSyncProofs` and `MarketProofs` and the traces of the replay. `Greatest` says that
a finite set of naturals has a last element, which is where a fold over a sequence ends.

### What the proofs changed

* `StagedUntilEntered` said that protections are staged; a target of quantity 0 has no order
  at all, and a cancelled protection stays cancelled. The states are named now.
* `FreshMeansDelivered` has an exception: a book service that restarts and comes to the very id
  that was seen last publishes a book which the client takes for a duplicate. It refreshes the
  topic and queues nothing. The bounds of the run had hidden it.
* Symmetry was proved of helpers at levels that were reflected by hand; stated of `TimeframeFeatures`
  it needs a condition on the channel, whose two ends have periods of their own.
* `SameUpto`, the hypothesis of `NoLookAhead`, compares two replays up to an instant that both reach.
* That terminal plans are final was true and said little; the store now keeps a life cycle, which
  says it and from where each state is reached.
* The averages of the indicators are one fold, `Smoothed`, as they are one loop in the code, and
  a sum of values is the library's `SumFunctionOnSet`.
* The node behind a stream lags, but not behind a restart of its book service (`BehindRestart`);
  otherwise not even the order of queued books could be stated.

### Only model-checked

* `ShutdownEnds` and `ShutdownEndsStream`: liveness under fairness is out of the prover's reach.
* The stream, Telegram and the replay have no type invariant; what of their types the proofs need is
  part of `TopicInv`, `BatchInv`, `TraceInv` and their neighbours.
* The violated properties.

## Not modelled

* The historical harness and its evaluation: a sequential driver of the paper store and
  arithmetic over its report.
* The paper soak: the evaluation of one record of evidence against limits.
* The public REST client: stateless requests and decoding.
* `apply_portfolio_fill`, `managed_position` and `persist_portfolio_reconciliation`
  are called by tests only; the outbox is written and never read.
* Hashes, texts and JSON: two values are the same when what was hashed is the same.
* Domain decimals, configuration, resource sampling, logging, `legacy/v2`, vendored code.

## Plan

1. Abstract specifications: a ledger of positions that `PaperStore` and
   `EmergencyCore` implement, and a counter that `BoundedQueue` implements.
2. Composition: a confirmed Telegram challenge with `EmergencyCore`, and its liveness
   under fresh observations.
