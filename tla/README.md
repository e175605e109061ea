# AI Finance Intelligence: verification project

TLA+ modules, TLC configurations and TLAPS proofs for the application: broker
orders and the kill switch, the scheduler, real-time delivery up to the page,
and the services behind the API. Paths are relative to the repository.

## 1. Inventory

The application is an asyncio FastAPI service. State lives in a SQL database
(one SQLModel `Session` per request or sweep), in Redis when it is configured
(locks, a work stream, presence, pub/sub, blocklist, cache), in the memory of
each worker (socket registry, fallback caches, breaker), in the browser, and at
the broker (Alpaca). One process interleaves async handlers at every `await`
and sync handlers, which run in threads, anywhere; several worker processes
interleave everywhere.

| Component | State | Operations | What is hard | What makes it correct | Module |
|---|---|---|---|---|---|
| Trade execution (`services/trade_service.py`) | `TradeOrder`, `TradeAuditLog`, `BrokerCredential` | execute, cancel, replace, flatten, save credentials | five awaits between the checks and the commit; lost answers, retries, double clicks | one order per key; what is on file is at the venue; nothing behind the halt | `Execution` |
| Order reconciliation (`services/reconciliation_service.py`) | order rows, `Transaction` | sweep, webhook | stale rows in a session that awaits; reordered webhooks; one commit per sweep | each fill booked once and whole; every closed order settled | `Reconciliation` |
| Risk and kill switch (`services/risk_service.py`) | `RiskSetting`, `EquitySnapshot` | configure, toggle, status, gates, snapshot, automatic halt | check-then-act across awaits; snapshot race; midnight | the halt binds what starts later; one flatten per day | `RiskHalt`, `Execution` |
| Scheduler, leader lock (`core/scheduler.py`, `core/distributed_lock.py`) | Redis key with a life, one APScheduler per worker | fire, acquire, run, release | expiry under a slow job, crash of the holder, outage that drops what is to be queued | no overlap without an expiry; the job comes back in time | `JobDispatch` |
| Task queue (`core/task_queue.py`) | Redis stream | enqueue, trim, deliver, acknowledge | failure before the acknowledgement, a Redis error that ends the consumer | neither a failed task nor a dead consumer stops the queue | `JobDispatch` |
| Broker adapters (`providers/*broker*`) | none | place, get, cancel, replace | a retry of what arrived | retries on transport errors only | `Execution` |
| Real-time delivery (`api/websockets.py`, `core/ws_broadcaster.py`) | socket registry, presence count | connect, disconnect, publish, deliver, escalate | two-step updates, expiry, lookup after publish, dead subscriber loop | a steady socket is reached, an absent user is told | `Delivery` |
| Watch alerts, notifier (`services/alert_service.py`, `core/notifications.py`) | `Alert` | create, delete, sweep | rows change under a sweep with one commit | no mark without a message; no triggered alert skipped | `AlertSweep` |
| Web client (`web/app.js`) | sockets, timers, flags | stream, reconnect, sign in and out | callbacks in any order, stale handles | one channel each, silence after sign-out | `WebClient` |
| Ledger, tax lots (`services/portfolio_service.py`, `tax_lot_service.py`) | `Transaction` | record, replay, lots; fills booked by reconciliation | concurrent sales, fills nobody checks; three accountings of one ledger | they agree; no oversell without a race or an uncovered fill | `Ledger` |
| Reports, goals, rebalancing | `EquitySnapshot`, goal | curve, progress, plan | days without snapshots | worst fall is the worst; plans balance | `Reports` |
| Paper trading, automations | `PaperAccount`, `PaperFill`, rules | execute, reset, run rules | read, await, write of the cash; two commits | cash equals start less fills; cooldown holds | `PaperTrading` |
| Copy and git trading | listings, subscriptions, intents, bundles | subscribe, broadcast; stage, diff, commit, push | read, then commit, in threads; rounding at each order | each subscriber and order counted once, no purchase hidden | `CopyTrading` |
| Authentication, token store | blocklists | login, refresh, logout | concurrent refresh, outage, whole-second lifetimes | a spent token stays spent | `Sessions` |
| Encryption, rotation, API keys | ciphertexts, key rings, keys | save, rotate, restart, retire, authenticate | rolling restarts during a rotation | always decryptable | `Vault` |
| Caches, failover, breaker, AI signals, events | caches, counters | get_or_set, call, trip, classify | stale fetches, fallbacks, feeds cut off | a trade rests on fresh data and no veto is ignored | `MarketSignal` |
| Backtest | `BacktestRun` | simulate, walk forward, save, prune | lookahead, bookkeeping, prune after commit | replayable, explained by its trades, capped | `Backtest` |
| Migrations, start-up | schema | upgrade, create_all, serve | rolling deploys of several releases | who serves finds its schema | `Schema` |
| Retrieval, news | two vector stores, filings | index, trim, search | eviction inside a batch, concurrent trims | the index knows what it holds | `Retrieval` |
| Decision panels | guard counters | decide, audit | order of vetoes and votes, missing facts, cents | worse ratios never give a better ruling | `Committee` |
| Signal scorecard | none | read, quote, grade | quotes one by one, edges of buckets | every signal counts once | `Scorecard` |
| Watchlist, assets, activity; numerics; text scoring; HTTP wiring; smoke script | rows per user, or none | | | | not modelled (section 6) |

Execution calls the risk service and shares its rows with reconciliation, which
appends to the ledger; the scheduler starts every sweep; sweeps speak to users
through the broadcaster, whose frames end in the web client. `PROJECT.json`
lists the components with their status, and under `hazards` each place where
the code is exposed, with the properties that cover it.

## 2. Plan

The plan was ordered by what the system must not get wrong: orders to ledger
(`Settlement`, `OrderStatus`, `Reconciliation`), submission and kill switch
(`Execution`), scheduling (`JobDispatch`), the automatic halt (`RiskHalt`), the
way of an alert (`AlertSweep`, `Delivery`, `WebClient`), money (`Amounts`,
`Ledger`, `Reports`, `PaperTrading`), then `CopyTrading`, `Sessions`, `Vault`,
`MarketSignal`, `Backtest`, `Schema`, `Retrieval`, `Committee`, `Scorecard`.
All of these are written and checked, and there are theorems about all of them
(section 5).

Still worth doing: `Reconciliation` with two sweeps at once, which `JobDispatch` shows possible
after an expiry; a frame followed from `AlertSweep` through `Delivery` to
`WebClient` in one behaviour.

Components that share no state share a run: `MCPush` and `MCServices` choose in
the initial state which part moves (`part`), so each behaviour is one of a
single module and the state count is the sum, not the product.

## 3. The modules

### OrderStatus, Settlement, Reconciliation

`Reconciliation` has one session per process that writes orders: the sweep
(`reconcile_open_orders`), the webhook (`ingest_fill_event`) and the user's
requests (`execute`'s persist, `cancel_order`, `cancel_open_orders`, `_resync`,
`replace_order`). `loaded` is the row as the session read it (SQLAlchemy's
identity map keeps it until the commit), `view` the row as the session has
changed it; `Commit` writes only the columns that differ, as the unit of work
does, and appends the session's Transactions in the same database transaction.
`db`, `rows` and `ledger` are committed state, `venue` is Alpaca, `inbox` the
trade-update messages, which are delivered in any order, any number of times or
never.

Abstractions. The price conditions of the booking go with the quantity
condition (the venue gives a positive price with what it filled). A poll and
its effect on the session's copy are one action: before the commit nobody sees
it. A message for an unknown order is a no-op. `ClosedStatuses` stands for the
venue's unfilled ends; they are treated alike. "none" is an order the venue
has not seen. The webhook's load and commit are two steps, which is how two
worker processes interleave; within one process the handler does not await,
and every violation below needs only the awaits of the other sessions.
Autoflush is not modelled (it writes, but does not refresh the copies).
All orders are Alpaca's: the other adapters refuse every call, so no order of
theirs comes into being.

`Settlement` says what this is for: the market ends an order once, and then the
order is settled once, the same way. `ImplementsSettlement` maps `venue` to
`market` and `db` with `ledger` to `book`.

### Execution

A request moves through `halt` (evaluating `RiskService.status`), `gates`
(price, limits, account), `place` (the venue) and `persist`; these are the
places where `execute` awaits. `sawHalt` is the switch as `status` read it
before its own awaits. `record` is the unique index (user, client_order_id),
`audit` counts the audit entries, `told` collects what callers were told.
`PlaceLost` is a transport error with or without effect, and `Transport` the
retry rule. `HaltOn`, `FlattenLoad`, `FlattenCancel` and `FlattenDone` are
`toggle_kill_switch` and `cancel_open_orders`. `earlier` remembers which
requests were running when the halt was switched on (history only).

Abstractions. `trade_enabled` is on. Gates that depend on the request's own
figures pass or refuse freely; the daily limit is exact. The drawdown condition
is an input (`breached`). The flatten skips closed orders; with a stale row the
code sends one more cancellation that the venue refuses. Activity events are
left out: `_record_activity` swallows its errors. That the venue refuses a
repeated `client_order_id` on one account is external.

### JobDispatch

One job. Every worker's scheduler fires once per `Interval` ticks at a phase of
its own; `Fire` is `with_leader_lock`'s acquisition with its branches, `Finish`
the end of the job and the release. `left` is the lock's remaining life,
`outlived` the workers whose lock has expired under them. `Tick` waits for due
firings, so a scheduler never skips a turn while its worker lives. Redis keeps
its keys through an outage.

With the queue on, running the job is an `xadd` on the Redis that also holds the
lock. When it does not answer, failing open repeats the call there: it raises,
`with_leader_lock` raises it again, and nothing runs or is enqueued. `Finish`
decides that at the end of the call, and only then, with Redis up, does `quiet`
start again. So during an outage nothing is promised (`CutOff`), and after it
the job must be on the stream within two intervals, as after a leader's death.
Without the queue an outage promises no less than usual. An `xadd` that Redis
answers ends within a tick.

The stream is trimmed to about its length (`Trimmed` leaves up to `Slack` entries
more). A task that raises is left pending and its consumer goes on (`Fail`);
`xreadgroup` and `xack` are outside any `try`, so an outage a consumer notices
ends `run_worker` and its process (`LoseRedis`), as a kill does (`Kill`). Nothing
in the repository starts it again (compose has no restart policy):
`StartConsumer` may happen and need not. Its successor has another consumer
name, so what was pending stays pending.

### RiskHalt

One account and everyone who evaluates its kill switch. An evaluation is
`RiskService.status` with its two awaits of market prices: `Begin` reads the
settings and the day's `EquitySnapshot`, `Snapshot` inserts one if there was
none (the unique constraint rejects the second, whose evaluation then uses the
first), `Verdict` and `Flatten` are what follows the current equity. A sweep
goes on as `_evaluate_one_account` does: `Flatten` begins `cancel_open_orders`,
`Mark` is `mark_auto_halt_tripped`. `DayPasses` is midnight UTC, at any point.
`flattens` and `interrupted` are history, for the properties only.

Abstractions. What the flatten does to the orders is in `Reconciliation` and
`Execution`; here it has begun and it ends. A missing `RiskSetting` row equals
one with its defaults. `already_tripped_today` reads committed state, because
no reference to the row that `status` loaded is left. The figures of the
answer, its rounding and the notification are left out.

### Delivery

The connections of one user, a frame's sender and the faults between them.
`pc` follows a socket's handler: `Connect` registers it, `Incr` and `Expire`
are the two calls of `_presence_incr`, `HandlerEnds` is the `finally` clause,
`Decr` and `Delete` those of `_presence_decr`. A frame goes through `Raise`,
`Publish` or `PublishLocal`, `Presence`, and one `Dispatch` per worker that
listens; a send to a client that is gone prunes it or vanishes in a buffer.
`RedisFails` may end subscriber loops, which nothing restarts; `TtlExpires` may
fall anywhere. `Offline` is the queue worker, which never starts a subscriber.
`steady`, `alone` and `leaks` are history: `leaks` names the three ways in which
the code leaves the count too high (crash, outage at a DECR, and a prune that
comes before the INCR), and the invariants say there is no fourth.

### AlertSweep

`run_alert_sweep` with one action per alert, whose evaluation awaits; users
create and delete rows meanwhile. The marks are committed together, and the
commit fails as a whole when a marked row is gone; a flush on the way may break
the session earlier (`broken`). `Notify` is the loop over the sinks.

### WebClient

The objects `ws` and `accountWs`, the browser's sockets and timers, and one
action per callback; JavaScript runs callbacks one at a time. `close()` only
asks: `onclose` comes later, possibly after a successor exists, which `late`
remembers. Timer handles are values of their own, since the code compares a
handle it never cleared. The model check stops at a late onclose (constraint
`NotLate`), because what follows is outside what the properties claim.

### Amounts, Ledger, Reports

`Ledger` keeps the committed transactions and what each writer is about to
commit. A request records a sale only if the holding covers it
(`MakeTransaction`); a reconciliation books what the broker reports, whatever is
held (`BookFill`). `uncovered` remembers the symbols of which two sales were under
way at once or a fill was not covered. Holdings, lots and reports are functions of the ledger, as in the code.
Amounts are exact fractions (`Amounts`), as `Decimal` is at this scale; the
rounding of what is displayed is left out. A ledger is a set, read in the order
of its timestamps (`InOrder`). A sale draws on one lot after the other (`Draw`);
a FIFO report takes from the end where it does not add, a LIFO report from the end
where it does (`Acquire`). Pieces carry the year of their sale, by which the code
filters a report. `AccountingsAgree` relates three
independent computations to each other and to the plain sums of the ledger, whoever wrote it.
`Reports` computes curve, drawdown, goal status and rebalance plan over
snapshots with gaps and compares them with definitions by quantifiers: the points
are the recorded days in time, cut to the window (`Points`), and the drawdown is
one pass with the peak so far (`Passed`). A weights request is accepted only if
it adds up to 100 (`WeightsAssumption`); TLC values the holdings at nothing,
the equity or twice the equity, the lemma `PlanBalances` at any amounts.

### PaperTrading

One account; an execution loads the cash, awaits the quote and writes back what
it loaded less the cost. The automaton executes like a request and marks the
rule in a commit of its own, which may be lost (`unmarked`); a rule deleted
under the run ends the run, as the code's re-read raises outside the `try`.
`overlap` is history; `PaperBooksAddUp` promises the books only without it,
because the code loses an update otherwise.

### CopyTrading

Endpoints run in threads: a call reads in one step and commits in another.
`collided` remembers calls of one kind and topic that overlapped; the counts
are exact without it. A push reports the bundle as executed however often.
Quantities count in units of which `Hundredth` make a hundredth, because the API
takes any fraction and `get_diff` rounds the holding after every order
(`ToHundredth`). So the diff promises of an order its quantity less half a
hundredth (`Promised`), and each order can lose as much.

### Sessions

Tokens are numbers with a type, an expiry and a parent. `RefreshChecked` is
`refresh` up to the answer of the blocklist, `Rotate` the block and the new
pair; `LogoutBlock` blocks access, then refresh token. Redis and each worker's
memory hold separate blocklists, chosen by whether Redis answers. Time counts
in ticks, `Second` to a second, because a block lasts whole seconds and a token
does not: in its last fraction of a second a spent refresh token is accepted
again (`security.py:68`), and the properties stop one second before expiry.

### Vault

Credential rows with the key they are encrypted under, the key ring each
process was started with, and the operator as `core/crypto.py` describes him:
prepend a key, restart, rotate, retire. Saves and rotations load and commit in
separate steps and write whole columns. API keys are counted and revoked by
concurrent requests.

### MarketSignal

The value of a price history is the moment it was observed. A request looks
into Redis or the memory of its worker, fetches with the attempts of each
provider, stores, reads the events of the feeds that answer, and calls the
model through its worker's breaker. A news item is a record of how many words
of each list it contains, which is all that classification uses.

### Backtest

The RSI rule over short histories, with fractions in place of floats. `Bar` is
the body of `_simulate`'s loop. A saved run is simulated again on the grown
history (`Replayable`), its result must be what its trades made
(`TradesExplainReturn`), and walk-forward tests must not trade on training bars
(`HeldOut`). Saving and pruning are two commits.

### Schema

One operator per migration, which says what it does to tables and columns.
An instance migrates, creates missing tables, serves. A release is the models
at its revision; a column is needed when a row cannot be written without it.

### Retrieval, Committee, Scorecard

`Retrieval`: the in-memory index per worker and the shared table, whose insert
and trim are two statements; filings are sections of scored paragraphs.
`Committee`: four rule panels as functions of enumerated facts; a request is one
step, and the properties compare the ruling with what worse ratios would give
(`WorseIsNotBetter`) and with the plan's own bounds. The committee reads a fact
of 0 as missing and puts a default in its place (`AsRead`); its ratios are
compared where they are given, because a company whose P/E is unknown counts as
one at 22. Prices are in hundredths of a cent and stop and target in whole cents
(`Share`): from 17 cents on they lie on their sides of the entry, below it they
may pass it by half a cent. `round` is either neighbour of a tie. `Scorecard`: signals and orders are read once, quotes are awaited one
at a time while fills and prices move on. A list of outcomes is a function on the
positions of the signals it has, so that a group of them is a restriction
(`WithConfidence`) and a figure a sum over its domain.

## 4. Runs

| Run | Question | Result |
|---|---|---|
| `reconciliation` | does any order get abandoned, half booked or unsettled, and does every closed order settle? | holds, 1.0 M states |
| `poll_only` | with the sweep as the only booking session, is `Settlement` implemented? | holds, 1.9 M states |
| `double_book` | can sweep and webhook book a fill twice? | yes (finding) |
| `partial_fill` | is a partial fill booked when the order then ends? | no (finding) |
| `execution` | idempotency, halt, limit, orphans | holds, 0.3 M states |
| `behind_the_halt` | can an order reach the venue after the flatten? | yes (finding) |
| `risk_halt` | is the opening final, one flatten per sweep and day, is a breach acted on? | holds, 0.2 M states |
| `job_dispatch` | mutual exclusion up to expiry, the job goes on, the queue moves | holds, 4.3 M states |
| `push` | does an alert get from the sweep to the user, and does the page keep one channel each? | holds, 3.6 M states |
| `account_channel` | can the account channel be dead on the deck? | yes (finding) |
| `services` | the twelve services, each with its own property | holds, 1.7 M states |
| `sale_is_a_loss` | does a sale at a gain leave the equity where it was? | no (finding) |

Deadlock checking is off where the system may stop for good: all orders settled
and no user active, all bounded submissions made, a part of `push` or
`services` whose bounds are used up. In `job_dispatch` it is on.

**Bounds.** `Reconciliation`: one order suffices for every interleaving of
sessions on one row, two add replacement, multi-row commits and the sweep's
partial progress; a quantity of 2 gives one partial fill before the last one;
one crash, because a crash erases the session and leaves nothing for a second
to build on. `Execution`: two requests and two accounts make every pair of
keys collide in all three layers; three starts let a later request see what the
first two left; two lost answers exhaust two attempts of one request. A limit
of 1 is overshot by the second request. `JobDispatch`: an interval of 3 gives a
lock life of 2 and phases before, at and after its end; three workers are the
fewest where a late release could admit a third. A stream of one entry and one
more that the trim may leave is full at once; of two consumers one may be killed
while the other works, and one outage may end either or both. `RiskHalt`: two days give
one midnight to fall between any two steps; two sweeps and a reader race for
the snapshot in all pairs; one interrupted flatten is followed by a complete
one; equities 1 and 2 with a limit of 50 % sit exactly on the limit.

`push`: two sockets on two API workers and a queue worker, one critical frame
and one fault (crash or outage) give every pair of a connect, a disconnect, a
prune and a publish; three streams, two links and three timers are one more
than may be live at once; two alerts and two sweeps let one be deleted while
the other is marked, and marked again.

`services`: ledgers of up to four transactions at two prices, with two sales
under way and days over two year ends; snapshots of four days at four values,
hence every pattern of gaps; three fills, one more than the account reads, with
a request against the sweep; two calls, one signal, two intents of 0.4 and 1.6
hundredths, the one lost and the other gained by rounding; a refresh
token that lives two seconds and a third, with an outage; two keys and three
handlers; a cached history that lives as long as a fetch takes; histories of up
to four bars at three closes, zero among them; four releases, one before and
one after each change that could break the other; stores of two chunks under
batches of two and three; facts on both sides of every threshold and missing
ones, prices of 1.2, 17 and 10000 cents; three graded
signals.

**Fairness.** Reconciliation: the scheduler starts a sweep again and again and
a started sweep runs to its commit (weak fairness, the event loop); a poll that
is repeated for ever is answered in the end (strong fairness of `PollOk`, a
venue that recovers from outages). Nothing is assumed of users, of webhooks or
of the venue ending an order, and crashes are bounded. JobDispatch: a consumer that
lives asks the stream again and again, handlers end, Redis outages end. Nothing
is assumed of a consumer that has ended, and `QueueMoves` excepts the time when
all have. RiskHalt: the
scheduler starts sweeps for ever (weak fairness of `Begin`), and a sweep that
could get on again and again does, that is, prices and the venue are not
unavailable for ever. The safety of `JobNeverStops` needs no fairness: time
itself is an action that waits for due firings. The other modules state no
liveness: a request may always fail, a client may always leave.

## 5. Proofs

TLAPS proves the safety properties for all values of the constants, under the
modules' named assumptions only.

- `ReconciliationProofs`. `SettledOnlyWhenClosed`, `BookedIsFinalFill` and
  `NeverUnsettled` are not inductive: a session may commit a copy of any age.
  The strengthening `IInv` says what a session can hold: its copies were true
  when loaded, the venue only moves forward from there, a pending Transaction
  is the venue's final fill and travels with the reconciled mark, and a message
  in the inbox reports a state the venue has been in. Then a commit, whatever
  it overwrites, can only add the mark to a row that the venue has closed.
  Assuming that at most one session books (`SingleWriter`: a single sweep and no
  webhook, or the converse), `BookedAtMostOnce` and the refinement of
  `Settlement` follow, the latter step by step.
- `ExecutionProofs`. The invariant ties each program counter to the key and
  the account of its request, to the venue and to the book. From it follow
  `OneOrderPerKey`, `OnFileIsAtVenue`, `HaltStopsLaterRequests`,
  `OrphansNeedAFault`, and for finitely many requests `BoundedOvershoot`, by
  counting the rows against the requests that were under way.
- `SchedulerProofs`, about the scheduler and the risk sweep it runs.
  - `JobDispatch`: `OverlapNeedsExpiry` rests on `HolderRuns`: a worker that
    runs under the lock and has not outlived it is the owner. `JobNeverStops`
    rests on `Progress`, which bounds the time since the last start by the life
    that the lock has left and by how far off each surviving scheduler's next
    firing is, and on a call that is under way ending within its tick
    (`Calling`); an outage, in queue mode, starts the count anew.
  - `RiskHalt`: `OneFlattenPerSweepAndDay` counts; the invariant adds that as
    long as the day is not marked, all flattens of the day that a sweep has
    ended were interrupted, and that no flatten belongs to a day to come.
    `OpeningIsFinal` follows step by step from the types; `OneOpeningPerDay`
    (all evaluations of a day compare with one opening) is proved here only.
- `PushProofs`, about the three parts of an alert's way. `Delivery`:
  `PresenceNotOverstated` is not inductive, because an INCR that is still to
  come may follow a socket that has already gone; `CountIsBacked` counts only
  the sockets whose INCR is behind them or will never come, and each of the
  two-step updates, the expiry and the prunes keeps it as long as no leak has
  happened. `SteadySocketIsReached` rests on `Owes`: between publish and
  dispatch a frame owes a steady socket a way, a place in its worker's channel,
  or itself. `AlertSweep`: a mark in the session was sent in this sweep
  (`MarkedIsSent`), and ids are not reused (`NotReused`), so no commit puts a mark
  on a row that belongs to another alert; `missed` stays empty, because the
  notifier tries every sink. `WebClient`: as long as no late onclose has struck,
  what the page holds (`sock`, `timer`) and what the browser has agree for each
  channel (`StreamSound`, `LinkSound`), and on the sign-in page everything is
  closed. `PushTypeCorrect` puts the three side by side.
- `DataLemmas`, induction over finite data. The library's induction theorems take
  the formula as an operator, which the provers cannot instantiate. Here a
  formula is shown for all members of a set by looking at a least one that
  violates it: `LeastOf` among numbers, `SmallestOf` among the subsets of a finite
  set, both from the well-foundedness of `<` on `Nat`. A fold of the community
  modules is a choice of a function on the subsets of the positions; `FoldExists`
  shows that there is one, `FoldKeeps` that what every step keeps holds of the
  result, and `SumOfOneMore`, `SumOfLonger` and `SumsAgree` are the laws of sums.
  The sum over a set is the sum over its parts (`SumOfParts`), and an order has a
  first member on every finite set (`FirstExists`).
  A fold over a sequence passes its positions one by one (`FoldRuns`), and what
  holds at 0 and is handed on holds all the way (`Upward`). Amounts are fractions,
  and products of numerators and denominators are beyond the provers; over a
  denominator that all amounts of a step have in common (`Over`, `OverAll`) they
  add up as integers do, and the equalities become linear.
- `StoresProofs`, about what the services keep.
  - `Retrieval`, the shared table: ids are taken in order and each key is inserted
    once (`IdsAreSpent`, `RowsAreDistinct`). A trim leaves the newest rows by their
    rank among the ids, hence at least `Capacity` rows lie above the highest id
    ever trimmed, and no row that its request has trimmed lies below it
    (`NewestStay`); `TableIsHonest` follows whichever requests die. In memory,
    `MemoryInv` says that every index is sound (`IsIndex`) and each step of the
    fold of `AddTexts` keeps it so. A search has an answer because a finite set
    has a best part of any size (`BestPartExists`), and two best parts of one size
    differ by ties (`SearchAnswers`): together the whole of `IndexIsHonest`. For the
    types, the sections of a filing are followed chunk by chunk; a filing has one at
    least, so the sentiment that its report gives is never a quotient by zero
    (`RetrievalTypeCorrect`).
  - `Backtest`, the saved runs: `HistoryIsCapped` needs that stamps differ
    (`StampsDiffer`) and that each user's excess is due to workers that were to
    prune for this user (`OwnersCapped`).
  - `Backtest`, the simulation: `After(req, c, k)` is the state after `k` bars. A
    signal depends on the closes up to its bar only, so histories with the same
    first bars have the same first states (`AfterFirst`), and what has been
    reported of them is kept (`Grows`): `Replayable`. Cash and open shares at their
    entry price are always the capital and what the closed trades have earned
    (`Balanced`), whichever of the two is empty: `TradesExplainReturn`. Up to the
    warm-up nothing moves (`WarmsUp`), a test window begins exactly a warm-up
    before its fold, and the edges of the folds divide the bars (`OneFold`):
    `HeldOut`. A row that is saved, or about to be, is the simulation of the first
    bars of the history as it is now (`RunsAreMade`), which makes `BacktestHolds`
    whole.
  - `CopyTrading`: ids of rows are their own (`IdsAreOwn`), and what a call has read
    still holds unless a call of the same kind and topic has come between
    (`CountsAreKnown`, `StagedAreRead`); from these `SubscribersCounted` and
    `IntentsBundledOnce`. `DiffShows` follows the fold of `Diff`: what it shows of a
    symbol never falls behind the opening holding and what the orders passed
    promise, each rounded by half a hundredth at most (`ToHundredthIs`), which makes
    `CopiesAddUp` whole.
  - `Schema`: the table of migrations is checked once for what it must be (nothing
    alters a table before it exists, nothing adds a column that old rows cannot
    fill); then the tables are always those of the present revision
    (`TablesAreMigrated`) and whoever runs is of a release that the database has
    reached (`InstanceFits`), so `ServingFitsSchema` holds for any releases and
    any number of instances and deploys.
  - `Ledger`: a symbol of which no two sales were under way at once and no fill
    went beyond the holding never had a negative prefix, and
    what its one pending sale takes is there at its time and has been since
    (`Covered`); with timestamps that differ (`TimesDiffer`) this is inductive
    whoever commits first. Then each replay of a ledger without a negative prefix
    is followed transaction by transaction. The average-cost replay holds the
    net units, and its realised gain less the cost of what it holds is the cash
    flow (`InBalance`, integers over a common denominator). A tax report has as
    many units in lots as the ledger has net, so no sale runs out of them, and
    its pieces explain the flow and the cost of the open lots (`Reported`, by
    `SaleTakes` for the fold over the lots); it does so for both methods, and the
    gains of all years and both terms are the pieces. Hence `AccountingsAgree`.
- `ServicesProofs`, about what the services decide.
  - `PaperTrading`: a sweep that executes does so for a rule that is not cooling
    down (`RunSound`), and a purchase is marked or about to be
    (`BoughtIsMarked`); hence `RuleKeepsCooldown`. For the books,
    a client that works alone still finds what it loaded (`AloneIsSound`), so what
    it writes back is the cash and the effect of its own fill, and `SumsAfter`
    gives what one more fill adds to each sum: `FillsExplainCash` is inductive with
    it (`BooksInv`). Symbol by symbol, a position's quantity is what its fills
    bought less what they sold, and its realized gain less the cost of what it
    still holds is what they brought in (`PositionsExplain`); summed over the
    symbols that is the cash gained: with the sign of the cash, the whole of
    `PaperBooksAddUp`.
  - `MarketSignal`: a cache gives an entry out no longer than a time to live after
    the fetch that brought it (`EntryIsFresh`), and the model is not asked where
    an event forbids the trade (`IsFree`); hence `SignalIsGrounded`.
  - `Committee`: every panel is monotone in the ratios that `WorseIsNotBetter`
    varies, for all facts and not only for those at the thresholds; what is read
    of a ratio that is given is the ratio (`ReadsAsGiven`), so the committee is too
    wherever none is missing. `ShareBelow` and `ShareAbove` bound the rounding.
  - `Vault`: what is encrypted, or about to be, is under a configured key
    (`KeysAreConfigured`), and after a rotation that read everything nothing is,
    or will be, under another (`RotationIsComplete`); `OneWriter` and
    `ApiKeysCount` are the same for the row and for the counts.
  - `Sessions`: a block lasts to within a second of the token's expiry
    (`BlocksLast`, from the lemma `WholeSeconds` on the floor), and a token that is
    being exchanged has no successor yet (`SpentOnce`). A login takes two tokens
    and a call ends before the bound on calls, so tokens, calls and outages stay
    within their bounds (`BoundsHold`).
  - `Scorecard`: a request keeps what it read and lacks prices only of the symbols
    it is still to quote or could not (`RequestSound`). Every confidence is in one
    bucket (`BucketsCover`), so that the buckets add up by `SumOfParts`. Returns
    compare across a third one (`ReturnsCompare`), so there are a best and a worst
    signal; and hit rates that differ need signals on both sides
    (`VerdictHasBothSides`). Hence `ScorecardAddsUp`, inductive with the types.
  - `Reports`: the points are the days of the window, each at one position
    (`PointsAre`). The pass of the drawdown knows the highest value so far and a
    fall that none so far is worse than (`FallsTo`; `WorseCarries` is the order of
    fractions); position by position that is the worst fall over the days
    (`CurveFalls`), and a goal is breached exactly if one exceeds its limit. Gaps are
    days that the window lacks between its first and last (`GapsAre`). What a plan
    changes comes to nought in all, because the weights come to 100, and purchases
    and sales are its two parts (`PlanBalances`). Hence `ReportsAddUp`.
- `MCServicesProofs`, about the services together. Of the twelve one moves and the
  others stand still (`OthersStand`), so every step of `MCServices` is a step of each
  or leaves it as it was (`ServicesStep`): `ServicesImplementEach` says that the
  specification of all implements the specification of each. With it every theorem
  about a component holds of the whole: `ServicesTypeCorrect` gives the types of all
  of them, and `ServicesHold` the fourteen invariants of the run `services` at once.

The assumptions are the named `ASSUME`s of the modules. Beyond ranges of numbers
they say that a value which stands for "nothing" (`None`, `Nil`, `Absent`,
`Unset`, `Resting`, `Vacant` and their like) is not one of the records it
replaces, and that what is counted is finite: the sockets of a user, the workers
that save runs, the requests that fill the shared table, the requests that a
breaker counts, the symbols of a paper account. The parameters of a backtest are
in the ranges its request model accepts (`models/backtest.py`). A filing has a chunk
(`FilingsAssumption`): a text of which no paragraph is kept becomes one as a whole
(`financial_rag_service.py:97-109`). The bounds (`MaxCalls`, `MaxOutages`,
`MaxFetches`, `MaxDeaths` and their like) are any natural numbers.

**Only model-checked.** Liveness under fairness (`ClosedOrdersSettle`,
`QueueMoves`, `BreachIsActedOn`) is outside the prover's reach. Every invariant
and every action property of a passing run has a proof. For any constants
`BookedAtMostOnce` and `ImplementsSettlement` are proved under `SingleWriter`,
without which the run `double_book` refutes the former, and `BoundedOvershoot` for
finitely many requests.

## 6. Not modelled

- `quant_service`, `valuation_service`, `options_pricing_service`,
  `pit_mtf_service`, `finrl_engine` and the statistics of reports: floating-point
  numerics without state, which TLC cannot evaluate.
- Text scoring (`macro_news_analyzer`, `deep_event_intelligence`,
  `stock_catalyst`, `market_impact` and the like), prompts and dossiers: tables
  and templates, on which nothing else decides.
- Watchlist, assets and activity: one-commit create, read and delete.
- HTTP wiring, configuration, logging, metrics, rate limiting (a library) and
  the smoke script. The event sweep publishes and the position sweep logs.

### Divergences seen and not given a run

- `trade_service.py:276` writes pending_cancel on a row that a webhook may have
  settled meanwhile; no sweep selects it any more (docstring, lines 245-246).
- `risk_service.py:173` marks the day on which the flatten ended, not the one
  it acted on; a flatten over midnight spends the next day's halt
  (`models/risk.py:28-30`).
- `distributed_lock.py:7-8` says that with Redis unreachable the guard runs the job
  best-effort "rather than dropping the job"; with the worker queue on, the job is
  an `xadd` on that Redis, whose error line 66 lets through, and it is dropped
  until the outage ends (`JobDispatch`).
- `task_queue.py:79,90`: an error of Redis ends `run_worker` and its process, and
  `docker-compose.yml` restarts nothing; the queue then stands still although
  Redis is back.
- `reconciliation_service.py:85` books a broker's sale of more than the ledger
  holds; the tax report of such a ledger fails (`tax_lot_service.py:62`), while
  the holdings are clamped at zero (`portfolio_service.py:173-199`).
- `git_trading_service.py:62` rounds after every order: a purchase of less than
  half a hundredth, which the API accepts, is missing from the diff.
- `task_queue.py:79` reads only new entries, so a failed task is never
  redelivered (docstring, line 64).
- `distributed_lock.py:78` releases the lock with the job, so two workers out
  of phase both run it in one interval (docstring, line 45).
- `tests/test_order_idempotency.py:167-172` says that replays return the
  existing order "rather than re-running the risk gates"; `execute` evaluates
  the halt first (`trade_service.py:477-488`), so a replay under a halt is
  refused. `HaltCheck` models it that way.
- `automation_service.py:58` says one rule must never block others; a rule
  deleted under the run ends it, as line 46 refreshes the row outside the `try`.
- `core/security.py:68` floors the block's life (see `Sessions`); a logout whose
  access token has expired revokes nothing (`routes/auth.py:111-125`).
- `core/ws_broadcaster.py:179`: the subscriber loop ends at an error ("keep the
  worker alive") and is not restarted. `_PRESENCE_TTL` is said to heal after
  crashes (`websockets.py:22`), yet every new connection renews it.
- A token rejected before `accept` reaches the browser as 1006, not 1008, so
  the page retries what it means to give up (`app.js:518-520`).
- `event_feed_provider.py:51` stops at 40 items, so later feeds are not read;
  a feed outage counts as no events (`event_intelligence_service.py:125`).
- `routes/rag.py:29,41` builds a store per request: a search never finds what
  was ingested. The shift report calls the whole filing's sentiment that of the
  prepared remarks.
- `routes/multi_agent.py:25-41` and `routes/options.py:28` call methods that
  `MarketService` does not have: deliberation always ends with 502, option
  chains are always priced at 150.
- `boardroom_service`: callers never pass roic, rsi or vix, so three of the six
  investors cannot cast one of their votes and AVOID_OR_SHORT is unreachable.
- `options_pricing_service.calculate_strategy_payoff` subtracts the whole net
  flow for a stock leg; a chain on an underlying below 5 has strikes at zero.
- `multi_agent_service.py:303`: under 17 cents the planned stop may equal the entry,
  and a purchase at 1.2 cents gets a target of 1 cent, below it.
- `multi_agent_service.py:45` reads a P/E of 0 as 22, so 0 is held where 10 is
  bought; a negative P/E, of a company with losses, counts as cheap.
- Six tables have no migration; `create_all` makes them in every worker.
