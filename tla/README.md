# TradeAgent: models and proofs

TLA+ models of TradeAgent, a paper-trading research agent: the crypto scalping service that
places paper orders through Alpaca, the notifier that emails one summary a day, and around
them collectors, simulations, reports and offline research. Everything shares one PostgreSQL
database. Paths below are relative to `src/src/tradeagent/` unless they start with `src/`.

Contents: [the system](#1-the-system), [the plan](#2-the-plan),
[ScalpDispatch](#3-scalpdispatch-the-order-path-of-the-scalper),
[NotificationOutbox](#4-notificationoutbox-one-email-a-day),
[ScalpOwnership](#5-scalpownership-whose-coins-are-they),
[EventOrders](#6-eventorders-the-orders-of-the-event-worker),
[MarketBooks](#7-marketbooks-the-books-behind-a-decision),
[ShadowRecorder](#8-shadowrecorder-losses-on-record),
[ConfirmationJournal](#9-confirmationjournal-a-study-that-runs-once),
[ShadowDataset](#10-shadowdataset-rows-that-survive-their-process),
[runs](#11-runs-bounds-and-what-they-show), [proofs](#12-what-is-proved),
[findings](#13-findings), [what is not modelled](#14-what-is-not-modelled).

## 1. The system

How the parts interact: services are separate processes; each takes a row of `worker_locks`
(`persistence.py:666-733`) so that one instance of it works at a time. They share nothing but
the database and the broker. The scalping service runs an asyncio loop (market stream, order
stream, heartbeat, tick) and moves blocking work to threads, so database transactions, HTTP
requests and stream callbacks of one process interleave as well.

| Component | State it keeps | Operations | What is hard | What must hold |
| --- | --- | --- | --- | --- |
| Scalping order engine (`scalping_execution.py`, `scalping_store.py`) | rows of `orders`, `scalping_order_links`, `scalping_cycles`; account state; activity cursor | reserve, dispatch, reconcile, cancel, exit, sync activities, refresh the ownership ledger | crash between mark and POST, lost answers, late acceptance, a worker that lost its lease, stale snapshots | no order sent twice, none closed while it works, one order of a symbol at the broker, no oversell, no entry into an unknown state, every accepted order is closed |
| Scalping service (`scalping_runtime.py`) | the lease, tasks, tick state | start, heartbeat, tick, stream callback, stop | lease lost during a step that cannot be interrupted | only the lease holder reserves and sends |
| Broker (`alpaca_paper.py`, `event_order_stream.py`) | external order records | submit, find by client id, cancel, stream | 404 before a late acceptance; 4xx, timeouts | - (environment) |
| Notifier and outbox (`notifier.py`, `notifications.py`, `daily_status.py`, `email_schedule.py`) | `notification_outbox`, the delivery lease, the last enqueued day | enqueue, refresh, suppress, claim, send, record | delayed notifiers, lost answers, retries, the end of the day | one email per day with one content, at its time, no other email |
| Producers of messages (`scalping_notifications.py`, `event_order_notifications.py`, ...) | rows of the outbox | enqueue with a deterministic id | concurrent with suppression | nothing but the daily summary is claimed |
| Worker, scheduler, kill switch (`worker.py`, `scheduler.py`) | `controls.kill_switch`, heartbeats, paper-worker lock | start-up reconciliation, freshness check, watchdog | release after a lost lease | entries only after a healthy reconciliation |
| Legacy OMS and order states (`oms.py`, `order_state.py`) | append-only order states; `orders` rows | submit after risk and qualification, reconcile; guarded transitions | late acceptance, regressing states | one broker order per client id, fills never shrink |
| Event paper trading (`event_orders.py`, `event_runtime.py`, `event_store.py`, ...) | decisions, cohorts, order links, the budget of the session | reconcile, cancel, enter, release, exit, dispatch | a lease that no thread renews, releases beside dispatches, quantities read once and used later | the session's limit holds, released stays unsent, nothing is sold twice, positions end |
| Scalping market data (`scalping_market.py`) | the feed's connection, queue and books; the engine's books | receive, reset, resnapshot, reconnect; take and process a batch | overflow, resets, repeated batches, requests that cross a reconnection | a valid book misses no message, a broken one gets a snapshot |
| Shadow evaluation and recorder (`scalping_shadow.py`, `shadow_recorder.py`, `scalping_telemetry.py`) | bounded queues, batches, commit counters | offer, flush, retry, drop | overflow, failing database, shutdown with a batch in flight | every event is stored, queued, or in a gap on record; terminal states stand |
| Kraken confirmation (`kraken_confirmation*.py`) | one lease, an append-only journal, a writer's queue | claim, append, refresh, flush, verify, seal | threads that outlive their task, lease expiry, a writer that fails | one claim, one owner, nothing after the seal; a completed journal is whole; death is final |
| Shadow dataset (`shadow_dataset*.py`) | immutable evaluations, labels and tape; quotes, open evaluations and a writer's queue in memory | receive, evaluate, resolve, write, stop, seal, restart | restarts with some labels missing, labels over a break, a tape that lags behind the rows | each row once, no label over a break, all labels in the end, a sealed dataset is complete |
| Paper simulation (`engine.py`, `broker.py`, `runtime.py`, `portfolio.py`, ...) | simulated account, checkpoints, progress | step a bar, fill, checkpoint, resume | crash between a fill and its checkpoint | a resumed run repeats nothing |
| Operator requests (`scheduled_paper.py`, `operator_calibration.py`, `event_crypto_test.py`, ...) | one-time approvals | claim, run, finish | restart within a run | an approval is used once |
| Holdout and promotion gates (`holdout.py`, `promotion.py`, ...) | sealed files, registry | reserve, evaluate once, promote | repeated evaluation | holdout used once |
| Research, replay, statistics; reports and API; HTTP clients; command line | files, read models | batch computations, queries | - | numeric and textual, outside a model checker's reach |

`PROJECT.json` lists every file of the package with its status.

## 2. The plan

Modelled first is what can lose money or break a promise to the owner, then what feeds it,
then what keeps evidence.

1. `ScalpDispatch` with `MCScalpDispatch`, `ScalpDispatchProofs` (done).
2. `DailyEmail` (abstract), `NotificationOutbox`, `MCNotificationOutbox`,
   `NotificationOutboxProofs` (done).
3. `OwnershipLedger`, `ScalpOwnership`, `MCScalpOwnership` (done).
4. `EventOrders`, `MCEventOrders`: the order manager of the event strategy (done).
5. `MarketBooks`: the feed, its queue and the engine's books (done).
6. `ShadowRecorder`: queue, batches, losses and heartbeats (done).
7. `ConfirmationJournal`, `ConfirmationJournalProofs`: claim, lease, journal and end of the
   Kraken study (done).
8. `ShadowDataset`: evaluations, labels and tape of the forward dataset over restarts (done).
9. `Services`: small instances of 1 and 4 to 8 in one run (done).
10. `Sums`, `EventOrdersProofs`, `ScalpOwnershipProofs`, `ShadowDatasetProofs`,
   `ServicesProofs` with the recorder and the books (done). Proofs left: `ProtectsForeignOnly`
   and `OwnsWhatIsLeft` of `ScalpOwnership`.
11. Modules left: `OperatorRequest` (`operator_calibration.py`: one authorised entry, its last
   fence and the recovery of earlier cohorts), the decisions and cursors of `event_runtime.py`,
   the durable batches of the paper simulation, the holdout registry; an abstract order that
   `ScalpDispatch` and `EventOrders` both implement.

Runs are few and each asks one question, so `Services` puts instances that do not
interact side by side, and a behaviour of `ScalpOwnership` shows one scene of several. Bounds:
two processes, two or three orders or messages, one or two faults.

## 3. ScalpDispatch: the order path of the scalper

One order goes through these steps of `scalping_execution.py`; each step is an action, and
between any two of them another worker, the broker, the network, a crash or time may act.

| Action | Code |
| --- | --- |
| `Acquire`, `Heartbeat`, `DeadOwnerAges`, `HeartbeatIsLate`, `StopOwner`, `StopAfterLoss`, `Start`, `Crash` | `acquire_worker_lock`, `refresh_worker_lock`, heartbeat and shutdown of `run_scalping_service` |
| `BeginStep`, `NextPhase` | the passes of `step()` in their order: reconcile, cancel entries, exit, reconcile again, enter; the last only if no submission is unresolved |
| `ReserveEntry`, `ReserveExperiment`, `ReserveExit` (all `Reserve`) | `_new_cycle`, `submit_paper_experiment`, `_exit_owned` with `_reserve_order` |
| `StartDispatch` | the durable mark `dispatching` / `reconciliation_required`, committed before the POST |
| `Fence`, `FenceRejects`, `FenceRaises`, `ExpireAfterFailure` | the second transaction, which holds the lease row `FOR UPDATE` and repeats the checks |
| `Post`, `PostAcknowledged`, `PostFails`, `RecordFailure`, `LookUp`, `LookUpFails`, `Apply` | the POST, its answer, and the lookup by the original client order id after a failure |
| `ReconcileOrder`, `FindIntent`, `ExpireIntent` | `_reconcile_orders`: the lookup, then the write in a later transaction; an intent is expired, never replayed |
| `RequestCancel`, `SendCancel` | `_cancel_entries`: the request is durable before the broker is called |
| `ConsumeUpdate` | `consume_order_update`: any version of the broker's record, late or repeated |
| `LeaseRefused`, `StepRaises` | a lease check or any other call raises: the step ends, an open transaction rolls back |
| `BrokerAccepts`, `RequestFails`, `BrokerFills`, `BrokerCancels`, `BrokerEnds` | the broker and the network (external) |

State: `lease` is the `worker_locks` row with its age in three classes (fresh up to 30 s, when
`_lease` accepts it; idle; stale after 180 s, when another worker may take it); `lock` is the
worker whose open transaction holds that row; `row` joins `orders` and `scalping_order_links`;
`eng` is each worker's local state; `req`, `brk`, `hist` are the fate of each POST, the
broker's record and all its versions; `posts` counts POSTs; `due` are the entries to cancel
(TTL over, exit requested or operator stop - an exit is requested by the lease holder before
the entries of the same step, so one set serves the three).

Abstractions. Prices, quotes, cash, fees and the ledger decide only whether a fence refuses or
which quantity an exit asks for; the model allows either answer and any quantity. Backoff and
rate limits end a step early, which `AbortStep` covers. Every broker snapshot has an
`updated_at` (`ver`). Assumptions about the environment: `SELECT ... FOR UPDATE` excludes
other writers of the lease row (PostgreSQL; SQLite serialises writers as well), owner ids are
distinct, a 4xx answers a POST that will not be accepted later; whether it may answer a POST
that *was* accepted is the constant `AmbiguousRejections`.

Safety. `SubmittedOnce`: no client order id is POSTed twice. `UnsentNeverReachedBroker`:
`expired_unsent` is written without any check, and still only over orders never sent.
`FinalMeansFinal`: no order lives on at the broker behind a closed row. `OneOrderAtBroker`:
entry and exit of a symbol are never at the broker together. `NoOversell`. `OutcomesStand`:
recorded fills never shrink and final rows stay final (an action property).
`NoEntryIntoUnknown`: no entry is POSTed while another POST of the account is unanswered.

Liveness. `AcceptedOrdersResolve`: an order the broker accepted is recorded final in the end.
Fairness: the supervisor restarts the service (`Start`), a stale lease is taken and refreshed,
each pass of `step()` is finite and visits each of its orders (`Progress`, `NextPhase`,
`ReconcileOrder`, `RequestCancel`), the broker fills a market sell and honours a cancel. Strong
fairness is used where a pass or the lease enables and disables an action again and again.
`OutagesEnd`: exceptions of the database or the broker stop some day; without it no code could
promise anything.

## 4. NotificationOutbox: one email a day

`DailyEmail` is the promise of `src/docs/DAILY_EMAIL.md`: a mailbox and a clock; the email of a
day is delivered at most once and not before its time, nothing else is delivered.
`NotificationOutbox` is the code under the daily-only policy, the only one `cli.py:983` starts:

| Action | Code |
| --- | --- |
| `Acquire`, `BeginDispatch`, `LeaseLost`, `Stop`, `Crash`, `LeaseAges` | `NotifierService`: the lease is checked once, when `_dispatch_one` begins |
| `NothingDue`, `CheckOutbox`, `ReportBusy`, `Insert`, `Refresh` | `DailyStatusScheduler.enqueue_due`: the check, the report (which may be busy, or take longer than the lease lives), the write |
| `BeginSend`, `Suppress`, `Claim`, `NothingToClaim`, `ReviewContent` | `dispatch_one`: the clock is read once; `suppress_non_daily`; `claim_next` for the id of the day; `validates_payload` |
| `PostAccepted`, `PostUnknown`, `PostRefused` | `ResendEmailProvider.send`: accepted; no answer, 5xx or no id (the request may have been taken, or be taken later); 4xx |
| `MarkSent`, `MarkFailed` | written by notification id, whatever the row says |
| `Produce` | any other producer's `enqueue_status` |
| `TimePasses`, `ClaimAges`, `RowAges` | the local clock; a claim is free after two minutes; 23 hours make a claimed row one for review |
| `LateDelivery`, `ForgetKey`, `Deliver` | the provider (external): it answers a known idempotency key without delivering again, and forgets keys after 24 hours |

The state of a row is its status, the format of its content, whether it was attempted and
whether a provider id is recorded; `idle` and `old` are the age classes `claim_next` tells
apart. `AllDay` is the configuration with delivery at midnight, where a row can become older
than 23 hours on its own day. The state the program starts from may hold a legacy message of
the first day, pending or failed after an attempt, as a deployment of this release may find
it. Audit events are left out, and backoff is a notifier that does not act.
Assumption behind `ForgetKey`: no `dispatch_one` is delayed from one day to the delivery time
of the next (18 hours by default) before its POST.

Properties. `OneEmailPerDay`: the module implements `DailyEmail`. `AttemptedStandsAsWritten`:
the content of an attempted message never changes, so all requests with one key agree.
`OutboxInv`: types, and rows that say no more than what happened; no foreign message is
claimed, also when it is queued between suppression and claim (the runs that check it have no
foreign message; the theorem holds for any). `DayIsServed`: the email of a
day that stays the current day is delivered or put up for review. Fairness: the loop runs
(`Progress`), the service is restarted and gets the lease, claims and leases age, the report is
not busy for ever (`Insert`), the provider takes a request now and then (`PostAccepted`), and
stops and crashes cease (`Settles`).

## 5. ScalpOwnership: whose coins are they

The engine trades in an account that its owner trades in as well. The broker reports one
balance; which coins of it the engine may sell follows from the fills of its own orders, the
fees posted for them and the activities of the owner, and each of these arrives by a request
of its own, at a time of its own. `OwnershipLedger` is the arithmetic of `_refresh_cycles` as
operators, from the foreign flow (`ForeignFlow`) over the bounds of each cycle (`Fact`) and the
protected quantity (`RestoreCredit`, `Segregate`) to the settlement of each cycle against what
is left of the balance (`Settle`, `StateAfter`). `ScalpOwnership` is the protocol around it, for
one symbol:

| Action | Code |
| --- | --- |
| `BeginStep`, `BeginReconcile`, `BeginWithoutRead`, `NextStep` | `step()` and `reconcile()`, with new positions or with those of the last read |
| `Stamp` | the end of `_read_positions`: `_positions_at` is taken after two more requests |
| `LearnBuy`, `LearnSell`, `ExpireIntent` | `_update_order` with any version of the order since the last one; an unsent intent is expired |
| `SyncCompletes`, `SyncStops` | `_sync_activities`: the window, its pages, attribution of activities to orders, the recheck of orders that filled further |
| `ReadAgain`, `BeginSync`, `RefreshCycles` | `_refresh_cycles`: positions are read again if an order changed, activities if they do not cover the positions; then cycles, protected quantity and evidence are written in one transaction |
| `NewCycle`, `SendBuy`, `RefuseBuy` | `_new_cycle` and `_dispatch`; the very first cycle declares all that the account holds foreign |
| `RequestExit`, `BeginExit`, `ReserveExit`, `SendSell`, `RefuseSell` | `_request_exits`, `_exit_owned`, and the fence of a sell in `_dispatch` with one more read |
| `StepFails`, `Crash`, `Restart` | an HTTP error ends the step; a process dies and starts again |
| `BuyFills`, `SellFills`, `OrderEnds`, `FeePosted`, `Accepted`, `OwnerBuys`, `OwnerSells`, `OwnersFeePosted` | the broker and the owner (external) |

State: `world` is what happened, in cumulative quantities; `order` the order rows; `acts`,
`paid` and `cursor` the stored activities, the fees attributed to orders and the window of the
sync; `protected`, `ev`, `shown` are `unowned_positions`, `ownership_foreign_evidence` and
`ownership_positions`; `cycle` holds `scalping_cycles` with the ledger of their payload; `eng`
is the engine's memory. The feed is a prefix of what happened, so "which activities are known"
is a record of cumulative quantities, and those up to `_positions_at` are the common prefix of
two of them (`Common`).

Simplifications. One symbol; one buy and one base fee of it per cycle, posted as a whole;
sells of a cycle one at a time; one engine, since the lease check refuses the writes of
another. The owner's orders fill at once. The fee sweep is part of a sync. A read of positions
that fails is one that was not begun. Experiments, fees without an order id and a second buy
that joins a cycle are left out. Quantities are steps of the asset, and a fee is at most one.

`SellsOnlyOwn`: what the engine's sells may still take is covered by what it bought, less fees
and sales. `ProtectsForeignOnly`: at a decision on complete evidence nothing of the engine's is
protected as the owner's. `OwnsWhatIsLeft`: when everything is known, each cycle owns exactly
what it bought and still has. `OwnedIsBacked`: the ledger's own books, which hold whatever comes
in: owned is in the balance beside what is protected, and no more than fills, fees and
disposals leave. `ExitsComplete`: a requested exit ends.

What the promises rest on. `SellsOnlyOwn` holds in every interleaving of fills, fees, the owner's
trades, stale reads, crashes and failed requests, unless one of six things happens; for one cycle,
or an owner who does not buy, this is proved (section 12). The `troubles` of a scene say which of
them may happen, and with any one of the six alone TLC finds a coin of the owner's sold, given a
scene with enough trades:

| Trouble | What happens | Why the ledger cannot tell |
| --- | --- | --- |
| `late_answer` | a request is accepted after the lookup said 404 (the owner buys twice, sells, pays a fee) | fills of an unknown order id count as the owner's |
| `moving_read` | the account moves between `positions()` and `_positions_at` (two buys, one sell) | the activities then cover more than the balance |
| `long_window` | the pages of one sync do not reach the end of its window (two buys, one sell, a fee) | the evidence is behind the balance while cycles begin |
| `owed_fee` | a fee of the owner is debited but not posted when the first cycle begins | see findings |
| `overlap` | a cycle begins while an earlier one still holds coins (two cycles, one buy) | the balance cannot say whose fee it lacks |
| `failed_recheck` | activities are stored, the lookup of their order fails (two buys, two faults) | the next sync finds nothing new, the fill stays unknown |
| `unseen_trade` | the owner has traded since the last refresh when the first cycle takes the balance for protected | the evidence counts the trade again: see below |

The code relies on the broker for the first and on timing for the rest; a team may want to decide
which of them it accepts. The seventh costs the owner nothing: what is counted twice is a protected
coin that does not exist, so at worst one of the engine's stays protected. TLC finds
`OwnsWhatIsLeft` violated by it if the owner, who starts with nothing, buys three times and pays two
fees; the scenes of the runs allow it where they can. A rechecked order is looked up whether the
sync found more of its buy or of its sells (`BuyRechecked`, `SellRechecked`).

A balance below `min_order_size` reads as zero (`_read_positions`, 228-239; `Tradable`), so the
first cycle declares none of it the owner's. With `MinOrder` = 2 and one coin of an owner who does
not trade TLC finds that coin sold: the buy lifts the balance over the minimum, the base fee of the
buy is debited but not posted, and the coin takes the place of the missing one. The loss is less
than one minimum order. The runs that ask about the owner's coins therefore have `MinOrder` = 1: the
owner's quantities are whole multiples of the minimum.

`OwnsWhatIsLeft` is stated for behaviours without a fault: a
crash or a failed request in a sync leaves its window open, the next sync ends at that window,
an exit goes out on what was owned before, and the balance after it is taken for what the fill
left: a coin remains in a cycle that claims nothing (state `residual`) until a fee is posted.
`ExitsComplete` allows the same, after a fault only. It does not hold under `late_answer` or
`long_window`: fills of an order whose broker id the engine never learns are the owner's for
good, and the cycle stays `ownership_pending`.

Fairness of the run `ownership`. The service loop calls `step()` for ever, so steps begin and end
(`[]<>` of `BeginStep`; `eng.tried = {}`); each looks up its open orders, which the broker
ends (market sells fill, buys are cancelled at their TTL), so an order does not stay `sent`;
each visits the exits that are due; fees are posted. From some point on a market sell fills in
one piece (`SellsFill`): how many partial sells a cycle needs is bounded by its quantity anyway.
Each conjunct has the form `[]<>P`, the effect of weak fairness of an action that falsifies
`~P`.

## 6. EventOrders: the orders of the event worker

The second service that sends orders has its own order manager and its own lease. Unlike the
scalper's, the lease is renewed only by the worker's own ticks and calls (`assert_owner`), so it
lapses in a slow tick, and the first worker notices at its next call of `assert_owner`, which
comes before a tick, a DELETE, a dispatch and a POST, and nowhere else.

| Action | Code |
| --- | --- |
| `Start`, `Crash`, `Ages`, `RequestFails`, `LeaseLost` in `TickLosesLease`, `DeleteLosesLease`, `DispatchLosesLease` | `run_event_service`, `acquire_worker_lock`, `assert_owner`; a failed request ends the tick and pauses the cohort |
| `Supervise`, `SubmitEntry`, `StreamUpdate` | the three ways into `reconcile()` |
| `LookUp`, `Observe`, `FinishReconcile` | one broker lookup per row, `_observe` in a transaction of its own, then inventory against positions |
| `ChooseCancel`, `Delete`, `MarkCancelPending`, `ChooseUnsent`, `ExpireBuy`, `EndCancel` | the loop over rows in `supervise`, `_cancel`, `_expire_unsent` |
| `Plan`, `Check`, `MarketClosed`, `ReserveExit` | the exits of `supervise`: read, re-read, clock, transaction |
| `Assess`, `ReserveEntry` | `submit_entry` up to its transaction |
| `Dispatch`, `Claim`, `Fence`, `FenceRefusesEntry`, `FenceRefusesExit`, `PostAccepted`, `PostRejected`, `PostUnanswered`, `RecordAttempt`, `Resolve` | `_dispatch`: lookup, claim, last fence, POST, `submission_attempted_at`, outcome |
| `Arrives`, `Fills`, `EndsUnfilled`, `TimePasses` | the broker and the clock (external) |

State: `rows` joins `orders` and `event_order_links` (`seen` is `link["broker"]`, `known` that a
broker id is recorded, `attempted` and `released` the two time stamps that `_expire_unsent`
asks for); `budget` is `total_entries_reserved`; `wk` is what a worker has read and not yet used.
One cohort, one symbol; what decides for or against an entry is a free choice, since it only
ever refuses one. An order that a 4xx answered is not at the broker and its lookup says so.
Each event is entered at most once (`event_cluster_claims`).

`ReleasedStaysUnsent` and `EntriesWithinLimit`: a reservation is given back only when nothing
of it can be sent, and the entries at the broker stay within `max_entries_per_session`, over
crashes, hand-overs and releases. `FillsStand`: reports come late and out of order, and a
recorded fill is never taken back. (A final status is overwritten by `cancel_pending` when a
DELETE and the order's end cross; the next lookup repairs it.) `NoOversell` holds for one worker
(`services`) and fails for two (`event_oversell`). `ExitsComplete`: what is held when it is due
is sold in the end, or an order was abandoned: a row that is reserved but was never sent keeps
`Unresolved` non-empty for ever, as the protocol's review rule intends
(`src/docs/TUESDAY_PAPER_PROTOCOL.md:82`).
Fairness of `ExitsComplete`: the service loop goes on and ticks again after errors
(strong fairness of `Supervise`, since a lapse of the lease disables it now and then), is
restarted, a dead owner's lease becomes stale, requests under way arrive, orders fill or end,
time passes. `MayFail` keeps the last exits of the bound from being refused or ended, so
that the bound `MaxExits` is not what leaves a position open.

## 7. MarketBooks: the books behind a decision

The feed runs on the service's event loop, the engine in a thread that processes batches.
Between them is a bounded queue that the feed empties when it cannot take the resets of all
symbols. A message that breaks the engine's book makes it ask for a snapshot; the request is
scheduled on the loop and may find another connection by then.

| Action | Code |
| --- | --- |
| `Connect`, `Subscribed`, `Resnapshot`, `Disconnect`, `Stop` | `_run`, `_connection`, `_connection_until_resnapshot`, `stop` |
| `Receive`, `ReceiveBroken`, `Overflow` | `_consume` and `_publish`: a message is published before it is looked at |
| `Request` | `_request_resnapshot` |
| `Take`, `Process` | `persist_market`, `process_market_batch` with `on_event` on every event, and again if the outcomes were not written |

A book is the number of book messages of its connection it was built from; `whole` is a history
variable: the symbols whose book is a snapshot and every message since. An `odd` message is
one that the engine refuses and the feed accepts (a numeric domain); a `broken` one is refused
by both. Sequence numbers, retired connections and resets are as in `_receive`.

`BooksAreWhole`: a valid book misses nothing. `DrainedAgrees`: with all events processed, no
book is valid that the feed gave up, and none is missing without a request. `SnapshotsRecover`:
a book that needs a snapshot gets one. Its exception, `coalesced`, is a real case: a request for
the current connection that arrives in `awaiting_snapshots` is counted as coalesced
(`scalping_market.py:565`), the connection goes on, and if the symbol had its snapshot already
nobody asks again, as `resnapshot_required` is set. Nothing in the repository promises the
opposite, so it is listed as a hazard and not as a finding. Fairness: both threads go on, and a
connection delivers the snapshots it owes.

## 8. ShadowRecorder: losses on record

The recorder may lose events, but not without saying so. `Receive` is `offer`, `Gather` the top
of the loop of `run`, `Persist` and `PersistFails` the attempts at one batch (a lost
acknowledgement commits and fails), `Refresh` and `Beat` the two calls of the pulse, `Start`,
`Stop`, `End` and `Crash` the life of `_run_shadow`. Notices, the overflow counter and the
gap of a restart are sets of the events they stand for.

`EventsAccounted`: each received event is stored, in a recorded gap, in memory, or its
process has failed (the next life then notes a gap up to its start); and retries do not audit an
event twice, because the batch id is drawn before the first attempt.
`TerminalBeatStands`: the terminal heartbeat is not overwritten by a pulse on its way; the code
awaits the pulse for that reason (`worker.py:400`). `EventsSettle`: every event goes on record
unless the process fails. Fairness: the writer, the pulse and the shutdown go on.

## 9. ConfirmationJournal: a study that runs once

`ConfirmationStore` keeps an append-only journal with one claim, one owner, a lease of 90
seconds and a terminal record; `_run_v3` runs a writer, watches and a final verification over
it. Every append is `asyncio.to_thread`: cancelling its task leaves the thread, without the
lock and without anybody to answer (`Orphaned`, `live = FALSE`).

| Action | Code |
| --- | --- |
| `Check`, `Acquire`, `Claim` | `claim`: look, lock, first append; a claim that is refused releases the lock |
| `Tick`, `Refresh` | the age of the lease; `_lease_heartbeat` with `refresh` |
| `Transact` | `append`, which may commit and lose its answer |
| `Submit`, `Write` | `DurableWriter.submit`, `work` with its packing |
| `Watch`, `CancelWatch` | the three watches, as one task |
| `Finish`, `GiveUp`, `Flush`, `RecordQuality`, `Verify`, `GuardFinally`, `Seal`, `Release` | `_run_v3` from its loop to the release of the lease |
| `Crash` | a process kill (external) |

`JournalIsSound`: the claim first and once, one owner, nothing after the terminal record.
`CompletedIsWhole`: a journal sealed as completed holds every submission in its order, and the
last guard right before the seal; an orphaned append in that gap would break it. `DeathIsFinal`:
once the owner's lease is gone nothing is added and the owner does not come back. `RunEnds`:
a run comes to an end, sealed or not, whatever dies first. Fairness: every task and thread
goes on.

## 10. ShadowDataset: rows that survive their process

The collector of the forward dataset receives quotes, makes an evaluation every ten seconds of
its window and labels each at five horizons. Evaluations, labels and the tape of quotes are
immutable rows; whatever is not yet written is in memory, and a restart goes on from the tables.

| Action | Code |
| --- | --- |
| `Start`, `Crash` | the lease, `recover_pending` and the branch for a sealed dataset; a process kill (external), which also stands for a task that fails |
| `Receive` | `receive` with `on_market`: epochs, history, `source_batch` |
| `Work` | one iteration of `clock`: `evaluate`, `resolve`, the rows as one item of the queue, the tape when it is due, the seal |
| `Stop`, `Pause` | `signal_stop` by a safety check; the iteration that finds it ends the feed and un-seals |
| `Sealed`, `Analyse` | the end of `writer_queue.join`; `terminal_analysis` with `verify_source_manifest` |
| `Write` | `writer` with `write`, `persist_tape`, `update_quality`, each one transaction |

Simplifications. An iteration reads its clock, waits for the stop control and then works; nothing
that may happen in the wait is distinguishable from the same before or after it, so the iteration
is one step. Time is in ticks, a quote is processed when it is received, and whether the tape is
due is left open. `Pause` does not wait for the queue, as the loop only works on behind it.

`RowsAreMadeOnce`: nothing is queued that is stored or queued already, so `write` never meets a
conflicting duplicate, although the slot of the last evaluation is known from the table only.
`LabelsAreContinuous`: a complete label spans no reset, gap, reconnection or restart; the epoch
that is stored with an evaluation names the process, or counts that start again would agree.
`DatasetInv`: types; a sealed dataset has all labels of all its evaluations, nothing is on its
way, and every quote it refers to is on the tape. `DatasetSettles`: a stored evaluation gets all
its labels, and the dataset is sealed unless it was stopped. Fairness: the process is restarted
after its crash, its tasks go on, and time passes.

`DatasetInv` excepts the quotes of a process that crashed, and must. Rows are queued in the
iteration that makes them, but their quotes stay in `source_batch` for up to ten seconds or 500
events (`shadow_dataset_runtime.py:183`, `212`). A crash in between loses the quotes while the rows
stay; without the exception TLC shows a dataset that was restarted, completed its labels and was
sealed, and whose manifest lacks a quote. `verify_source_manifest` then raises "dataset quote
references missing from immutable raw manifest" (`shadow_dataset_analysis.py:107`), the child of
`terminal_analysis` fails, and since any result is kept (`existing`) it is not tried again.
`docs/experiments/2026-10-shadow-dataset-v1/protocol.md:63` promises that a restarted collector
resumes its evaluations, which it does; that it can still be analysed is promised nowhere, so this
is listed as a hazard.

## 11. Runs, bounds and what they show

| Run | Instance | Shows |
| --- | --- | --- |
| `dispatch_pair` | 2 workers, an entry and an exit of one symbol, quantity 2, 2 faults | all safety properties of one symbol; 1.1 million states |
| `dispatch_live` | 1 worker, entry and exit, 1 fault, fair | accepted orders are closed |
| `dispatch_rejected` | 1 worker, `AmbiguousRejections` | violation, see findings |
| `outbox_pair` | 2 notifiers, 2 days | the promise, and the two notifiers' races; 1.0 million states |
| `outbox_live` | 1 notifier, 2 days due from midnight, 1 foreign message, fair | the day is served |
| `outbox_suppressed` | 1 notifier, 2 days | violation, see findings |
| `ownership` | entries of 2 coins; three scenes: a cycle, an owner with 1 coin who buys 1 and sells 1; a cycle, an owner who buys 2 and pays a base fee, both with `unseen_trade`; 2 cycles after each other with 1 fault; fair | only own coins are sold, none is lost to the owner, what is left is owned, requested exits end; 0.69 million states |
| `ownership_troubled` | minimum order 2, 1 fault, late answers and failing rechecks; two scenes: an owner who buys 1, also before the first cycle; unfinished syncs | the ledger's books hold in spite of the troubles; 0.8 million states |
| `ownership_owed_fee` | 1 cycle, a fee of the owner outstanding at the first cycle | violation, see findings |
| `event_orders` | 2 workers, 2 events of which 1 may be entered, 2 exits, 1 fault | releases, limit and fills; 1.0 million states |
| `event_oversell` | 2 workers, 1 event, 2 exits, 1 fault | violation, see findings |
| `services` | `Services`: entries of 2 symbols (1 engine, no fault; crashes: theorem `EntriesAwaitAnswers`); 1 event worker, quantity 2, 2 exits, 1 fault; books of 2 symbols, queue 3, 1 fault; recorder with 4 events, queue 2, 2 lives, 2 faults; study with 2 launches, 2 submissions, queue 2, 1 fault; dataset with 1 evaluation, 2 horizons, 2 quotes, a break, a stop, 1 crash; fair | the account-wide gate, and the properties of sections 6 to 10 with their liveness; 0.27 million states |

`Services` composes instances of six modules. They are separate processes with tables of
their own (the lease rows have different names, the scalper and the event worker different
orders), so a step of one commutes with every step of another and no property relates two of
them: a property holds of the free interleaving exactly if it holds of each service alone. A
behaviour therefore shows the one service that `part` names, and the others stand still.
The variable `scene` does the same with the bounds of `ScalpOwnership`.

Why the bounds are enough. Orders interact only through their symbol, the account-wide gate and the
lease: two orders of one symbol and two of different symbols are the two ways. Two workers suffice
for every hand-over, as a third adds only another holder that has lost the lease. `MaxFaults` counts
crashes, stops and late heartbeats: two allow a zombie to come back and its successor to be lost as
well. Quantity 2 makes partial fills. Two days make "another day" and the end of a day. `SYMMETRY`
permutes workers or notifiers, which no property names; the liveness runs do not use it. The proofs
need none of these bounds. In the ledger, 2 coins make a partial fill, a fill with a fee and a
partial sell; one coin of the owner is the one the engine could sell by mistake; a buy, a sell and a
fee of the owner are the three flows that move the protected quantity. Larger instances take longer
than a listed run should; the three invariants were checked on them by hand: a cycle beside an owner
who buys twice, sells and pays a fee (0.7 million states; 0.9 million with `unseen_trade`), the two
purchases with a sale and `unseen_trade` (0.5 million); `SellsOnlyOwn` also beside an owner with two
coins who buys three times and sells twice (4.1 million), and with `ProtectsForeignOnly` for two
cycles beside an owner who buys (0.3 million). `MinOrder` = 2 makes every odd quantity dust. In
`EventOrders` a second event is needed to meet a spent budget, a second exit to repeat one that
failed. Queues of the books and the recorder are one longer than what always fits, so that each
overflows and also takes resets without being emptied. Two submissions fill one chunk or two; three,
the fewest that a writer could reorder by packing equal kinds, were checked by hand (0.12 million
states of the study alone). One evaluation and two horizons are the least with which a crash leaves
some labels, and two quotes the least with a break between entry and exit; the module was also
checked with two slots and with three quotes (0.15 and 0.29 million states).

## 12. What is proved

`ScalpDispatchProofs` proves for every set of workers, orders and symbols and every bound that
`DispatchInv` is an invariant of `Spec`, and from it `TypeCorrect`, `OrdersSubmittedOnce`,
`UnsentIsUnsent`, `EntriesAwaitAnswers`, `OutcomesNeverRegress` and, when
`AmbiguousRejections` is false, `ClosedIsClosed` and `OneAtBroker`. The assumptions used are
the `ASSUME`s of `ScalpDispatch`.

None of the safety properties is inductive. `DispatchInv` adds what makes them so:
`OneDispatcher` (two workers never prepare or send the same order: only `StartDispatch` leaves
`intent`, and it needs the lease and rewrites the row); `DispatcherInv` (a worker before its
POST sees its order unsent and marked; a worker that considers an intent still finds an intent
while it holds the lease); `BrokerInv` (what the broker's versions say is bounded by its
record, so a late snapshot is never ahead of it); `RowInv` (each status and dispatch state of
a row bounds what may have been sent and what the broker may do: a flying POST keeps its row
`reconciliation_required`, so neither a 404 nor a failing worker closes it); `OneOpenRow` (one
open row of a symbol, which the reservation checks); `EntryInv` (from the account-wide gate to
the POST of an entry no other POST is in the air, because only the lease holder can send and
the lease row is held while it does). The proof has a lemma for each group of actions, and
under it one step per conjunct; lemmas on the effect of each kind of update come first.

`NotificationOutboxProofs` proves for every set of notifiers and messages and every number of
days `OutboxInvariant` (`OutboxInv` is an invariant), `AttemptedStands` (the action property)
and `ImplementsDailyEmail` (`Spec => Promise!Spec`, the refinement itself). Next to the types
and `RowsTellTruth`, `OutboxInv` consists of `NotifierInv` (a notifier's clock may be late,
never early; what it holds is an attempted message of the day that clock showed, whose time has
come) and `MailInv` (one email at most, only of a day that was reached; a remembered key means a
delivered email; a message that was delivered and whose key is forgotten is `OutOfReach`: its
day is over, no request for it is under way, and no notifier is on its way to send it). The
last part carries the refinement: when a request is about to be taken, its message is not out
of reach, so an unknown key means an empty mailbox. The proof splits the steps into those that
leave the provider alone, where it suffices that every written row and every moved notifier
ends up right (`RowRight`, `MovesRight`), and the deliveries.

`ConfirmationJournalProofs` proves for any launches, rows, slots and faults `OneSoundJournal`
(`JournalIsSound`) and, if no process has the name of "no process", `DeadStudyStays`
(`DeathIsFinal`). `JournalInv` makes them inductive: an append on its way is never a claim
(`CallsInv`), so a second claim can only come from `Claim`, which wants an empty journal; and the
owner of the journal has been through its claim (`ClaimantInv`), so it never asks for the lease
again. Every other append has passed `MayAppend`, which holds the lease, the owner and the end of
the journal together; that is why threads left behind by cancelled tasks do no harm. `services`
checks the two properties on two launches through its own instance of the module.

The same module proves, if the bounds of the model are numbers (`Bounds`), `TypeCorrect` and
`CompletedJournalIsWhole` (`CompletedIsWhole`), by `TypeInv` and `WholeInv`. `ContentInv` is the
ledger of the submissions: those on record, those of the chunk on its way and those in the
queue follow each other without gap, as long as the writer is not dead. A chunk may be
committed although its writer takes it for failed; then the writer is dead, which fails the
run before it can be completed. `AwaitedInv` says who waits for which append: one task at
most, so an answer is that of the chunk in hand, and a run that has not failed has left no thread
behind. `LateInv` follows such a run from the flush to the seal: its queue stays empty, and with
the last guard on its way there is nothing else that could come between guard and seal.
`EndsInv` says that a journal whose last record is completed belongs to a run that is over. What
one append adds to the flattened journal is `FlattenAppend`.

`EventOrdersProofs` proves for any workers, events, exits, quantities, limits and faults that
`OrdersInv` is an invariant, and from it `TypeCorrect`, `ReleaseIsFinal` (`ReleasedStaysUnsent`),
`SessionLimit` (`EntriesWithinLimit`) and `FillsAreKept` (`FillsStand`). A worker acts on what it
read several calls ago, so the invariant says what of that is still true: `OrderInv` relates each
row to the broker (an unclaimed order is not there, one that ended unsent never gets there, and a
row never says more than the broker has); `LocalInv` what a worker holds (from the claim to the POST
the order is not at the broker, and a report is never ahead of it); `Exclusive` that an order is
claimed once, although any number of workers may believe they own the lease; `BudgetInv` that the
budget counts exactly the reservations not yet released, which is why releasing one cannot make room
for a second entry while the first may still be sent. `InventoryInv` (all entries but one are
finished, and no more is held than that one bought) is there for the type of the inventory: a sum of
what entries and exits filled has to stay within `Qty`. `SoleWorkerSellsOwn` proves `NoOversell` if
there is one worker. `SoleInv` counts each exit that has not ended at its full quantity (`Caps`) and
says that those are covered by what the entries bought, since the quantity a worker read for an exit
is still the inventory when it reserves it (`SoleLocal`). With two workers that last sentence is
false: it is the step on which `event_oversell` goes wrong.

`ExitsSellOwn` (`ScalpDispatchProofs`) proves `NoOversell` of the scalper for any workers, orders
and symbols, with ambiguous rejections as well; it needs `OrderAssumption`, a finite set of orders.
`SellInv` counts a sell that passed its fence, or works at the broker, at its full quantity. The
fence runs under the lock of the lease row and finds no other order of the symbol that might still
fill, so the position it compares with is what buys and ended sells left.

`ScalpOwnershipProofs` proves `TypeCorrect` and `OwnedStaysBacked` (`OwnedIsBacked`) of the
ownership ledger for any number of cycles, any entry quantity and minimum order, and in every scene,
thus with all troubles of section 5 at once. `OwnershipInv` adds to them that a cycle knows no fill
its order lacks, nor the order one the broker lacks (`FillsInOrder`), that cycles come in the order
of their numbers (`CreatedInOrder`: the first one makes the whole balance the owner's, which is
sound only as nobody owns anything yet), that a closed cycle owns nothing (`RowsOK`) and that all
cycles together are `Backed`. The heart is `RefreshBacks`: a refresh charges disposals to the cycles
one by one (`Left`) and hands the balance out the same way (`Divide`). Both are recursive functions
over the cycles; `HandOutExists` and `HandOutDwindles` are their common induction, and
`DivideShares` concludes that what was handed out sums to no more than there was. It rests on bounds
for one cycle, for the facts (`FactBounds`), each of the seven settlements (`SettleBounds`) and the
row that is written (`RowAfterOK`).

The same module proves that the engine sells no coin of the owner's: `PlainScenesSellOnlyOwn` for
the behaviours whose scene is plain, and `NeverSellsForeign` for `SellsOnlyOwn` as an invariant when
all scenes are. A scene is plain (`PlainScene`) if no trouble but `unseen_trade` may happen, with
one cycle and an owner who buys, sells and pays fees as often as he likes, or with any number of
cycles and an owner who only sells; quantities, crashes and failed requests are unbounded.
`MinOrder = 1` is assumed, since smaller balances are the exception of section 5, which also shows
what the other troubles do; several cycles beside an owner who buys are checked by TLC only.

`SellsOnlyOwn` is not inductive: what a cycle owns was cut from a balance that is past when the sell
is sent. `CoinsInv` adds what connects the two moments. `Solvent`: the coins on sale are among the
engine's. `FeedsOK`, `SeenOK`: activities, window and evidence follow the feed, and what is covered
reaches the positions. `OrdersOK`, `NamedOK`: no row is ahead of the broker, and a step knows the
broker's id of every order sent before it. `Books` is the heart. It names what no variable keeps:
the fees `k0` the owner had paid at the last refresh, and the fees `k` and the engine's coins `n` at
the read of the positions. What is protected covers the owner's coins that the evidence counts, less
`k0`, and a fee taken off before it was posted is remembered (`Guarded`); the positions are the
owner's coins at the read and `n`. The only cycle owns no more than `n` and what was sold since. A
refresh moves these facts to the new positions: `RefreshGuards` follows the protected quantity
through flow, credit and segregation, which must not take coins of the owner's for the engine's;
`RefreshOwned` follows what the cycle owns through its settlement. A sell of the only cycle is then
covered by what it owns. With an owner who does not buy it is covered by the second limit, what is
available less what is protected (`Permitted`): the owner's sales make the available quantity
smaller before they make the protected one smaller. If the owner buys beside several cycles neither
limit suffices alone.

`ShadowDatasetProofs` proves for any horizons, batches, quotes, breaks and crashes `MadeOnce`
(`RowsAreMadeOnce`), `Continuous` (`LabelsAreContinuous`) and `SealedIsFinished` (`DatasetInv`);
its hypothesis `Bounds` says that the protocol's fields are whole numbers, its horizons finitely
many, and that `None` is no row. Each of the three relates the tables to what is
still in the collector's memory and in the writer's queue, so `Inv` says how these fit
together. `FollowInv`: no label is stored or queued before its evaluation. `ProgressInv`: of
every slot the collector knows exactly what is stored or queued, and it never goes back to a slot
it left; a new process starts from the tables and does not begin before the queue is
gone. `QuotesInv`: the history holds quotes of this process alone, and no break lies between two
of one epoch. `RowsInv`: the quotes of a row are in the history if they are of this process, and
entry and exit of a complete label have one epoch. `TapeInv`: each quote in the history is on the tape,
in the batch or in the queue. `SealInv`: the seal is the last thing queued, nothing is pending
once it is, and a dataset that is sealed lacks no label. A transaction writes one item
of the queue whole, which is why what is stored and what is queued are treated alike (`Row`, `Lab`).

`ServicesProofs` proves what is true of the recorder and of the books, which only run in
`Services`, and carries the theorems of the others over.

Recorder: for any numbers of events, lives and faults and any positive capacity, batch size
and number of attempts (`ShadowBounds`) `ShadowEvents` (`EventsAccounted`) and `ShadowBeats`
(`TerminalBeatStands`). `RecorderInv` says that queue, batch and audits share no event, except that
the batch being written may be on record under its own number, all of it (`AuditInv`): the lost
acknowledgement after which the retry must not count anything twice.

Books: for any sequence of symbols, queue that holds a reset of each, batch size, number of messages
and of faults (`BookBounds`, which `CryptoMarketFeed` demands of its configuration)
`BooksWithoutGaps` (`BooksAreWhole`) and `BooksDrained` (`DrainedAgrees`). Neither is inductive: a
book may become broken, or one the feed has given up, only by an event that was published long
before. `StreamInv` says what the engine has to read: a `Trail` of events from its last one (`Here`)
to the last number of the feed (`At`), along which the books of the feed go from those the engine
agrees with to those the feed has. Numbers may be missing in it, since an overflow empties the
queue, but a `Link` says what a gap costs: an event of a new connection is a reset that finds every
book of the feed empty; within a connection the gap shows in the numbers, and the engine then
invalidates all and asks. `Agrees` is what the engine keeps: a valid book is whole and that of the
feed at that moment, and one it lacks the feed lacks too or a snapshot is required. Either the batch
is ahead of the engine (`BatchUnread`) or it has been read and may be read again after a failed
write (`BatchRead`); what was read before changes no book but to invalidate it (`ReplayAgrees`). The
feed's steps lengthen the trail (`TrailPush`, `TrailReset`) or cut it off and go on from the same
place (`ResetLeads`), `Take` splits it (`TrailSplit`), `Process` walks it (`EventAgrees`,
`FollowBatch`). That a batch is processed event by event is `FoldIs`: the function behind `FoldLeft`
is shown to exist by `SetInduction`.

Composition: a step of `Services` is a step of one service or none, so `Services` implements each
specification (`EachServiceRuns`), and `EntriesWaitForAnswers`, `OneWorkerSellsOwn`,
`StudySound`, `StudyWhole`, `StudyFinal`, `DatasetOnce`, `DatasetContinuous` and
`DatasetFinished` follow for the values it gives the constants. `Services` instantiates the proof
modules for that; their assumptions are discharged in `ValuesAreAllowed`. `TypesKept` (`TypesOK`)
combines the type invariants of the books, the recorder and the study.

`Sums` has the induction that these proofs share. The library's induction rules take an operator
and cannot be used here, but well-founded minima over sets of numbers can:
`SetInduction` proves that a set of naturals that has 0 and successors is all of them, and
from it follow existence and uniqueness of the recursive function behind `MapThenSumSet`
(`SumIsLaw`), what one changed summand does to a sum, sign, monotony and the like. By the same
induction `ConfirmationJournalProofs` has what `FlattenSeq` makes of a longer sequence.

Model-checked only: liveness, and two safety properties of `ScalpOwnership`, in the scenes of
`ownership`. `ProtectsForeignOnly` is the other side of `SellsOnlyOwn`: it needs upper bounds of the
protected quantity where `Books` has lower ones, and it is true at decisions on complete evidence
only. `OwnsWhatIsLeft` relates what closed cycles left behind to the owner's flows; it is false with
`unseen_trade` in larger scenes and after a fault, so that its bounds are part of what it says.
`SellsOnlyOwn` is proved for plain scenes and false in `ownership_owed_fee`.

## 13. Findings

`dispatch_rejected`: the comment at `scalping_execution.py:1191` says that even an explicit
rejection is looked up before the row is closed. The lookup runs under
`suppress(httpx.HTTPError)`, so one that fails counts as "not found" and the row is closed as
`broker_rejected` unanswered. It takes a 4xx for a POST the broker accepted and a failing
lookup to leave an order working behind a final row.

`outbox_suppressed`: `suppress_non_daily` says it suppresses "only unsent work"
(`notifications.py:377`). A row that failed in its last attempt may have been delivered by an
earlier one whose answer was lost; at the end of its day it is suppressed as unsent.

`event_oversell`: the comment at `event_orders.py:1668` says that what is open "must reconcile
before the exit can oversell", and `src/docs/TUESDAY_PAPER_PROTOCOL.md:81` that only
broker-confirmed owned quantity is exited. `supervise` takes the quantity of an exit from rows and
positions read at 1635 and 1638. A worker that lost its lease may still be inside `reconcile()`,
which does not ask for the lease. If an open exit fills after those two reads and that worker
records the fill before the re-reads (1665, 1667) and the transaction (1690), none of them finds
anything open, and the quantity of the first read is sold again. The comparison of `owned` with
the inventory is missing inside the transaction. With one worker the property holds (`services`).

`ownership_owed_fee`: `src/docs/SCALPING_ECONOMICS.md:201` promises a fence that never sells
foreign inventory. Before the very first cycle `_new_cycle` (`scalping_execution.py:1507-1516`)
replaces `unowned_positions` by the balance, but keeps the evidence of foreign flow. A fee of the
owner that the balance lacks already and the feed shows later is then debited a second time, the
protected quantity is too low, and the engine sells that much of the owner's.

## 14. What is not modelled

Of the scalping engine: cash admission and the economics of `_new_cycle`, the triggers of
`_request_exits`, experiments in the ledger and `_attribute_unkeyed_fees`. Of the event strategy:
what refuses an entry (certificates, account risk, tickets, sessions), the managers of earlier
cohorts, decisions and evidence of `event_runtime.py`. Of the market data: prices and levels,
freshness, trades and features. Of the recorder: decisions on committed events, and a second
recorder on a stale lease (the terminal heartbeat does not ask whose the lease is). Of the Kraken
study: the grid, labels, books, hashes and budgets. Of the dataset: budgets, quality counts,
daily reports, delayed entries, releases, the monitor of the broker, and the analysis.

Operator requests (`operator_calibration.py`, `scheduled_paper.py`, `event_crypto_test.py`),
the paper simulation, the holdout registry and promotion are sequential
protocols over files or single rows; they come next in the plan. Strategy arithmetic, diagnostics,
statistics, research, reports, HTTP parsing and the command line, about two thirds of the package,
are numeric or textual: no interleaving, nothing a model checker would add to their tests.
`order_state.py`, `oms.py` and the autonomous mode of `worker.py` are reachable from tests and
one-shot commands only.
