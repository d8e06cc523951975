# PlutoTradeAi in TLA+

PlutoTradeAi is a Flask program (`src/backend`) that scans the market, enters
stock and option positions in a Webull account and watches each of them until
it is closed. These modules specify the part that has to be right for money to
be safe: what may be entered and by whom, the life of one entry from the record
that is written before its order goes out to the record that says it is closed,
the exit orders that protect it, and what becomes of a submission whose outcome
is not known - while the broker loses answers and fills orders, the market
closes, requests and timers overlap, and the process is killed and restarted.
Around it they specify what keeps the monitors running, what the owner is told,
and what the pages and the scan read.

| module | what it is |
|---|---|
| `OrderLifecycle` | the states of a record, `VALID_TRANSITIONS`, `transition()`, and how a broker status is read (`order_lifecycle.py`) |
| `EntryContract` | the abstract specification: what the rest of the program may rely on about one entry |
| `EntryProtection` | one stock entry, its passes, the broker, the crashes (`app.py`), its properties, and its refinement of `EntryContract` |
| `OptionTrade` | one option entry, from its record to its sale and its line in the journal |
| `ExitTracking` | the file of exit orders and everything that places, moves, sweeps or clears one: the sweep, the retry, trailing, rearming, the review of naked positions, the button that closes by hand |
| `ManualResolution` | the list of all records, the submissions of unknown outcome, the administrator's link and release in audited phases, and the recovery of what a restart interrupted |
| `EntryGate` | who may enter: the scan, approved tickets and pressed links, the scan lock, the freeze, the live dollar caps |
| `AutonomousScan` | how much may be entered: capital snapshot, sizing, exposure, sector, position, loss and drawdown limits, the mode, the emergency stop and the closing of everything |
| `ScanFunnel` | what becomes of every opportunity of a scan, and what is logged and told of it |
| `MonitorTurns` | who calls the monitors, which request has which lock, and whose turn it is |
| `Heartbeats` | the file in which a monitor leaves its stamps, and the health that is read off it |
| `SuggestionLedger` | the row of a suggestion from its alert to its grade, and the buttons of the alert |
| `MarketStream`, `QuoteCache` | the one data socket of all worker processes; the labels of the quotes a worker answers with |
| `ReadCache`, `RefreshPool` | the memory of parsed files; the pool of threads that fetches for the pages |
| `MC*` | the modules TLC runs where a constant needs a definition, and the runs of the monitors and of the parts around the core |
| `*_proofs` | theorems checked by TLAPS |

Contents: [inventory](#inventory), [the models](#the-models),
[runs](#what-the-runs-check), [findings](#findings), [bounds](#bounds),
[fairness](#fairness), [proofs](#what-is-proved), [not modelled](#not-modelled),
[plan](#plan).

## Inventory

The process serves web pages and is called by timers. Everything that may place
or cancel an order runs under one lock per user (`scan_lock.py`), with the
exceptions noted below. Durable state is JSON files per user, each replaced as a
whole; the broker's state is only seen through calls that may fail, answer late
or lose their answer.

### The order path

**Order lifecycle** (`order_lifecycle.py`). State: `lifecycle_state` and its
history on a record. Operations: `initialize`, `transition` (raises on a move
outside `VALID_TRANSITIONS`), `deterministic_client_order_id`, `summarize_fill`.
Hard: many paths ask for their own move. Right when no path asks for an illegal
one.

**Entry submission, fill and protection** (`app.py` 4421-5072, 5914-6180). State:
the record (filled quantity, `entry_order_terminal`, the stop's id, size and
attempt, `stop_protection_gap`). Operations: the write-ahead record and the
placement, the poll loop, the fill-and-protect pass, the resize of the stop
(cancel, recheck, replace, retry once), its confirmation. Hard: a crash between
any two broker calls, partial fills between passes, cancellations that land late,
placements whose answer is lost. Right when no order exists without a record, no
bought share is given up as a failed entry, and protection is claimed only of a
stop that covers what is held.

**Exit, target and rearming** (`app.py` 5258-5911, 7879-8218). State: the same
record, the target-exit and rearm attempts, the absence counter and flag, the
closed-trades journal. Operations: the monitored target (cancel the stop, sell,
fall back to a new stop), the exit by a filled stop, the rearming of a dead stop,
two checks for a position that is gone. Hard: the position is naked between the
cancellation and the sell; positions and orders are two readings at two times.
Right when a record is closed on evidence only, two exits never rest together and
a naked position does not go unnoticed.

**Unknown submissions** (`app.py` 6761-6865, 7138-7179). Operations: look the
order up, count definite absences over a grace period, resume or fail. Hard: an
absence races the broker's delay in showing an accepted order. Right when only a
truly absent order is failed, and the freeze it causes ends.

**Manual resolution** (`app.py` 8948-9330, 7182-7290,
`autonomy/ambiguous_resolution_audit.py`, `routes/admin.py` 716). Operations:
`link` and `release` of an unknown submission in audited phases, recovery of
phases a restart interrupted. Hard: the route takes no scan lock; a crash between
phases leaves `MANUAL_LINK_IN_PROGRESS`, which no monitor resumes. Right when
every started resolution ends and none undoes a scan's write.

**Entry freeze** (`app.py` 8580-8700). Four local predicates over all records
(unknown submission, stuck record, protection gap, incomplete resolution) that
block new entries. Right when they hold exactly while something is unresolved.

**Record store** (`autonomy/overnight_orders.py`). One JSON list per user,
replaced atomically; inserted or updated by `record_id`, or written back whole by
each pass. Hard: lost updates by a writer outside the lock.

**Exit order tracking** (`webull_stop_orders.py`, `app.py` 2907-3155). A second
file of tracked legs and a sweep that cancels the sibling of a filled leg. Hard:
two records of the same fact.

**Orphan discovery and recovery** (`app.py` 6600-6760, 6868-7137). Imports broker
orders without a record and applies an emergency policy to them.

**Stop trailing** (`app.py` 3897-4013, `trailing_stop.py`). Replaces a stop at a
tighter price during a scan; cancels without a recheck and does not update the
record's stop id or size.

**Broker client** (`integrations/webull.py`). Classifies errors as a definite
rejection or an ambiguous submission, retries, treats a repeated client order id
as the order it already has, merges the positions list.

**Closed trades** (`autonomy/closed_trades.py`). A locked, idempotent upsert by
trade id.

**Scans and worker** (`app.py` 4302-4418 and 9724-11247, `scan_lock.py`,
`continuous_monitor_worker.py`). A full scan every few minutes, the fast monitor
about every minute: orphan discovery, exit order sweep, unknown submissions,
interrupted resolutions, the monitor of each account, a review for naked
positions. The lock is taken without waiting; a busy pass is skipped.

### Around it

**Options** (`app.py` 6183-6586). One record with a sell of its own instead of a
resting stop. Hard: the id of the sell is kept in memory until the pass ends, and
the sell may fill in part. Right when one sell works at a time and the journal has
what was sold.

**Turns and heartbeats** (`routes/trading.py`, `continuous_monitor_worker.py`,
`*_heartbeat.py`). State: the scan lock of each account, the lock of a tick, three
stamp files. Operations: posts of a timer job and a worker that give up while the
request goes on, the loop over accounts, the check of a sibling's health. Hard:
requests overlap, hang and die; the stamp files have no lock. Right when every
account is looked at again and again, and a healthy verdict rests on something
that happened.

**Scan funnel and suggestions** (`app.py` 10100-11247, `suggestion_ledger.py`,
`confirm_entry.py`). Right when no opportunity disappears without a word, and a
decision of the owner is the one that is graded.

**Market data** (`live_market_stream.py`). One socket for all processes, held by a
lock file, with a watch list that requests extend while it is being dialled.
Right when the socket comes back and what is called live is.

**Caches and pool** (`read_cache.py`, `app.py` 995-1300, `market_scanner.py`).
Right when a reader sees every write that finished before it began, a key is
fetched once at a time, and pages are renewed although fetches hang.

Trade tickets (approval, expiry, single use); capital, position and live-dollar
limits; kill switch and go-live gates, which can refuse a placement; login and
webhook throttles; alerts and the event journal, which only record; account hub
and authentication; backups; the paper trader and the broker reconciliation
report. The scanner, planner, setups, user strategies, brains and news compute
numbers and rankings and keep no order state. `PROJECT.json` lists each with its
files and whether it is modelled, and the hazards of this code at their lines.

## The models

### OrderLifecycle

The eleven states with the code's names and values, the transition table, and
`Move(record, to)`, which is `transition()`. The code raises on a move outside the
table; the model puts the record in the state `Illegal`, which no path reaches.
`ProtectiveLegIsActive`,
`EntryFillIsFinal` and `ProtectiveLegIsDead` are the readings of a status.

### EntryProtection

One long equity entry. The steps of a pass are actions named after what they call
and `pc` names the next call, so the broker and a crash may come between any two:

| code | actions |
|---|---|
| `_persist_entry_before_submission`, `_submit_and_protect_entry` | `Submit`, `PlaceEntry` |
| `_reconcile_entry_fill_and_protection`, in the loop of `_poll_fill_and_protect` or once per monitor pass | `PollEntry` |
| `_reconcile_protective_leg_quantity` (stop) | `Resize`, `CancelForResize`, `RecheckForResize`, `ReplaceStop` |
| `_confirm_and_finalize_protection` | `Confirm` |
| `_monitor_transitional_orders` | `MonitorBegin`, `EndPass` |
| `_check_and_execute_target_exit` and its fallback | `CheckTarget`, `CancelForTarget`, `RecheckForTarget`, `SellAtTarget`, `RestoreStop`, `PollSell` |
| `_reconcile_position_exit` | `CheckExit` |
| `_check_position_absent_while_stuck`, `_while_active` | `CheckAbsence`, `CheckAbsentStop` |
| `_check_and_rearm_dead_stop` | `Rearm`, `RearmIfHeld`, `PlaceRearmed` |
| `_reconcile_unknown_submission` | `ReconcileUnknown` |
| `_resolve_position_absent_reconciliation` | `ResolveAbsent` |
| `record_overnight_order`, `replace_overnight_orders` | `Save` |

A pass works on `mem`, the dictionary in memory, and `Save` copies it to `disk`.
`Crash` forgets `mem` and everything else of the process. `traded` is the journal
of closed trades, which the code writes before it saves the record. `seen` is
the positions cache of a pass; `MonitorBegin` may find it already read, since
earlier stages of the same pass share it. The broker is `order`, `exits` and
`position`; `core` is the trading session in which stops are accepted.

What a broker call may do: a lookup gives the true answer or, as a fault, raises
or returns an empty list (status `UNKNOWN`, no fill); a placement is accepted,
refused, or raises with or without the order placed, and a known id is answered
with the order the broker already has; a cancellation is accepted and lands later,
if the order does not fill first; positions may lag. The broker's behaviour is
external to the repository and taken from how `integrations/webull.py` and the
comments of `app.py` use it; `RefusesSecondExit` says whether it rejects a second
exit order, which `app.py` reports of Webull.

Abstractions. Prices, profit, alerts and history are left out, so whether a target
is reached is any choice. Quantities are whole shares. A field of the record that
is absent is 0 or `NoId`. Timestamps are counted in passes: the 900 s grace period
and the minimum of absences become `MinRejections`, `POSITION_ABSENT_CONFIRM_SECONDS`
becomes `ConfirmPasses`. A bounded poll within one call (`Confirm`, `PollSell`) is
its last answer. An entry from before 2026-08-31 could have a target order resting
at the broker; no entry gets one now, and the both-legs emergency goes with them.

### EntryContract

Three variables: what the record claims, whether shares were or can be bought,
whether the trade is in the journal. A record comes before an order, `failed`
only when nothing was or will be bought, the journal only for bought shares, and
`closed` only together with it or after it. `ImplementsContract` maps `disk`,
`order` and `traded` to them.

### ExitTracking

One position of one ticker with any number of exit orders (`MaxStops`), the file
`tracked` of `webull_stop_orders.py`, the record, one monitor pass under the lock
and one request of `/api/webull/positions/close`, which takes no lock. `held` is
what the broker holds and `listed` what its positions list shows, which lags.

| code | actions |
|---|---|
| `_run_fast_order_monitor` | `StartPass`, `EndPass`, `ScanDies` |
| `_reconcile_exit_orders`, `_reconcile_closed_ticker_exit_orders` | `ReadPositions`, `ReadLeg`, `SweepDecides`, `DropLeg`, `CancelLeg`, `RecheckLeg`, `SweepEnds`, `RetryStop`, `NothingToRetry` |
| `_refresh_stop_confidence` | `StripStop`, `ReplaceStop`, `NoTightening` |
| the monitor of the record | `StopReads`, `FillPass`, `Reprotect`, `CheckExit`, `EndSibling`, `ConfirmSibling`, `CloseRecord`, `RearmStop`, `NothingToRearm`, `NothingToMonitor` |
| `_review_naked_equity_positions` | `AttachStop` |
| `record_exit_order`, `replace_overnight_orders` | `Track`, `Save` |
| `api_close_webull_position` | `PressClose`, `CancelForClose`, `SellByHand`, `CloseDies` |

Abstractions: a fill is of the whole position; the price is known and below the
market; the retry of a target order is left out, since nothing sets its flag; the
sale of the button is not in the file's later life, since nothing reads its SELL
record; a refused placement's id is used again. A lookup reads
`active`, `filled`, `dead` or, as a fault, `blank`: an answer without a status, which
the code takes for an order that is over. The ghost `faulty` has the orders whose
calls failed or were answered so.

### ManualResolution

Records of a set of orders, the lists (`disk`, and the copies a call or a pass has
read: `mem`), the audit log, calls of the administrator's route and the scan.
Every broker call, file write and death is a step of its own.

| code | actions |
|---|---|
| `_resolve_ambiguous_submission` | `ReadList`, `GatherEvidence`, `Refuse`, `WriteStarted`, `ChangeRecord`, `PollLinked`, `RewriteList`, `WriteCompleted`, `StageFails`, `CallEnds` |
| `_discover_orphaned_broker_entries` | `DiscoverOrphans`, `HistoryFails` |
| `_reconcile_unknown_submissions` | `ReadUnknown`, `StillUnknown`, `ConfirmedAbsent`, `ResumeFound`, `SettleOrphan`, `WriteUnknown` |
| `_recover_incomplete_manual_resolutions` | `ReadIncomplete`, `CloseUnchanged`, `ResumeLink`, `CloseLink`, `RecoveryFails`, `RecoveryDone` |
| `_monitor_transitional_orders` | `ReadMonitored`, `CheckRecord`, `WriteMonitored` |
| the entries of a scan | `EndScan`, `PersistEntry`, `SendEntry`, `RecordEntry` |

An order may be on its way and not shown (`inflight`), rest, be `cancelling` after an
accepted cancellation, and then be dead or filled all the same (`late`). `repeated` is
a ghost: the ids that were sent again before the broker showed their order.

Abstractions: the four evidence checks are one truth about the order; the sale of a position is `ExitTracking`'s; a fill pass ends protected or
unprotected. Two assumptions are about the administrator: calls come one at a time
(`OneAtATime`), and a release is not decided while the order is still in flight
(`MayRelease`), which is what the evidence window is for.

### EntryGate

The scan (`scan`), requests of two kinds (`hand`: approving a ticket, pressing a
link), the lock of a user, tickets and links, the day's records, the order of each
ticker and what it costs (`dollars`), the file of the reserved dollars (`spent`).

| code | actions |
|---|---|
| the scan | `StartScan`, `Shortlist`, `SubmitCandidate`, `ProposeTicket`, `SendLink`, `EndScan`, `ScanDies` |
| `_submit_and_protect_entry`, `live_limits.reserve` | `PersistEntry`, `PersistFails`, `Reserve`, `Send`, `RecordEntry` |
| tickets | `Claim`, `TakeLock`, `GiveBack`, `RecheckPasses`, `RecheckFails`, `Settle`, `ApprovalRaises`, `Decline`, `Expire` |
| links | `Press` |
| the monitor | `Monitor`, one atomic pass under the lock |

Abstractions: price, size and limit checks are `AutonomousScan`'s and here only
decide which tickers are found; a ticket that lapses is `EXPIRED` or `SUPERSEDED`;
what an entry costs is one of `Costs` of its ticker, chosen each time it is entered;
a link is used up together with its checks, which is what the file lock of its nonce
gives; a placement that the go-live gate, a capital limit or the emergency
stop refuses is a definite refusal without a cause.

### AutonomousScan

Three interchangeable tickers, a cash and a margin account, whole dollars. The
holder of the lock (`job`) reads balances, positions and orders one after the
other, while orders fill and end between the reads; each candidate is then sized
from that one snapshot and what the scan has itself reserved.

| code | actions |
|---|---|
| `_run_autonomous_trade_scan_locked` | `Begin`, `ReadBalances`, `ReadPositions`, `ReadOrders`, `Gate`, `TryEntry`, `EndScan` |
| `_compute_position_quantity`, `_compute_option_contract_quantity` | `SizeOf` |
| `portfolio_limits.py`, `daily_loss.py`, `live_ramp.py` | `Room`, `Plus`, `PeakWith`, `DrawnDown`, `LossHalts`, `Ramped` |
| `_recheck_ticket_before_submission`, `_execute_approved_ticket` | `Approve`, `CheckTicket`, `SubmitTicket`, `LapseTicket` |
| `autonomous_controller.py` | `SetMode`, `EmergencyStop`, `ResetStop` |
| `flatten_account.py` | `CloseEverything`, `ListOrders`, `CancelOrder`, `ListPositions`, `ClosePosition`, `AllClosed` |
| the broker | `Fill`, `EndOrder`, `ExitPosition`, `CloseFills` |

Of a close of everything `flatten.sent` is what its closing orders still have to sell;
an accepted cancellation changes nothing at the broker by itself, and the order may
fill or end at any time. `asked` and `beyond` are ghosts for `NothingOverlooked`: the
orders it listed, and what it could not see. The peak of the equity starts again
(`Restarting`) when its file is unreadable or of another source.

Abstractions: an order that landed is shown at once to a scan, though not to a close
of everything; a positions list is current when it is read; the broker refuses to sell
a share twice; the day's loss does not move within a pass; what is shown of a
halt and previews are left out.

### OptionTrade

One option entry: record, entry order, up to `MaxAttempts` sells, the contracts
held, the session, the bid and how near expiration is. Nothing rests at the
broker between passes; the watch over the price is what protects it.

| code | actions |
|---|---|
| `_submit_and_confirm_option_entry`, `_poll_option_fill`, `_reconcile_option_entry_fill` | `Submit`, `PlaceBuy`, `PollBuy` |
| `_reconcile_unknown_submission` | `ReconcileUnknown` |
| `_monitor_transitional_orders`, `_check_and_execute_option_exit` | `MonitorBegin`, `Watch`, `WatchFails`, `Sell` |
| `_settle_option_exit_order` | `Settle` |
| `replace_overnight_orders`, a kill | `Save`, `Crash` |

An option found by `ReconcileUnknown` goes through the pass for equities
(`EquityFill`), as it does in the code. Abstractions: prices and the greeks are
`quote` (none, inside, outside the thresholds) and `life` (far, near, past).

### ScanFunnel

One scan with every opportunity's `result`, `category`, research row, record,
ticket, alert and reservation. Candidates are tried one by one, as an option first
and as shares then.

| code | actions |
|---|---|
| the filters and the shortlist | `SkipRest`, `StartCandidates`, `RefuseUnlogged`, `Refuse`, `Pass`, `Finish` |
| the option branch | `NoContract`, `RampLeavesNone`, `TakeOption` |
| the shares branch | `TooSmall`, `Veto`, `TakeShares` |
| the four ways a candidate goes | `Preview`, `Propose`, `ProposalFails`, `PriceRefused`, `PriceStands`, `Alert`, `AlertFails`, `Persist`, `Send` |
| what is kept of it, the end | `Record`, `RecordFails`, `Die` |

Abstractions: scores and prices only decide who qualifies and which gate refuses.

### SuggestionLedger

| code | actions |
|---|---|
| a scan that suggests, the approval of a ticket | `FindOther`, `ApproveTicket`, `FindConfirm`, `SendAlert`, `AppendAwaiting` |
| `api_confirm_entry` | `Press`, `Skip`, `RefuseEnter`, `SubmitEnter`, `WriteEnter`, `HandleFailure` |
| the passes over the ledger | `ExpireUnconfirmed`, `GradeDue`, `TellAtOnce`, `MarkTold`, `OpenDigest`, `MarkDigest`, `ShowDigest` |

`row` is the file, each write of which holds the file lock; what a press or a
reader does between two writes does not. Time is the `age` of a setup.

### MarketStream, QuoteCache

`MarketStream` is the lock file, the thread of the socket of each worker
(`StartService`, `MaybeClaim`, `OnOpen`, `Authenticate`, `SubscribeFirst`,
`OnError`, `DialFails`, `SocketDrops`, `OnClose`, `Redial`), its polling thread
(`PollTurn`, `PollLook`, `PollEnd`) and the requests (`AddSymbol`, `SetSymbols`,
`Subscribe`, `Refuse`). `QuoteCache` is one symbol of one worker with a clock:
`Stream`, `Ask`, `AskMany`, `Poll`, `Fetched`, `FetchFails`, `Arrives`, `Tick`;
`Label` is `MarketDataCache.get`. Abstractions: one quote is as good as another
but for when it was made. `Timeout` is how long one call to `get_snapshots` may take,
which is more than the 15 s of one request: it goes through batches with pauses and
retries (`integrations/alpaca_data.py` 340-367).

### ReadCache, RefreshPool

`ReadCache` is `load` step by step (`Load`, `Stat`, `Read`, `Check`, `Keep`) and a
writer's `Replace`, `Pop`, `Count` with `Forget`, threads of several processes
between any two of each other's steps. `KeepsStamp` is a file system on which a
replaced file may keep its mtime and size; `OneWriter` says that the writers of
the file hold its lock from the replacement to the end of `forget`. That is so of the
stores that take a `flock` around both. It is not so of `overnight_orders.json`,
which is written without a file lock, also by routes that hold no scan lock; of that
file `ReadsAreRecent` is not claimed.

`RefreshPool` is the threads of the pool, its queue, `_refresh_inflight`, the age
of what is cached for each key and the shared screen with its file lock:
`AskTicker`, `ShowTape`, `ShowScreen`, `ScanAsks`, `Start`, `Fetched`,
`FetchFails`, `Hang`, `GiveUp`, `ScanGivesUp`, `Older`, `Forget`,
`OtherTakesLock`, `OtherScreens`. What a fetch computes is data.

### Heartbeats, MonitorTurns

`Heartbeats` follows the stamp file of one of the three monitors (`kind`): a run
reads it, writes its start, works, reads it again and writes its completion
(`ReadStart`, `RecordStarted`, `EnterTick`, `ReadCompletion`, `RecordCompleted`),
with `Hang` and `Die` anywhere. `TimerHealthy` and `WorkerHealthy` are the verdicts
and `CheckHealth` the call of a sibling endpoint with its alert. The three files
never meet, so one behaviour has one.

`MonitorTurns` is the timer job and the worker (`JobStarts`, `JobPosts`,
`JobTimesOut`, `WorkerPosts`, `WorkerTimesOut`), the requests they caused
(`TakeTick`, `TickAlreadyRunning`, `BeginPass`, `NextTurn`, `Retry`,
`WaitItsTurn`, `ScanAlreadyRunning`, `EndPass`, `EndRun`) and `Hang`, `Die`,
`CallerStops`. What a pass does for its account is the other modules'.

### MCBackground, MCMonitors

`MCMonitors` is the run of `Heartbeats` and `MonitorTurns`; `MCBackground` that of
`ScanFunnel`, `SuggestionLedger`, `MarketStream`, `QuoteCache`, `RefreshPool` and
`ReadCache`. The parts of either share no state, so a behaviour is of one of them,
chosen in the initial state (`monitor`, `part`), and its temporal properties carry
the fairness of their part as a premise.

## What the runs check

| run | about |
|---|---|
| `entry_safety` | the safety invariants of one entry and the refinement of the contract, with partial fills of everything, empty answers, one lost call, one crash, one close |
| `entry_one_exit` | two exit orders never rest together, on a broker that would accept both, through two crashes, two closes and an action of the owner |
| `entry_liveness` | under fairness: a naked position is noticed, an ended one settled, an unknown submission resolved |
| `option_trade` | one option entry with two lost calls or restarts, one close of the session and one sale of the owner |
| `exit_tracking` | no exit order is lost, held shares keep and get a stop, a left-over order goes unless it was dropped on an answer without a status |
| `resolution` | the administrator's calls and the scan rewrite one list: no record is given up whose order rests, but for two cases the code does not see; nothing is entered in doubt, every doubt ends |
| `entry_gate` | scan, tickets and links: no ticker is entered twice, no decision submitted twice, the live cap holds for everything it counts, an approval ends |
| `autonomous_scan` | nothing is bought past the dollars and the limits, and a close of everything without an error overlooked nothing it could see |
| `monitors` | a healthy verdict is earned, and a timer that falls silent is reported; every account is looked at again and again, whatever one request does |
| `background` | the parts around the trading core, one at a time |
| `claim_approval` | a claim of the documentation that a behaviour of the code contradicts |
| `option_resumes` | a claim of a comment that a behaviour of the code contradicts |

Together the passing runs take every action and every alternative of `Next`.

| property | what would break it |
|---|---|
| `AbandonedMeansNoPosition` | an entry given up as failed by an answer that was lost, blank or early, while its order buys |
| `ClosedOnEvidence` | a record closed because a positions list lagged, or by a crash between journal and record |
| `ImplementsContract` | a step of any pass that the rest of the program could not expect of an entry |
| `ConfirmationCovers` | protection claimed of a stop sized before the last fill |
| `OneExitOrder` | a stop replaced before its cancellation landed, a crash between the two |
| `NakedIsNoticed`, `GoneIsSettled`, `UnknownIsResolved` | a pass that returns early for ever |
| `OneSale`, `JournalIsTrue`, `SaleEnds`, `ExpiryIsActedOn` | a second sell while the first works, a fill journalled twice or never, a sell that is never settled, a bid not acted on before expiration |
| `NothingLost`, `HeldKeepsItsStop`, `SiblingGoes`, `NakedIsCovered` | two writers of the file of exit orders, a leg read before and written after a fill, an answer without a status |
| `EvidenceHolds`, `NoEntryInDoubt`, `ResolutionCloses`, `LostOrderIsFound` | a list written back from a copy that is too old, a restart between two audited phases |
| `CapHolds`, `OneOpenEntry`, `OneSubmissionPerDecision`, `ApprovalEnds` | a check before the lock and a use after it, a claim that is given back twice, a write that fails after a submission |
| `NothingOverlooked`, `WithinCapital`, `WithinLimits` | an open order or a remainder left out of a close of everything, a snapshot used after an order filled, a reservation counted twice or not at all |
| `HealthIsEarned`, `SilenceIsNoticed` | two runs that rewrite one stamp file, an alert raised once and never again |
| `StaysWatched` | a request that hangs with a lock everybody waits for |
| `EveryOpportunityIsTold`, `LiveIsAccountedFor` | a candidate that leaves the loop by an exception or a `continue` |
| `GradeStands`, `AwaitingEnds` | a button pressed while its row expires |
| `WatchedIsSubscribed`, `StreamRecovers` | a symbol added while the socket is dialled, a socket lost in the middle |
| `LabelsAreTrue`, `ReadsAreRecent` | a value fetched before a write and stored after it |
| `OneRefreshPerKey`, `PagesAreRenewed` | a fetch that is given up while its thread goes on |

Where a property needs a condition, it is stated in it and explained by its
comment:

- `OneExitOrder` holds with `RefusesSecondExit = FALSE` for an entry without a
  target: cancelling, rechecking and replacing is enough without the broker's
  help. It does not hold for an entry with a target on such a broker: a sell that
  has not filled rests without its id on the record (5416-5425), and the
  rearming of the next pass places a stop beside it. There the program depends on
  the broker's refusal.
- `ClosedOnEvidence` asks that shares went: an exit order filled, or the owner
  acted at the broker. It does not ask for a flat position. The administrator may
  settle a position the broker no longer shows while its entry order is open, and
  the order may still fill (`MaxOutside = 1`); after a partial exit the program
  closes a record with shares held ([disagreements](#disagreements-without-a-run)).
- `ConfirmationCovers` needs that nothing was lost before: a stop whose placement
  answered twice with nothing is recorded at a size it does not have, and an empty
  answer reads as a dead stop.
- `NakedIsNoticed`, `GoneIsSettled` and `UnknownIsResolved` hold with one lost
  call, for whole fills: with partial exits a record circles for ever.
- `NothingLost` holds up to what the code gives up knowingly: an order placed by a
  path that does not write the file (the rearming and the review of naked
  positions) counts as known by the record, and an order that was read without a
  status counts as one whose call failed. `SiblingGoes` asks of every order at the
  broker, tracked or not, that it goes, but for one that left the file or never got
  there by a failed call, an answer without a status or a death. `NakedIsCovered` is
  asked of behaviours without a lost call.
- `EvidenceHolds` is without exception for what an administrator decides. A record
  the code gives up by itself may have an order in two cases. The record of an
  orphan ends with the cancellation the broker accepted, and the order may fill
  before it (6688-6702). And an id that was sent again while the broker did not show
  its order yet is refused as a repetition, not found, and taken for rejected
  (`integrations/webull.py` 714-718, 760-764); it takes a record that was lost from
  the list to send an id again.
- `CapHolds` says that every order of a live account is counted, that none is larger
  than the cap of one, and that together they stay below the day's cap. It cannot
  say so of what an order costs that was sent under an id the file had counted
  (`live_limits.py` 138-139): of such an order the sum takes what its first attempt
  would have cost. `entry_gate` has a ticker of two sizes for this.
- `NothingOverlooked` is what a close of everything can know. An accepted
  cancellation is a request, an accepted close is a limit order (`flatten_account.py`
  229-242, 259-284), so the account need not be flat. What it says is that every
  order the lists showed was asked to be cancelled and every share they showed is
  asked to be sold. Exempt are an order not shown yet, a fill after the positions
  were listed, and what a scan past its settings submits afterwards.
- `OneSale` and `JournalIsTrue` are asked until the second lost call or restart.
  After two, a restart has lost the id of a sell and a lost answer hides that it
  works (`option_resumes`).
- `NoEntryInDoubt` is asked while no administrator has stepped in: a release ends
  the freeze by intent.
- `WithinCapital` counts what the code counts as committed. Dollars of an option
  order without its multiplier, and resting short entries, are not in it.
- `ReadsAreRecent` is asked of files whose writers take turns (`OneWriter`); for
  two writers in one process it is false, see the disagreements.
- `SilenceIsNoticed` speaks of a monitor whose sibling is still called: if both
  callers stop, nobody looks.

Deadlock is not checked where the bounds stop the system or an entry that is over
has nothing left to do.

## Findings

`claim_approval`: the emergency stop switches `approval_required` off and its
reset does not bring it back, so in APPROVAL mode the next scan submits its
candidates itself.

`option_resumes`: the id of an option's sell is "stored before the broker call so a
crash or an unfilled sell resumes on this id" (`app.py` 6551), but in memory; the
record is written at the end of the pass. When the answer of the sell is lost and
the process restarts before the write, the next pass sends the same attempt again.
The broker answers that it has it, the lookup of it does not find it as long as it
is not shown, and that counts as a definite rejection (`integrations/webull.py` 714,
757): the id is cleared (6577) and a later pass sends a second sell under the next
attempt. Trying to prove `OneSale` for any number of mishaps is what led to this
run; with one mishap it is a theorem.

### Disagreements without a run

Met while modelling, at the lines named (all `src/backend/app.py` unless said). No
run is spent on them. Where a model covers the behaviour it follows the code; what an
abstraction named above leaves out (wording, prices, lists of accounts, a broker that
delays showing an exit order) is in no model.

- Entry: a crash between the write-ahead record and the placement leaves
  `ENTRY_SUBMITTED` for ever, its lookup raising each pass (5984; 4435-4437 says a
  restart finds it). A stop is placed and the process dies before its id is saved:
  the next pass computes the same id for a larger fill, the broker answers with
  the smaller order it has, and protection is confirmed for shares no stop covers
  (5783). After a partial exit the recorded size of the stop is shrunk, the next
  pass subtracts the same cumulative fill from that smaller size and closes the
  record with shares held (5901). The resize leaves a filled stop to the exit
  pass, which runs for confirmed records only; the record goes to
  `PROTECTION_FAILED` and every later pass meets the filled stop and raises
  (8524). A replayed id that the broker refuses with 417 and does not show reads
  as a definite rejection (`integrations/webull.py` 714-718, 760-764): in
  `ManualResolution` and `EntryGate` for entries, in `OptionTrade` for sells;
  `EntryProtection` shows an exit order at once.
- Options: a sell that was refused or never landed leaves
  `option_exit_client_order_id` set for ever (8440-8443). A partial sell that is
  then cancelled closes the record with contracts held. An entry confirmed at its
  first partial fill is not polled again (8475-8479; 8374-8377 says otherwise).
  An option resolved from an unknown submission goes through the pass for
  stocks and stays `PROTECTION_FAILED`. An expired option without a bid stays
  `PROTECTION_CONFIRMED_ACTIVE`.
- Resolution: the evidence is gathered on the cash account for a margin record
  (9081-9085). A link whose order rests is logged completed (9214) and its record
  is never polled again after a restart (`order_lifecycle.py` 168). Recovery marks
  a resolution completed that another pass had settled (7205-7211). The recovery's
  map by entry id keeps the oldest record (7236). The record of an orphan ends as
  `ENTRY_FAILED` when the cancellation was accepted, "cancelled outright before any
  fill" (6698-6702), and nothing looks at its order again if it fills.
- Exits: rearming and the review of naked positions do not write the file of exit
  orders (5623-5658; `webull_stop_orders.py` 76). Trailing and the retry do not
  update the record's stop (3992-4010), and trailing ignores a cancellation that
  failed after dropping its leg (`webull_stop_orders.py` 96-105). The sweep drops
  the filled leg when its sibling's cancellation failed (2995). It drops a leg whose
  detail came back empty, because `UNKNOWN` is not an active status (2998-3001,
  3037-3053), against "retain each unresolved leg until its terminal broker status
  is confirmed" (2923-2925); the exit pass does the same with a sibling (5788-5813).
- Gate: the confirm link looks at no freeze and no open position (4469-4569). A
  ticket whose request died stays `APPROVED` (`routes/trading.py` 535). A decline
  during a scan does not stop that scan's proposal (10051). A protection gap
  blocks tickets (9387) and not the scan (10076-10105).
- Limits: `reserve` grants an id that is counted already without adding what the
  order costs now (`live_limits.py` 138-139). The id of a ticker and day is sent
  again when the first submission ended as `ENTRY_FAILED` (4621, 10015-10019), and
  may be for more shares, so the orders of a day may cost more than "the most
  all opening orders may cost per New York trading day" (7-8). The recheck of a ticket uses its own account's day (9433) where the scan
  adds both. Committed dollars value options without their multiplier (3658-3707).
  The losing day's message holds its amount, so it is announced again as the
  amount moves (`kill_switch.py` 3-5). The peak starts again when its file is
  unreadable or the source of the equity changes (`portfolio_limits.py` 245-250);
  9979 says otherwise of the file.
- Stop: closing everything takes no scan lock, so a scan past its settings submits
  after it (`routes/trading.py` 433). The alert says that "positions were
  flattened" when calls failed, and when they were only accepted (439). Whether a
  closing order fills is not waited for.
- Funnel: the reason `max_positions` is given when only the cap of the run was
  reached. A ticket that could not be written counts as an order attempt (11306).
  Candidates after an unknown submission have no record. A proposal of an option
  that raises aborts the scan (10641-10659). A ramp that leaves no contract writes
  no research row, "called for EVERY opportunity" (10220). The option branch does
  not ask `confirm_enabled()` (10591-10705).
- Ledger: the alert is sent before its row is written. Enter and Skip have nonces
  of their own, so a row may say `skipped` of a setup that was bought; so does an
  unknown submission that is resolved later. A digest and a scan that look at the
  same time tell of a setup twice; the digest marks before it shows
  (`routes/pages.py` 207-212).
- Heartbeats: a run that hangs is masked by a later one that completes
  (`fast_monitor_heartbeat.py` 43-50). A dismissed alert does not come back, though
  7507-7510 says it does. A worker without any completion counts as healthy. A
  request answered 409 replaces the id of the run under way. The stamps are read
  and written back without a lock, against the docstring of
  `record_run_completed`. The cron hours end at 21:55, the window of the check at
  21:00. A trigger that took longer than its 120 s is posted again like one that
  met a deploy.
- Market data: two requests that cross leave a watched symbol unsubscribed until
  the next login. An error frame marks the stream disconnected while its socket is
  open. `_latest` has no age. `stop()` may leave a thread with a socket after the
  lock is released. A send on a broken socket raises out of `add_symbol`.
- Caches: two unlocked writers in one process make `forget` lose a generation
  (`read_cache.py` 48-51; 8-10 says otherwise). `overnight_orders.json` has such
  writers: nothing there takes a file lock, and the routes that hold no scan lock
  write it too. The single slot of the news cache
  is read and replaced without a lock (1252). A refresh that hangs keeps its key
  for ever, and as many of them as there are threads exhaust the pool. The cached
  market page carries one viewer's watch-list flags. `get_market_data` says that
  it "still waits for a fresh screen when the disk copy is old".

## Bounds

`Quantity` is 2 where partial fills matter: one share filled and one to come is
the smallest case of every resize, and a second resize is the same step again. It
is 1 in the liveness run. `MinRejections` and `ConfirmPasses` are 2 (3 and about
2 passes in the code), so that a first sighting differs from a confirming one.
`PollAttempts` is 1 or 2: a loop that ends and one that goes round.
`MaxFaults`, `MaxCrashes`, `MaxCloses` and `MaxOutside` are 0 to 2; each run gives
the budget to the hazards it is about. `MaxAttempts` bounds the ids tried per leg.
The code's are unbounded: a rearm whose answer is lost uses up an id in every pass
while the broker refuses a second exit. In the model that loop goes on with
placements that fail, which is what `failing` reports. `Rejected` assumes that the
grace period outlasts the broker's delay in showing an accepted order: that is
what the period is for, and nothing in the code can check it.

`exit_tracking` has two stops besides the sale, enough for a stop and its
replacement to overlap, and one fault; with two faults the safety properties were
checked separately and hold. `resolution` has two orders, so that a list holds a
record the other writer does not know, one call and one fault; two calls were
checked for safety and for the inductive invariant. `entry_gate` has two tickers,
two tickets, one link, two requests at a time and one fault; one ticker is entered at
two sizes of which the larger is over the daily cap of one and within the cap of an
order, so that only an id counted before takes the day past its cap. `autonomous_scan` has
three tickers of one sector, so that the sector limit, the total and the number of
positions each bind, dollar amounts
at which every limit binds in some state, and `MaxEvents = 3` sends, tickets, presses,
faults and restarted peaks together, a close of everything counting twice: with it
there is one entry, in parts and sold in parts; `NothingIsOverlooked` is for any number.

`monitors` has two runs of a monitor, which is what overlapping needs, limits of 1
and gaps of 2, so that an age can pass either; and two accounts, one of them
scanned, so that a turn is passed on, and three requests: one that hangs, one that
waits and one that works.
`option_trade` has two contracts, for a sell in parts, two sells and two mishaps: the
least that a lost answer and a restart take. The same in `option_resumes`.
`background` has two opportunities of which one fits the run, two setups with room
for one row, two workers for one socket, a clock of four for two times to live,
two threads, which is what a nested fetch takes, and three cached writes by
writers of two processes.

The proofs use none of these bounds but the assumption that they are naturals.

## Fairness

`EntryProtection.FairSpec` is weakly fair to `Pass` (a pass that has begun reaches
its write: broker calls have deadlines and exceptions are caught per record), to
`Monitor` (the fast monitor runs about once a minute) and to what the broker does
in time: an accepted order is shown, a DAY entry order fills or ends, a
cancellation lands, the market opens. An exit order need not ever fill or expire,
an admin never needs to act, and a crash is never required. `WF` of the
disjunction `Pass` is enough: at most one step of a pass is enabled at a time.
`OptionTrade` is fair in the same way, and a sell that works fills or ends.

`ExitTracking` is weakly fair to the steps of a running pass, and strongly fair to
its start (a 10-second timer tries again however often it finds the lock busy) and
to the next opening of the market. `ManualResolution` is weakly fair to the scan's
steps, which the schedulers start, and to the broker showing an accepted order; the
administrator owes nothing. `EntryGate` is weakly fair to the steps of each request:
the server runs a request to its end, and the wait for the lock has a limit.
`AutonomousScan` states no fairness and no liveness.

`Heartbeats` is weakly fair to time, to a run's file steps and to the check of the
sibling endpoint, which is enabled only while somebody calls it (`watched`):
`render.yaml` has one job for both timers, and the GitHub workflows that could be a
second one are disabled. `MonitorTurns` is weakly fair to the steps of a request
that does not hang and to the callers' timeouts, and strongly fair to their posts,
since the service may be at its limit of requests again and again; a caller that
was stopped posts nothing.

In `background` a temporal property has the fairness of its part as a premise. For
the ledger: time, the passes of a scan, the steps of a press. For the stream: the
polling threads, the steps of the thread of the socket, the requests; nothing obliges
a process to die. For the pool: threads that neither hang nor wait for one that
does, deadlines, the ageing of copies, and pages that are asked for again and again.

## What is proved

| module | theorem | |
|---|---|---|
| `EntryProtection_proofs` | `Truth`, `TypeCorrect`, `Abandoned`, `Traced` | `[]RecordsAreTruthful`, `[]TypeOK`, `[]AbandonedMeansNoPosition`, `[]NothingUntraced` |
| | `BooksAlwaysTrue`, `ClosedAlwaysOnEvidence` | `[]BooksAreTrue`, `[]ClosedOnEvidence` |
| | `ContractIsImplemented` | the refinement of `EntryContract`: `ImplementsContract` |
| | `StopsAlwaysSized`, `ConfirmationAlwaysCovers` | what a confirmation rests on, and `ConfirmationCovers` |
| | `OneExitAlways` | `[]OneExitOrder`, at a broker that refuses a second exit order, or with no lost call and no target |
| `EntryGate_proofs` | `DecisionsAreSubmittedOnce`, `OneEntryIsOpen`, `NoDoubtfulEntry` | `[]OneSubmissionPerDecision`, `[]OneOpenEntry`, `[]NoEntryInDoubt` |
| | `GateTypesHold`, `CapAlwaysHolds` | `[]TypeOK`, and the live cap `[]CapHolds` |
| `ExitTracking_proofs` | `TypeCorrect`, `NothingIsLost`, `OnlyTheOverIsDropped`, `HeldSharesKeepTheirStop` | `[]TypeOK`, `[]NothingLost`, and the action properties `DroppedIsOver`, `HeldKeepsItsStop` |
| `ManualResolution_proofs` | `TypeCorrect`, `DecisionsRestOnEvidence`, `AuditComesFirst`, `NothingEnteredInDoubt` | `[]TypeOK`, `[]EvidenceHolds`, `[]AuditPrecedesChange`, `[]NoEntryInDoubt` |
| `AutonomousScan_proofs` | `AlwaysSound`, `ApprovalAlwaysHolds`, `HaltsAlwaysHold` | the inductive invariant, and the action properties `ApprovalHolds`, `HaltsHold` |
| | `AlwaysSought`, `NothingIsOverlooked` | the inductive invariant of a close of everything, `[]NothingOverlooked` |
| | `AlwaysSolvent`, `TypesHold` | the inductive invariant of the limits, `[]TypeOK` |
| | `AlwaysWithinCapital`, `AlwaysWithinLimits` | the action properties `WithinCapital`, `WithinLimits` |
| `OptionTrade_proofs` | `AlwaysSteady`, `OptionTypesHold`, `OneSaleAtATime`, `JournalAlwaysTrue` | the inductive invariant, `[]TypeOK`, `[]OneSale`, `[]JournalIsTrue` |
| `Background_proofs` | `AlwaysHonest`, `BeatTypesHold`, `HealthIsAlwaysEarned` | `Heartbeats`: the inductive invariant, `[]TypeOK`, `[]HealthIsEarned` |
| | `AlwaysOrderly`, `LocksAlwaysFollowPasses`, `EveryScanIsRecorded` | `MonitorTurns`: the inductive invariant, `[]LocksFollowPasses`, `[]EveryAccountIsRecorded` |
| | `LiveIsAlwaysAccountedFor`, `EveryOpportunityIsAlwaysTold` | a scan accounts for what may rest at the broker and tells of what it saw |
| | `GradesAlwaysStand` | the action property `GradeStands` |
| | `WatchedIsAlwaysSubscribed`, `SocketIsHeldByOne` | `[]WatchedIsSubscribed`, `[]OneSocket` |
| | `LabelsAreAlwaysTrue`, `OneRefreshAlways`, `ReadsAreAlwaysRecent` | `[]LabelsAreTrue`, `[]OneRefreshPerKey`, and `[]ReadsAreRecent` under `OneWriter` |

They hold for every quantity, set of orders, tickers and calls, every bound and
every broker flag, under the named assumptions of each module: counts are
naturals, flags Boolean, limits positive where the code divides or compares, sets
that are summed over finite. Type invariants are proved and not in a run. The runs
check what the theorems say on a small instance; `RecordsAreTruthful`,
`BooksAreTrue`, `NothingUntraced`, `EntryGate!NoEntryInDoubt`, `ApprovalHolds`,
`HaltsHold`, `AuditPrecedesChange`, `DroppedIsOver`, `LocksFollowPasses`,
`EveryAccountIsRecorded` and `OneSocket` are only proved (TLC agreed before).

`EntryProtection`. `Abandoned` and `Traced` are not inductive. What a pass will
save is decided several steps before it is saved, so `RecordsAreTruthful` says of
the record in memory what it says of the one on disk: a final order is final at
the broker, a final zero fill is a true zero, a failed record is of an order that
buys nothing. It adds the facts that carry them: an order the broker does not show
has no fill; the process at its placement holds a fresh record of an order that
does not exist; an order exists only with a record. Types need it too:
`position <= order.filled` bounds the shares held, and `CheckAbsentStop` is only
reached with the absence counter below its limit. The two are therefore one
invariant. The proof has a lemma per group of steps (submission, fill, target,
exit, end of a pass, environment), with lemmas on `Move`, `EndPass`, `Lookup` and
`Placed` under them, and each theorem ends in one temporal step.

`BooksAreTrue` builds on it: a record that claims a fill is of an order that filled,
in memory as on disk; a closed one has its trade in the journal and shares that
went; until shares went the position is what was bought, which is why a position
that is found to be zero is evidence; and no pass works on a record that has ended.
The step of the proof is about the record a pass builds up, so it goes by the
operators (`Move`, `Refresh`, `Protect`, `EndPass`) and not by the actions: what
each returns is booked if what it got was.

`ContractIsImplemented` maps each step to one of the contract: `Submit` to
`Record`; the placement, fills and ends of the entry order to `Trade`; `Save` to
`Record`, `Fail` or `Book` according to the state it saves, which is where
`BooksAreTrue` and `RecordsAreTruthful` are needed; the steps that journal
(`PollSell`, `CheckExit`, `ResolveAbsent`) to `Book`; everything else to a
stutter, a crash included.

`StopsAreSized` says that the size the record gives its stop is that of the order at
the broker, or less than what was bought. It is true of the record of the pass, not
of the one on disk, and only as long as nothing was lost: a placement that is not
answered leaves an order under an id the record has yet to come to, so the
invariant also says that such ids are unused. With `Pended` (a stop is worked on
only in `PROTECTION_PENDING`) the one step that confirms compares a true size.

`OneExitOrder` is not inductive, and neither is the bound on the ids that proves the
sizes: with restarts there may well be an order the record does not know. `OneAtATime`
says what becomes of it. Every exit order that rests is the record's stop; or has one
of the next stop ids in line, all of which the broker knows (`Waiting`), and a
confirmed record will come there because its stop is too small; or has the next id of
a rearming, and the record is confirmed with its entry over and its stop over and
unsold (`Rearmed`). So the placement that would be the second meets its own earlier
order and changes nothing. The invariant says so of the record on disk and of the
one in memory, and for each place of a pass what that place has established: the old
stop rests no longer when its replacement is placed (`Freed`), an exit pass works on
what is on disk (`FromDisk`), a confirmed record goes through the fill pass only to
grow its stop (`Grows`). The hypothesis is that of the hazard: the broker refuses the
second order, or no call is lost and there is no target. With a target, a sell that no
save recorded rests beside the stop the next pass rearms; after a lost answer, a
rearmed stop rests beside the one the next rearming places under its own id. TLC
shows both with the constants of `entry_one_exit` and `HasTarget = TRUE` or
`MaxFaults = 1`: there the broker's refusal is what the program depends on.

`ExitTracking`. The invariant `Known` says where the id of every resting order may
be: in the file, or in the hands of the one process at the step that will write or
end it. `Sound` adds what each process has read and still relies on at its place, an answer
without a status included: `DroppedIsOver` says of what leaves the file that it is
over or was read so.
`Moves` is the fact about steps that the two action properties follow from.

`ManualResolution`. The invariant `IInv` is a conjunction of what each party knows
at each place: a call (`Calling`, `Alone`, `Vouching`), the scan's entry
(`Entering`), its passes (`Working`, `Covering`), and the record's state against
the broker (`Undoubted`), with the two exceptions of `EvidenceHolds` carried along. Lists may be stale, so it says of every copy what it says
of the disk.

`EntryGate`. `Shaped` is types, with what a process at each place holds: a
submission knows its record. On it rest three invariants. `Deciding`: at most one
request works on a ticket or a link, and as long as it is early, or the decision is
not made, no record stems from it. `Locking` with `Doubtless`: whoever decides or
submits under the lock has it, and what it found out there (no open entry of the
ticker, no doubt) still holds when it uses it. `Counting` and `Covered`: an order
that may be at the broker is counted in the file of the day's dollars, and the one
answer that uncounts is never given of such an order. An order under an id that is
counted is down for what the file says of it, and until a second record of its ticker
exists that is what it costs. That the total is the sum of
its parts rests on `SumTheorems`, the lemmas on sums over a finite set that
`AutonomousScan_proofs` needs too; induction over the set being out of reach, they
are proved from a least set on which the fact would fail.

`AutonomousScan` has three invariants. `Sound` is `Shaped` (types), `Asked` (the mode
the lock's holder started from) and `Calm` (a halt that was read is still the
account's).

`Sought` follows a close of everything. At each of its places it says of every entry
what is still due (`Due`): before the lists are read nothing, then that its open order
was listed and that of its shares those not yet asked to be sold are still to be, or
that it was out of sight. It needs that the stop is on while no error is reported:
what a scan submits meanwhile is then known to be late.

`Solvent` is about amounts. A scan sizes against numbers it read several steps
earlier while orders fill, positions are closed and the broker's answers fail, so
for each number it says which entries it still covers, from the step it is read at:
`Exposed` of a ticker's exposure, `CashHeld` and `CashFree` of the cash account's
positions and of what it has free, `Powered` of each pool's buying power. What a
scan reserves after the reads is on the other side of the inequality, and a ticker
that filled between two reads is `uncounted` and left out. `TicketFits` carries the
ticket's check to its submission; `Seated` counts the live tickers against the
positions read and then against the slots left; `Vacant` says that what is left to
buy has no entry. With them the limit a submission has to keep is that of the sum
before it, plus the cost of one entry that `SizeOf` bounds by what is left.
`TickersAssumption`, that the tickers are finitely many, is what the sums need.

`OptionTrade`. `Steady` is types, what the pass has in hand at each of its places
(`InHand`), and that a sell at work is of a held option and not yet done. `Settling`
is asked as long as no second mishap happened: every sell before the current
attempt is over without a fill and none was sent after it (`InTurn`); a sell that
the broker does not show yet is named on disk, or in the memory of the pass that
goes to save it (`Flight`), and its being unseen has cost a mishap; the journal has
what the current sell sold (`Books`). One mishap more and `Flight` fails: a restart
takes the memory. The sum over the attempts comes from `SumTheorems`.

`Background_proofs`, the monitors. `FilesAreHonest`: the stamps of the file, and of
every copy that is about to be written back, are no younger than what happened.
`Orderly` ties a lock to the pass of its holder and a request's place to what it
recorded.

`Background_proofs`, the parts of the run `background`. A step of it is a step of one part and leaves the others
alone, so there is an invariant per part. `FunnelInv`: what is live has its record
and its dollars, or is the candidate at hand; without a fault whatever has ended
was told of; what a scan leaves open stands behind an outcome nobody knows.
`LedgerInv`: whoever may still write a decision is about a setup younger than any
that is graded. `StreamInv` is types and the property. `QuotesInv` says that a
quote from the data API was made within `Timeout` of its row. `PoolInv` gives the
one place of a key in flight: a thread or a spot of the queue. `ReadInv` says of
every copy of the file, in the cache or in a reader's hands, when it is as new as
its process has to know; `ReadsAreAlwaysRecent` assumes `OneWriter`, without which
it is false.

What stays with TLC: liveness, and everything with ENABLED, which the prover
cannot reach (`NakedIsNoticed`, `GoneIsSettled`, `UnknownIsResolved`, `SaleEnds`,
`ExpiryIsActedOn`, `SiblingGoes`, `NakedIsCovered`, `ResolutionCloses`,
`LostOrderIsFound`, `ApprovalEnds`, `SilenceIsNoticed`, `StaysWatched`,
`AwaitingEnds`, `StreamRecovers`, `PagesAreRenewed`).
Every other property of a passing run has its theorem.

## Not modelled

Short entries, and a target order resting at the broker, which only entries from
before 2026-08-31 have. Login and webhook throttles, the account hub, the planner,
and the stores themselves (the locking of `closed_trades.py`, the torn read of
`settings.json` that resets it, the first alert lost by two writers of the alerts
file). Left out for good: what only computes (scanner, setups, strategies, brains,
news), only records (event journal), only copies (backups), only simulates (paper
trader) or only renders (pages). `PROJECT.json` has the reason for each component.
The map covers a fifth of the implementation's lines: most of the rest is
computation, rendering and formatting.

## Plan

In order of importance:

1. The stores: an atomic register as the abstract specification, the file stores
   with their locks as the detailed one.
2. Login and webhook throttles: lockout at the boundary of a window.
