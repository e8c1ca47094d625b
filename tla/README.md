# A verification project for LLM_Trade

LLM_Trade is an unattended trading engine: one asyncio process reads markets and
positions from a MetaTrader 5 terminal, asks a decision provider about candidates,
submits orders, and protects open positions. This directory holds TLA+ models of the
parts of it where several actors meet, the TLC runs that check them on small instances,
and TLAPS proofs of the properties that matter most for every value of the constants.

Paths below are relative to the repository (`src/...`); `engine` is
`src/core/engine.py` and `executor` is `src/execution/executor.py`.

## The system

One process, one event loop, a thread pool. Everything native (the MetaTrader5 package,
SQLite) runs in pool threads behind `await asyncio.to_thread(...)`; a coroutine can be
overtaken at each such await and nowhere else. The MT5 terminal is a program of its own,
with its own user: the account it is logged in to can change at any moment, its
link can drop, and the broker can fill, refuse, part-fill or lose anything.

| Component | State it keeps | Operations | Talks to | What is hard | What makes it correct |
|---|---|---|---|---|---|
| Order executor (`executor`) | accepting flag, dedup keys, worker tasks | open, close, partial close, modify; drain, resume | terminal, under the native gate; called by engine loops and REST handlers | cancellation with a running worker, lost replies, retries, account switches, stop and restart | one request, at most one effect; right account; success only after verification; keys released; stop ends and is quiet |
| MT5 gate and connection (`src/mt5/safe_api.py`, `connection.py`) | the process-wide lock, connected flag | initialize, is_connected, shutdown, account info | terminal | everybody shares one native session | one native transaction at a time |
| Entry authorization (`engine` 1895-2459, 3394-3497) | armed flag and identity, active identity, autonomy flag and identity, persisted record, history flag | arm, disarm, enable, disable, restore at start, supervisor recovery, account change, core failure | provider, database, terminal, dashboard | every command awaits in its middle; restart restores authority; account switches | authority stays with confirmed accounts and sessions, a revocation lasts |
| Entry order pipeline (`engine` 5629-5975) | the execution lock; account and plan in locals | check, plan, submit, handle the outcome | authorization, executor, risk manager | the authorization changes while the order is planned | an order reaches only an account that was confirmed |
| Excursion store (`engine` 1479-1652, `src/database/storage.py` 640-685) | peak and trough per ticket, loaded set, last persisted value, cache record | restore-and-update, forget, clear | both polling loops, SQLite threads | two loops around one record, failed reads and writes, restarts | a stored peak is never undercut; a new one gets stored |
| Profit protection (`engine` 5977-6589, `src/core/profit_retention.py`) | retention record in memory and cache, lock levels, break-even set | refresh, advance, restore, persist, close, lock, trail | executor, storage, operator | partial closes, roundings, restarts, stale stop levels, failed closes | a stored floor lasts, the reported floor is retained, protection only tightens, a breach ends |
| Position monitor and reconciliation (`engine` 2957-3134, 3679-3732, `src/database/reconciliation.py`) | known tickets, close reasons, history flag | detect closures, book or defer them, reconcile the history | terminal, trade tables, risk manager | two writers of one counter, the account changes between two reads, deals that cannot be read, a history that lags | every loss of the day counted, none counted longer than it should be, a deferred one not forgotten |
| Decision lane (`engine` 1171-1345, 4721-5628): candle admission, model slots, deferred signals, entry budget | used-up candles, slots per candle, waiting signals, one task per symbol | scan, reserve, ask, expire, validate, defer, release | provider, pipeline, supervisor | tasks outlive account changes; deadlines race answers; queues behind one slot and one lock | one attempt per candle, bounded slots, every review ends |
| Decision provider circuit (`engine` 1070-1170, `src/llm/`) | readiness, failure count, probe lock, request semaphore | health check, probe, record a result, open the circuit | provider, supervisor, lane | late answers, two probers, a slot shared with reviews | an open circuit disarms, a working model is found to |
| Manual override (`engine` 2584-2878) | one candidate per symbol | offer, clear, preview, execute | pipeline, executor, dashboard | the candidate is minutes old | right account, right candle, no second position |
| Market selection (`engine` 531-779) | ranking, one selection task | select, cancel at an account change | provider, terminal | cancelled tasks | one selection at a time |
| Risk manager (`src/risk/`, `engine` 2461-2583) | daily loss, UTC day, reset markers, peak balance | validate, record a closed trade, synchronise, reset, restore | pipeline, reconciliation, operator | resets against restarts, midnight and account changes | no loss lost or inflated, markers and peak of the right account |
| Shadow outcomes, replay log | candidate records | record, resolve | database | resolve once | once-only outcomes |
| Dashboard (`src/ui/`) | published state | REST commands, websocket | engine | commands overlap engine work | see authorization |
| Watchdog (`src/run_unattended.ps1`), instance lock | restart history | observe, restart | process, dashboard | stale against slow | bounded restarts, one instance |
| Signal analysis, indicators, prompt builder, market data | none between calls | pure functions of candles | pipeline | floating-point thresholds | out of reach of TLC; the models see a signal that may or may not come |

`PROJECT.json` lists these with their files and status, and under `hazards` each thing
found hard to test, at its line, with the property that watches it or the reason why none
does yet.

## The modules

**`Executor`** models `executor`, the native gate and the connection's session, and the
part of `_stop_locked` and `start` that drives them. Each element of `Calls` is one
invocation of a mutating method; the caller (`pc`) and its native thread (`worker`) are separate
actors, because `asyncio.shield` lets a cancelled caller leave a running
worker behind. `Accept`/`Refuse` are the two guards, `Spawn`, `Resume`, `Retry`, `GiveUp`
the retry loop, `Enter` ... `Send`, `Reconcile` the steps of the `_submit_*` functions cut where
the terminal or the broker can change between them. `Send` chooses what the broker
does and, separately, what `order_send` returns. `Stop`, `BeginDrain`, `Drained`,
`DrainTimesOut`, `CloseSession`, `Start`, `Initialize` follow the engine. `Vanish` is a
position closed by its own stop. `effects`, `applied`, `landed`, `raced`, `vanished` record what
happened at the broker and are read only by the broker's answers and the properties.

**`MutationPromise`** is the abstract specification: a request is taken or refused, changes
the broker at most once whether or not its caller is still there, and is reported as a
successful change only after it was one. `Executor` implements it
(`KeepsPromise`), under the mapping at the end of that module.

**`EntryAuthorization`** models who may open trades. Each coroutine has one record: where
it awaits and what it read before. `stored` is the record in the database, all that
survives `Crash`. `granted`, `session`, `armSession`, `revoked`, `paused` remember what the
operator has said. `granted` holds every account read by a command whose phrase was
confirmed. `enable_autonomous_mode` reads the account twice, once for the phrase and the record
and once in its inner `arm_entries`; an account that only the second read saw, after a switch in between, was
confirmed by nobody and goes into `reread`. `NoTransfer` allows it as the armed account and nowhere else. An answer
that comes after a stop and a start (`LateAnswer`) arms the new session. A command with the wrong
phrase changes nothing and is not a step. Permission and heartbeat checks are the environment's choice: failing, they take
the failing branch that each action offers. The record is read by `get_cache`, where a failed read
looks like a missing record.

**`EntryOrder`** composes the order pipeline with `EntryAuthorization`: the
pipeline's own steps, and every step of the authorization in between. Whoever can be armed (`granted` or `reread`)
can be traded on. The executor appears as its two identity checks; `Executor` shows the rest.

**`OrderGuard`** is the abstract specification between the two: an order is handed over with the account its
caller expects, or with none, is compared with the terminal when there is one, and is then sent, with
the terminal's user free to come in between. `Executor` implements it for all its calls at once
(`OrdersAreGuarded`, where every attempt before the last check is one place) and `EntryOrder` for its one pipeline
(`OrderIsGuarded`), so that the short form the executor has there promises no more than the long one.

**`PositionPeaks`** models the coroutine both polling loops use to keep a ticket's
best profit, with the cache calls in threads that nothing orders, and the parts of
the loops that decide under which account it runs and when the state is forgotten. One
ticket is enough: tickets share neither dictionary entries nor keys. `confirmed` is the
highest peak whose write returned success; `exposed` is raised where the code has a window in
which a peak can be undercut:

- a cache read that failed (it is taken for a missing record);
- two loops writing the record at the same time (the lower may land last);
- a forget or an account change while the other loop is inside an update;
- an update under an identity that is not the position's account.

The trough lives in the same record and is represented only by a write that may
happen at any time. `stop()` followed by `start()` in one process is not a step here;
`Restart` is the death of the process and the next start.

**`ProfitRetention`** models the floor under the net profit of one position on one account:
`advance_retention` as pure operators on a record, and the poll of the protection loop
step by step, from the re-read of the ticket (`Refresh`) over the
restore and the write of the record (`Retain`, `Fetch`, `Write`) and the software exit (`Decide`) to the
profit lock, break-even and trailing, each cut between planning a stop and sending it (`PlanLock`,
`PlanOther`, `Modify`). Money is in whole cents; `quote` and `sl` are profits per unit of volume, so
that a partial close changes what a stop is worth as it does in the code. The loop holds
`_execution_lock` for the whole poll and the dashboard's close and modify wait for it; a trade at the terminal
does not, and raises `torn`. `kept` is the last record known to be stored, `lost`
says that a read has failed, `eased` that the operator has lowered the stop. Left out are the 1e-9
tolerances and amounts below a cent. Left to chance are the tier of `_profit_lock_target` (any
of `Tiers` below the profit), the levels of break-even and trailing, and whether the target, stagnation and giveback rules
close. `profit_lock_enabled` and `profit_retention_enabled` are taken to be on, and the
policy to be one `advance_retention` accepts (it answers the previous state otherwise).

**`LossLedger`** models the gross loss of the UTC day, on which the entry gates stop: the counter, day,
markers and peak balance of `RiskManager` as pure operators on a record (`Rolled`, `Reset`, `RestoredMark`,
`Recorded`, `Synchronized`, `Cleared`), and the main loop that calls them, cut at its awaits:
`ReadAccount`, `ReadPositions`, `BookClosure`/`DeferClosure` for every ticket that has vanished, `Periodic`
and then `Fetch`, `Store`, `Sync` of `_reconcile_history`, the read and write of the cached peak, and `Finish`, the rows it
writes last; it also runs at the start and after an
account change (`back` says where it returns to), and its caller takes over the account, `active`, only when it has returned
(`Return`). Each cached record, the three markers and the peak, is read by one step (`ReadCache`, which may fail and
then answers like a missing record) and used by the next (`ApplyMarker`, `ApplyPeak`), and `WritePeak` writes whatever the
peak is by then. A fetch may miss closures the broker does not show yet. The
three resets of the operator are coroutines of their own (`AskReset`, `SaveReset`, `ApplyReset`).
Time is a clock with a midnight. `Total` is a parameter: a sum over tickets, of
which the module assumes only what a sum of losses satisfies. `booked` holds what the monitor has added,
`dropped` what it could not read. The code has windows in which a loss or a marker goes astray; the ghosts name them:

- `low`, a loss may be missing until the next synchronisation: nothing has been synchronised since the
  process or the account came up; a loss was booked after midnight before any gate had rolled the day over, and the
  roll-over wiped it; a reset zeroed a loss that was booked between taking its marker and applying it, or was applied
  after midnight or another account change;
- `high`, a loss may be counted twice or too late: the poll books a closure that the history already had (the
  finding below), one that belongs to another day, account or the time before a marker (also after a `Stop` or
  an exception between the closures of one poll, whose tickets are found and booked again); rows of another account were
  stored under the captured login; a stop amid a change of account, behind `synchronize_closed_trades` (`engine` 3088) and
  before the new identity is taken over (3496): the new account's losses stay in memory under the old identity, and a start on
  the old account keeps them;
- `strayed`, a marker is lost or another account's: a failed cache read, a reset that stores its marker between the read of the old one
  and its use, which puts the old one back, a reset that lands after a change of account or of day, a daily
  and a cooldown reset at once, of which the older may win, a stop amid a change of account, whose markers may already be restored;
- `carried`, `start()` on another account than the last `stop()` keeps the risk memory (`engine` 1928-1938), and the stop of
  `high` leaves the new account's peak under the old identity.

A failed read of the cached peak has no window: the next write then stores whatever balance memory has (`engine` 1935-1939,
3093-3095), which may be lower, and `CachedPeakFallsUnread` names that as the only step that lowers a cached peak.

A loss whose deals are asked of the wrong account is booked as zero without a trace; `CounterCatchesUp` shows that
the reconciliation repairs it. Left out are the row limit of the history,
`_last_loss_time`, changes of a balance while the process runs (an earlier process may have cached a higher one, `PeakBefore`), and a
database thread that outlives its cancelled coroutine.

**`DecisionLane`** models the way from a completed M5 candle to an order. `task[s]` is the analysis task of a
symbol, cut where it awaits: `Scan` (creation and the first candle read, which nothing separates but pure
reads), `Admit` (`_reserve_entry_model_slot`), `Ask` (the semaphore), `Answer`, `Expire` (the deadline), `Valid`
and `Defer`, then the gates under `_execution_lock` from `Acquire` to `Send`. `prober` holds the
two callers of `_ensure_decision_provider_ready`, the supervisor and `arm_entries`: `Health`, `TakeProbeLock`,
`TakeSlot`, `Probed`, and the supervisor's `Decide`. `desk[s]` is the operator's override of a rejected trade, from
`OverrideBegin` to `OverrideFinish`. `Start`, `Stop`, `SeeAccount` and `Switched` clear what the engine clears. A candle
is a number and `late`, which says that it has become too old to enter on; what a candle shows, the model answers and risk validation
finds are choices. `asked`, `blind`, `stray`, `crossed` and `other` are for the properties; the last four name windows:

- `crossed`: the tasks outlive a change of account, and one made for the old account opens on the new one
  if the operator arms that meanwhile (the pipeline compares the terminal with the armed account, not with the reviewed one);
- an order under way when entries are disarmed names no account (finding `order_unconfirmed`);
- `blind`: an order that lands on an account whose positions were not the ones read, or that the operator forces for
  the side opposite to an order that was under way (`other`: `_check_duplicate` refuses the same side only);
- `stray`: a change of account clears the slots while a task of the old account still queues for its own.

Simplified: a request that fails or hangs is one failure or the deadline; a timeout frees the semaphore although
the thread with its HTTP request may still run, so the server can see more requests than `LLM_MAX_CONCURRENCY`;
the replay rows written between the answer and its validation are not awaited; an override success may clear a candidate offered later; start and stop
are atomic (`EntryAuthorization` takes them apart); an exception in a task is not a step. Symbols with a managed position are left to the
exit reviews (`FAST_EXIT_REVIEW_ENABLED`, the default), which are not modelled, and positions stay open.

`MC*` modules give the instances their definitions; the `.cfg` files give the values.
Definitions named as mutants in their comments are single wrong versions of the definition
that follows them; they are used by nothing and show that the properties can fail.

## The runs

| Run | Instance | Properties | What it shows |
|---|---|---|---|
| `executor_lifecycle` | an engine call and an operator call on one key, 2 attempts, 1 fault, 1 stop, drain may time out | `TypeOK`, `AtMostOneEffect`, `DedupUntilAbandoned`, `QuietAfterStop`, `KeepsPromise`, `KeysAreReleased`, `StopCompletes` | no duplicate effect through requotes, lost replies, cancellation, stop and restart; keys come back; stop ends |
| `executor_tickets` | close, partial close, modify of one ticket, two accounts | `LandsOnExpectedAccount`, `SuccessIsVerified` | orders and verdicts stay with their account and tell the truth |
| `executor_lost_reply` | one open | `ChangeIsReported` *(violated)* | an applied order whose reply was lost is reported as no change |
| `authorization_pause` | two accounts, 4 commands, 2 faults, probe at once | `DisarmIsLasting` *(violated)* | a disarm before autonomy is loaded does not last |
| `order_pipeline` | two accounts, 4 commands (a disarm or disable overlaps no enable and no start), 1 fault, suspending probe | `OrderTypeOK`, `NoTransfer`, `ArmedInItsOwnSession`, `SupervisorHonoursDisable`, `OrdersWereAuthorized`, `OrderIsGuarded`, `NoticedSwitchDisarms` | authority leaves its session only by an answer that a stop and start have overtaken, stays with confirmed accounts, ends with its revocation and a noticed switch, orders stay within it, and are handed on under the guard of `Executor` |
| `order_unconfirmed` | two accounts, 2 commands, 1 fault | `OrdersOnConfirmedAccounts` *(violated)* | a disarm during planning drops the account check |
| `peaks_two_loops` | two accounts, both loops, profits 0..2, threshold 2, 2 faults | `TypeOK`, `PeakOutlivesRestart`, `PeakReachesDatabase` | outside the windows a confirmed peak is never undercut and a new one is stored |
| `retention_floor` | sizes 1 and 2, two quotes, two risks, one tier, 2 faults, 1 trade by the operator | `TypeOK`, `RecordIsReadable`, `FloorIsKept`, `FloorIsBacked`, `StopOnlyImproves`, `BreachEnds` | the stored floor lasts, the level taken for applied is retained by the stop, rules never lower a stop, a breach of the floor ends |
| `ledger_day` | two losing positions of one account, one closed before the start, another account, one UTC midnight, 2 events | `TypeOK`, `CountsWhatItKnows`, `NotInflated`, `MarkIsOwn`, `PeakIsOwn`, `ReadyKnowsDropped`, `CounterCatchesUp` | outside the windows the counter holds what was booked and no more than was lost; markers and peak are the account's; a deferred closure is not forgotten; in the end every loss of the day is counted |
| `ledger_twice` | two positions that close during the day, no events | `CountsEachLossOnce` *(violated)* | poll and reconciliation count one loss twice |
| `lane_orders` | two symbols, two accounts, one candle, one slot per candle, one concurrent request, 2 events | `TypeOK`, `AdmissionBound`, `OnePositionPerSymbol`, `OneAttemptPerCandle`, `OrderOnReviewedAccount` | slots, attempts and positions stay bounded and orders stay with the reviewed account through stops, switches, releases and overrides |
| `lane_circuit` | one symbol, two candles, threshold 2, the model down once, 1 event | `ReviewEnds`, `CircuitFailsClosed`, `CircuitRecovers` | no review hangs, an open circuit disarms, a working model is found to |

**Findings.** The four violated runs check a sentence of the repository's documentation each; `PROJECT.json` quotes
it with its line. In short: ambiguous broker replies are neither reconciled nor reported
(`executor:1452`); an order that loses its authorization while it is planned is sent without any
account comparison (`executor:480`, `engine:5886`); a manual disarm does not clear a persisted
authorization that is not loaded (`engine:2243`); and a loss that the reconciliation has read before the
poll misses its position is added to the day's loss twice (`engine:3712`), and stays so until midnight.

Four more disagreements are steps or windows of their modules, without a run of their own: `arm_entries`
arms "for this process session only" (`engine:2026`) and "Entries must be re-armed after every engine start" (`engine:1913`), but
an arm or enable that waits for its provider while the engine is stopped and started arms the new session (`engine:2062-2094`; `LateAnswer` in
`ArmedInItsOwnSession`);
one failed cache read after a restart loses the stored peak (`src/database/storage.py:680`, `engine:1559`,
against `src/README.md:367-369`; in `PositionPeaks` the failed read raises `exposed`), and an operator who lowers a stop leaves the
floor reported as accepted by the broker (`engine:2946`, `src/ui/static/terminal.js:571`, against `src/README.md:396-397`; in
`ProfitRetention` the trade raises `eased`); and a cooldown reset asked before a UTC midnight and applied after it sets the
day's loss to zero, because `_maybe_reset_daily` is given the time of the request and takes every date but the stored one
for a new day (`src/risk/manager.py:1940`, `:1985`, against the docstring at `:1979`, "without altering UTC daily-loss totals"; in `LossLedger` the reset
raises `low`, and the theorem `CountedLossesAreKept` has to name it). A stop amid a change of account, described under `high` and `carried`, contradicts
no document but leaves one account's losses and peak with another.

**Bounds.** Two accounts are what a mix-up needs. Two calls on one key are what a
duplicate needs and one engine call next to one operator call shows the difference that
cancellation makes; three calls on two keys cover the four methods with the first run. Two attempts cover retry
and giving up. Faults (switches, link losses, crashes, failed cache calls, each named in
its module) are bounded by `MaxFaults` because each is an independent event and one or two reach every
branch; commands by `MaxCommands`, stops by `MaxStops`. Profits 0..2 with threshold 2
distinguish no record, a small rise that is not written, and one that is. In `retention_floor` the profits
are 2, 4 and 8 cents with a trigger of 3, a mature trigger of twice the risk, and sizes in the ratio of two:
a position can be below the trigger, above it, and mature, a
partial close halves an odd floor (so that rounding shows), and an addition starts the record anew. One trade by the
operator is enough to change either the size or the stop; two faults give a failed write followed by
a crash. In `order_pipeline` four commands are a start, an
arm or enable, a stop and a second start, which is what a late answer needs; a disarm or disable waits for an enable and a
start and they for it (`RevokesAlone`), because an enable that overlaps a disable, and a start that has read its record before one,
leave autonomy on: the code has no order between them. `SupervisorHonoursDisable`
depends on that bound; every other safety property of the run is proved without it. In `ledger_day` a day has three ticks and the clock passes one midnight: a closure can fall before the start,
between two reads, on either side of a marker and on either side of midnight; a second account without losses of
its own is what an account mix-up needs, and two events combine, say, a failed read with a crash, or a reset with a switch. In `lane_orders` the second symbol competes for
the slot, the request and the execution lock; one candle is enough because slots and attempts are per candle, and
`lane_circuit` has the second one, over which a deadline, a late answer and the count of failures reach. At most eight candles are meant by `MaxBar`, since the code
keeps the slots of eight. Deadlock is checked in the two runs of the lane; elsewhere, with the bounds
used up, and in the executor once every call has returned, the system may stop.

**Fairness.** The event loop resumes a coroutine whose await is over and the pool runs every
worker: weak fairness of those steps, one condition per coroutine or thread. `stop()` goes on once begun. The polling loops poll for ever. Nothing
is assumed of operators, the terminal's user, the broker, faults, or of the drain timing out.
`BreachEnds` assumes only that the protection loop goes on polling: weak fairness of `Poll`, whose
task the engine starts in `start` and whose failure stops the engine. `NoticedSwitchDisarms` assumes the same of the main loop. A close that fails does so at most `MaxFaults` times.
`LossLedger` assumes that the main loop goes on polling (weak fairness of `Polling`), that the interval between reconciliations passes
again and again and that the broker shows each closure some day (strong fairness of `Periodic` and of a complete `Fetch`, which other steps of
the loop keep switching off), and that a reset begun ends; `CounterCatchesUp` also relies on the bounds on time and events. `DecisionLane` assumes
that a task, an override, a prober and the main loop's change of account take their next step when they can: weak fairness each. A
request that hangs is covered by `Expire`, the deadline; nothing is assumed of the model's server, the operator, new candles or `Start`.
`PeakReachesDatabase` relies on the bound on faults: a database that fails for ever never stores anything.

## What is proved

All proofs hold for every value of the constants under the named assumptions of each module
(`ExecutorAssumption`, `AuthorizationAssumption`, `PeaksAssumption`, `RetentionAssumption`, `LedgerAssumption`,
`TotalAssumption`, `LaneAssumption`): any sets of calls, keys, accounts, symbols and positions, any sizes, quotes, losses,
risks, limits and retention policy, any bounds. TLC evaluates those assumptions in the runs.

- `Executor_proofs`: `TypeCorrect`, `NoRepeatedEffect`, `OrdersKeepTheirAccount`, `DedupHolds`,
  `StopIsQuiet`, `SuccessesAreVerified`, `ImplementsPromise`. The properties are not inductive:
  `AtMostOneEffect` needs that a call which is about to send again has no effect yet, because the
  only replies that are retried mean "not applied"; deduplication needs that a
  key is held as long as its caller runs, that a worker whose caller is gone is tracked,
  and that nothing is accepted until the tracked workers have drained; quiet after stop needs what
  each phase of stopping has already waited for; a verified success needs that, while no switch
  raced with the call, what the broker accepted is on the terminal's account when it is re-read, and
  that the verdict stays true of what was applied. The refinement proof has one step per action of
  `Executor`, each a step or a stutter of `MutationPromise`.
  Further: `DedupHoldsWithoutTimeouts` (an abandoned drain is the only way to two live workers with one key: with
  `~DrainMayTimeOut` the exception is gone), `NoKeyIsLeaked` (a key in the set has exactly one running holder),
  `TransactionsAreSerialized`, and `ImplementsGuard`, the refinement of `OrderGuard`.
- `OrderGuard_proofs`: `GuardedOrdersLandAsExpected`, from the guard alone: an order that names an account is sent to it unless the
  switch came after the comparison. It holds of whatever implements the guard.
- `EntryAuthorization_proofs`: `TypeCorrect`, `AuthorityDoesNotTransfer`, `ArmedInSession`, `DisableIsHonoured`. `NoTransfer` is
  strengthened with what the pending coroutines hold (`PendingAuthority`): each of
  them arms, authorises or persists later, so the account it has read must be confirmed too. `ArmedInSession`
  has no hypothesis: one lemma (`SessionStep`) goes through the steps and finds only the late answers in the way.
  `DisableIsHonoured` assumes `RevokesAlone`: then no enable and no start is under way while a disable runs (`Exclusive`), and the record of a
  revoked account is unwritten and in nobody's hands (`Withdrawn`).
- `EntryOrder_proofs`: `ComposedTypeCorrect` and `OrdersAreAuthorized`, an action property: the account
  planned for, and the one handed on, are ones that `NoTransfer` allows from the check until the order is sent.
  The theorems on the authorization hold of the composition too (`OrdersDoNotTransferAuthority`, `OrdersKeepTheSession`,
  `OrdersHonourDisable`): a step of the pipeline leaves the authorization alone or disarms it, and the one
  invariant of all of them (`AuthorizationInv`) is kept by a disarm at any moment. This is the step that the
  theorems on `EntryAuthorization` do not give: there nothing disarms while a command waits for its probe but the commands themselves and
  the loops. `PipelineImplementsGuard` needs that a pipeline which is not in a worker has no race to its name (`Fresh`).
  `NoOrderWithoutTheEngine`: after a stop, a failure or a crash nothing of a pipeline is left
  but a native worker, which goes on without its task.
- `PositionPeaks_proofs`: `PeaksTypeCorrect`, `StoredPeakOutlivesRestart`, `LoadedPeakNeverFalls`. The invariant is `Covered`:
  memory covers the record, the record covers what was confirmed, a fetched value is still the
  record as long as nobody has loaded it, and the one writer carries a value between the record and
  memory. Each part is what keeps the next one true across the awaits. That the peak in memory never falls while the
  ticket is loaded needs no window: `_restore_and_update_position_peak` merges what it reads.
- `ProfitRetention_proofs`: `RetentionTypeCorrect`, `WrittenRecordsAreReadable`, `StoredFloorOutlivesRestart`,
  `LockedFloorIsRetained`, `OnlyTheOperatorLowersAStop`, `DesiredFloorFollowsSize`, `UntouchedStopNeverFalls`, `UntouchedLockIsBacked`.
  The invariant has three parts. `SoundInv`: every
  record in the database, in memory and in the poll is empty or readable, which `advance_retention` and the
  merge preserve because rounding is monotonic and the candidate is below the peak. `KeptInv`:
  memory or, while it is not loaded, the database covers the record last known to be stored; a
  write under way only raises it. `StopInv`: a planned stop is above the present one and retains the floor it is
  planned for at the present size, because nobody else trades while the loop holds the lock.
  `DesiredFloorFollowsSize` has no window either: it speaks of memory, where a partial close takes from the floor its share, rounded down.
  The two theorems on an untouched position assume `MaxTrades = 0`, that nobody trades it at the terminal or the dashboard:
  then `torn` and `eased` are never raised, and the stop never falls and backs the level taken for applied, without exception.
- `LossLedger_proofs`: `TypeCorrect`, `CountsWhatIsKnown`, `NeverInflated`, `PeakIsTheAccounts`, `ReadyForgetsNothing`,
  `MarkersAreTheAccounts`, `CountedLossesAreKept`, `CachedPeakIsKept`. The base (`Base`) says that nothing is known of later than now, that only closures are stored, read or booked,
  and how far the loop's place lets its account and the counters be (`Placed`). On it stand `NothingMissing` (the
  counter is at least the sum over what is owed and booked or, except just before a synchronisation, stored) and
  `NothingTwice` (at most the sum over what is owed and either). Both speak of the day it is, though the record may still be of
  the day before: `CountAt` and `MarkAt` read the record as the next gate will. `DeferredKnown` follows a dropped
  closure through a fetch into the rows. `MarksStored` compares memory with the cache for each kind of marker except while
  a reset is between its write and its assignment; `CachedFirst` says that the write is there first.
  `CountedLossesAreKept` lists every step that takes losses of today from the counter, window or not; `CachedPeakIsKept` says that
  only a write whose own read of the cached peak has failed lowers it, whatever memory has forgotten. Both, and the invariants above, have a step for
  every await of a change of account, at each of which a stop, a crash, a reset or a switch may come in.
- `DecisionLane_proofs`: `TypeCorrect`, `CandleBudget`, `OneAttempt`, `OnePosition`, `OrderOnItsAccount`, `LockExcludes`, `UnattendedEngine`. `TaskKinds` sorts the
  steps of a review by what they do to its candle and its place; each invariant is then proved per kind.
  `SlotsHeld`: a queued review owns a slot of its candle, unless the slots were cleared under it. `Tried`: a candle that was asked about is used
  up, or old, or still in the hands of the task that asked. `OneHolder` and `SeenEmpty`: one order is past the execution
  lock, and the positions it read are as it read them. `OwnAccount`: the reviews that run are all of one
  account, which is also the only one autonomy can arm. `UnattendedEngine` assumes `MaxEvents = 0`, an engine that
  nobody touches and whose terminal stays on its account, while the model fails and recovers, candles age and the engine locks
  and arms itself: it opens at most one position per symbol and none on an account without a persisted record. Here the window
  `blind` of `OnePosition` is proved never to open.

The theorems whose property is in no run (`OnlyWorkersOutliveTheEngine`, `OrdersAreGuarded`, `DistinctLiveKeys`, `KeysHaveOneHolder`, `OneTransactionAtATime`,
`FloorFollowsSize`, `StopNeverFalls`, `Backed`, `OneHolder`, `HeldByRecord`, `PeakNeverFalls`, `LossesAreKept`,
`CachedPeakFallsUnread`, and `SentAsExpected` of `OrderGuard`) can be checked by adding that property to a `.cfg` of the module, those
with a hypothesis after setting the constant it names.

**Only model-checked**: the liveness properties (`KeysAreReleased`, `StopCompletes`, `NoticedSwitchDisarms`,
`PeakReachesDatabase`, `BreachEnds`, `CounterCatchesUp`, `ReviewEnds`, `CircuitFailsClosed`, `CircuitRecovers`), since
fairness and ENABLED are beyond the prover. Every safety property of the passing runs is proved. The theorems are about the specifications
without fairness, and so hold of the fair ones.

## Not modelled

- The exit reviews (`_evaluate_position_exit` and what it calls), which ask the model about held positions beside the lane, and the
  software exits other than the retention floor (stagnation, giveback) beyond the choice whether they close.
- Why a position was closed (`engine` 836-853, 4237-4719): a remembered reason is a text for the
  journal and decides nothing.
- The market selection task and its ranking: in `DecisionLane` a symbol may be out of the ranking at any time.
- Shadow outcomes and the replay log: they are written and never read by a decision.
- The watchdog script and the instance lock, which act on the process from outside; their effect is
  `Crash` and `Restart` where a module has them.
- Prices, indicator values, prompts and their parsing: floating-point arithmetic and texts, represented by choices.
- The risk manager's gates other than the daily loss: they are tests of one configuration value each, represented by a refusal that is
  always possible.
- The dashboard beyond its commands, settings, logging, the system monitor, and the tests, which are the
  reference for what the code is meant to do.

The currency part of the account identity is part of the account's name here.

## Plan

Done, each with its proofs: 1. `Executor` with `MutationPromise`; 2. `EntryAuthorization`; 3. `EntryOrder`
(composition); 4. `PositionPeaks`; 5. `ProfitRetention`; 6. `LossLedger` (closures, reconciliation, the daily loss and its resets);
7. `DecisionLane` (admission, circuit, override).

Left, in this order:

8. The market selection task: one at a time, and none that publishes the old account's ranking.
9. Exit reviews beside the lane: the second user of the model slot and of the circuit.
10. `ShadowOutcomes` (resolved once) and the restart policy of the watchdog.
11. `EntryAuthorization` and `DecisionLane` composed: the supervisor of the one arms the tasks of the other, which
    `DecisionLane` now abstracts with its own supervisor.
