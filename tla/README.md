# TLA+ specifications of the Polymarket reward market maker

The program under `src/` quotes reward-eligible BUY orders on Polymarket for a
set of wallets, and gets out of what they buy. This directory holds models of
its concurrent and failure-prone parts, TLC configurations that check them on
small instances, and TLAPS proofs about them for every instance.

| module | what it is |
|---|---|
| `MergeExit` | the fast-exit router of one wallet in one market, and its `merge_events` rows |
| `MergeLedger` | what that table promises the profit ledger (abstract specification) |
| `MCMergeExit` | instances of `MergeExit` |
| `MergeHistory` | `MergeExit` with two history variables: what was bought between the reads of a tick, and the rows reserved on it |
| `MCMergeHistory` | instance of `MergeHistory` |
| `MergeExit_proofs` | type and safety proofs, and the refinement of `MergeLedger` |
| `BuyOrders` | placing rounds against the monitor's tick, the web routes and the exchange |
| `MCBuyOrders` | instances of `BuyOrders` |
| `BuyOrders_proofs` | types, one buy per token, the cap on quoted markets |
| `Engine` | start, stop and restart of the engine, its scanner loop, scans by hand, the shared pool |
| `MCEngine` | instances of `Engine` |
| `Engine_proofs` | types, one scanner loop, one monitor per wallet, no unwatched buys, the saved scan |
| `FillDedup` | Step 1 of the tick, priming and recovery at start-up, restarts |
| `FillLog` | what Step 1 promises: a log that a fill enters at most once, but for what a life takes up before it is primed (abstract specification) |
| `MCFillDedup` | instance of `FillDedup` |
| `FillDedup_proofs` | types, old fills stay old, the refinement of `FillLog`, remainders are gone |
| `Quotes` | how a round filters, prices, sizes and reconciles, and how Step 3 judges the result |
| `MCQuotes` | books, rewards and templates for `Quotes` |
| `Quotes_proofs` | types, the recorded reason, the market's budget, agreement of the two judges, and that the buys come to rest |
| `ExitTick` | low balance, resolution, stop, profit and the Maker route of one tick |
| `MCExitTick` | instance of `ExitTick` |
| `ExitTick_proofs` | all six properties of `exit_tick`: types and held shares, one sell, the target, the cost, calm ticks |
| `Pnl` | the daily rebuild of the profit table, its thread and its FIFO replay |
| `MCPnl` | instance of `Pnl` |
| `Pnl_proofs` | the rebuild's flag is never stuck, no day is missing, past days are right, a sold-out wallet's rows are its cash |
| `Sums` | lemmas on sums, folds, greatest elements and recursive functions, for the proofs |

`BuyOrders` takes what to rest at as a variable (`quote`), which `Quotes` computes; that
there is one scanner loop to place is shown by `Engine`; `ExitTick` leaves the merges to
`MergeExit`, and `Pnl` takes from it the rows that are confirmed.

Run a configuration with `tlc -config merge_answered.cfg MCMergeExit.tla` and a proof
with `tlapm BuyOrders_proofs.tla`.

## 1. Inventory

**Threads.** One tick thread per wallet (`WalletWorker._run`, every
`fill_check_interval_sec`), one scanner loop (`EngineManager._scanner_loop`:
discovery every few hours, a placing round every 30 s), one thread per manual
scan, the web server's request threads, and a worker for the daily profit
rebuild. They share the `EngineManager`, its workers, the SQLite database and the
exchange; almost nothing is locked.

| component | state | operations | interacts with |
|---|---|---|---|
| `engine/manager.py` `EngineManager` | `engines`, `eligible_markets`, `_scan_generation`, `_stop_event` | start, stop, restart, scan, discover, placing round | workers, scanner, database |
| `WalletWorker` | thread, `running`, snapshots local to a round | `_tick`, `place_orders`, `_cancel_buy_orders` | CLOB, Data API, Gamma, database |
| `engine/monitor.py` | `_seen_fill_keys`, `_after_ts`, `_just_dumped`, cost caches | fills (Step 1), UMA guard, low balance, exits, compliance (Step 3) | CLOB, router, database |
| `engine/exit_router.py` | `merge_events` rows, `_managed_sells`, snapshots of a tick | reconcile, route a position, FOK + Merge, maker sell, FAK | CLOB, Relayer, chain, database |
| `engine/laddering.py`, `legacy_wall.py`, `tiers.py` | none (pure) | choose a price level, split a budget, reconcile | called by `place_orders` |
| `engine/take_profit.py`, `merge_accounting.py`, `protected_exit.py`, `pnl*.py`, `fills.py` | none (pure) | FIFO cost, profit of a Merge, exit price, fills of a trade list | called by monitor and router |
| `engine/scanner.py` | progress callbacks | collect and filter candidates, refresh books | Gamma, CLOB |
| `models/database.py` | SQLite tables | `merge_events`, cooldowns, blacklist, settings, history | everybody |
| `web/routes.py` | sessions | settings, blacklist, cancel and place buttons, engine control | manager, CLOB |
| `api/polymarket_api.py`, `api/proxy.py` | clients | HTTP with retries, answers checked or only logged | the outside |

**What is hard here**, and the properties that make each part correct:

* *Router.* An irreversible operation (a FOK buy and an on-chain Merge) is spread
  over many ticks and survives only in a row. A crash may fall between a call and
  the write of its result, an answer may be lost, `/positions` lags, resting sells
  trade before their cancel. Correct: one operation at a time, submitted once,
  settled once, booked iff burnt, and it ends.
* *Placing rounds.* A round acts for seconds on snapshots taken at its start while
  fills, the tick, the routes and the owner change what it saw. Correct: one buy
  per token, no more than the allowed number of markets, no more than the allowed
  exposure, forbidden buys go away, and mistakes are repaired by later rounds.
* *Quotes.* A round prices on one book and one reward, Step 3 judges on others, by
  rules written twice. Correct: they agree, budgets hold, the two come to rest.
* *Exits.* One tick sells through four steps that share reads made at its start.
  Correct: one sell per position, never below cost, reported as it is, no more sold
  than was short, nothing left behind.
* *Profit.* A thread rewrites every day from the whole history, beside its successor.
  Correct: days that have settled are right, and the table catches up.
* *Fill detection.* Handled fills live in memory only and are rebuilt at start-up
  beside a tick that already runs. Correct: a fill is handled once, an old one not once the
  rebuild has gone through, and none is forgotten.
* *Life cycle.* `stop` waits 30 s and goes on; the stop event is reused. Correct: a
  stopped engine leaves no buys, and there is one scanner loop.
* *Scans.* A scan rebuilds the shared pool entry by entry. Correct: a superseded
  scan writes nothing; a failing one leaves the pool of before.

`PROJECT.json` lists the hazards one by one at their lines.

## 2. MergeExit

State and code: `events` is the `merge_events` table (a row is `READY`, `SUBMITTED`,
`CONFIRMED` or `FAILED`, and `NONE` while its id is unused); `positions`,
`openSells`, `managed` are the router's `_positions`, `_open_orders`,
`_managed_sells`; `counted` is what the FIFO rebuild of a cost adds up to; `loc[t]`
is thread t's place in the code. `bal`, `gap`, `sells`, `fok`, `txs` are the outside:
shares on chain, burnt less booked, resting sells, FOK orders and Relayer
transactions.

One action is one stretch of code between two outside calls: `ListOrders`, `Reconcile`
and `ReadTrades` are the head of `check_exit`, which reads the positions
(`monitor.py:629`) well before the trades that costs are rebuilt from
(`monitor.py:653-660`; `Recount` is the retry when that read has failed); `ReadRow`,
`RetryReady`, `QueryFok`, `PollMerge`, `PollTimeout`, `SkipRow` are `_reconcile_events`
and what it calls; `SubmitAccepted/Raised/Lost/NoId` and `RecordTx` are the rest of
`_submit_merge`; `RoutePair`, `RouteMaker`, `RouteFak`, `RouteFok` are `route_position`,
with `FokAccepted/Rejected/Raised` and `RecordFok` for the FOK order; `UpstreamExit` is
the exit that follows when the router raises. `Environment` holds fills, lagging
answers, outside sales, mining and the crash. Prices are abstracted to the choice they
lead to, so every route whose share conditions hold is possible.

`Env` says which disturbances may happen, so that each run and each theorem names
its assumptions:

| run | instance | shows |
|---|---|---|
| `merge_calm` | no disturbance but a slow tick | never two undecided FOKs (`OneLiveFok`); only doubtful rows are booked unburnt (`BooksOnlyBurnt`) |
| `merge_answered` | lag, sell fills, outside sales, cached costs, trades read late; no crash, no lost answer | `SubmittedOnce`, `SharesFree`, `ReservationEnds`, `ImplementsLedger` |
| `merge_interrupted` | crashes, lost answers, a failing read of the active row | `TypeOK`, `OneActive`, `SubmittedHasTx`, `SettledOnce` |
| `merge_booked_unmined` | no disturbance, merges of one share | **violated** `ConfirmedWasMined`: a burnt pair is merged again and the second Merge is booked |

*Bounds.* `MaxBal` (shares of a side that fills may build up), `MaxEvents`, `MaxTx`.
One share, two rows and two transactions are enough for a second operation after a
first one, for a duplicate transaction and for a pair that vanishes. `merge_calm` has
merges of two shares and a tolerance of one, so that a rebuilt position may be off and
still pass; `merge_booked_unmined` has merges of one share. `merge_answered`
has one row since liveness is checked there and each row's life is independent of
the next. Ids and transactions are taken in order, as AUTOINCREMENT does.
A new row is inserted only where the table's index lets it (`IndexAllows`), so that the
active row that a failing read hides from the router still keeps a second one out.

*Books and chain.* `ImplementsLedger` allows every row to be booked on the presumption
that it was burnt: shares vanish by other hands, and the code cannot tell. Where nobody
else touches the account one would expect that none is. That is not so, for two reasons.
A difference within the tolerance passes (`merge_booked_unmined`), and a buy filled
between the two reads of a tick is in the rebuilt size and not in the reported one, so
that it makes up for shares a Merge has burnt behind the snapshot, however large the
least merge is. `MergeHistory` records which sides were bought so (`late`) and which rows
were reserved in that tick (`doubtful`); `BooksOnlyBurnt` says that, with the least merge
above the tolerance, no other row is booked unburnt. The ledger is the same; only
`presumable` differs. `merge_calm` has no crash and no lost answer: of what a stop between
`place_fok_buy` and its write does, and of a second submission after an answer that was
lost, it and `merge_answered` show nothing (section 9); `merge_interrupted` shows what
holds of the rows all the same. A cancel that raises (`cancelFails`) is in no
run, as it nearly doubles the states of `merge_interrupted` (to 11 million; its properties
hold there too); the theorems cover it, but for `MergedSharesFree`, which excludes it.

*Fairness.* Each thread keeps stepping (`_run` catches every exception and loops). A
poll of the Relayer, a query of the FOK and an accepted submission are strongly
fair: the code retries each of them every tick or every 120 s, and the claim is
about a service that does not refuse for ever. Transactions are mined or fail, and
delayed orders are decided.

*Proofs.* `IInv` = `TypeOK` with the places threads can be at (`LocOK`), transactions
that belong to rows (`TxsOK`), rows that were reserved in order (`RowsOK`),
`SubmittedHasTx` and `OneActive`. It is inductive for every `Threads`, `Env` and bound;
`OneActive` alone is not, since a thread in the middle of a call may write to a row that
must not have been dropped for another one: `RecordTx`'s index check and `RowsOK` rule
that out. With the tick thread alone (`Alone`), `SInv` adds `CallOK` (the row a call is
about has not changed since the thread read it) and gives `RowSettledOnce`. With no
crash and no lost answer (`Uninterrupted`), `LInv` adds `TxInv` (which transactions a
row in each status has) and gives `MergeSubmittedOnce` and `RouterImplementsLedger`: the
table steps as the ledger does, whatever the snapshots, the trades and the account do.
`OneUndecidedFok` adds `FokInv`: an undecided FOK belongs to a READY row that knows of its
order, or whose thread is about to write it, so that the row is not dropped and the next
operation waits. `MergedSharesFree` excludes neither crash nor loss; it assumes `Alone`
and cancels that are carried out (`Obeyed`, which also excludes a failing read of the active
row: the routes that follow it rest a sell beside the row). Its invariant `SellInv`
says how far the thread's snapshot covers the resting sells at each place: wherever a
pair can be merged it covers all of them, so that cancelling the snapshot frees every
share.

Only model-checked: `ReservationEnds` (liveness) and `BooksOnlyBurnt`.

## 3. BuyOrders

State and code: `orders` are the CLOB's open BUY orders (`hit`: partly matched, which
Step 3 passes over), `held` the Data API's positions, `news` the maker fills Step 1 has
not handled, `cooldown` and `blacklist` the tables, `uma` Gamma's resolution status,
`pool` is `eligible_markets`. `quote[t]` is what the pure rules say of a token's current
book: the price to rest at, or `Off` (filtered out, or the plan is "skip"); books
change at any time, so it may change between any two steps. `pl[p]` is a placer's
round with the local variables of `place_orders`: the per-token eligible list, the
snapshots, `markets_with_open`, the markets still to do and the jobs
(`cancel_ids`, `to_place`) of the current market's sides.

A round is `Begin` (`_place_round`'s filter), `ReadOrders`, `ReadPositions`, `Dropout`,
`ReadGamma`, then for each market `PlanMarket` and for each side `CancelSide` and
`PlaceSide` or `PlaceRejected`; `ReadRaises` is an early return. The tick is `HandleFill`,
`ResolutionGuard`, `BlacklistCancel`, `ComplianceCancel`; the rest are routes, discovery,
expiry of cooldowns and the exchange. Placers are the scanner loop, the place-orders
route and `test_place_orders` (which has a limit and no dropout pass).

Abstractions: exposure is counted in lots of shares and the dollar budget, which works
the same way, is left out; reconcile's size tolerance (one share or 1%) is less than a
lot; `legacy_wall` differs only in how it prices and sizes. Markets are taken in any
order. A cancel is atomic with its answer, and `Env` says whether it may raise (before
or after taking effect) or answer `not_canceled`, which the code treats as success.

| run | instance | shows |
|---|---|---|
| `buy_rounds` | two markets, truthful cancels; fills, price moves, failing reads, exits, UMA | `TypeOK`, `OneBuyPerToken`, `ConcurrencyCap` (cap 1) |
| `buy_recovers` | one token; raising cancels, lost place answers, taker fills, blacklisting | `BlacklistCleared`, `ConvergesToOne` |
| `buy_exposure` | both sides of a market; only prices move | **violated** `ExposureCap`: an unlisted side's resting buy is not counted |

*Bounds.* Two order ids that are recycled once nobody remembers them, which keeps the
runs finite without stopping behaviours; two lots per tier so that a fill may be
partial; `MaxHeld` bounds what fills build up. Two markets under a cap of one make
every wrong room visible. In `buy_recovers` two ids for one token are enough for the
duplicates a lost cancel leaves (the run reaches them), and two markets with tokens
in one of them keep the pool from being emptied by a single blacklisting.
Both passing runs have `CHECK_DEADLOCK FALSE`: with nothing eligible or the ids in
use, nothing may be left to happen within the bounds.

*Fairness.* The scanner loop keeps starting and finishing rounds and discovering (its
loop catches every exception), the tick handles every fill, and cooldowns expire. A
cancel is strongly fair per order (`Through`): it is asked for again each round or tick
while the order rests, and a service that fails for ever is excluded. The tick's
compliance cancels, the routes and the world are not fair.

*Proofs.* `BuyTypeCorrect`: `TInv` = `TypeOK` and `JobsPriced`, for every `Env` and every
number of placers; without `JobsPriced` a plan of price `Off` could be placed.
`BuysWithinPlacers` holds of any number of placers side by side, if cancels do what they
answer (`Truthful`): a token never rests more buys than there are placers. Two rounds can
each place a target that neither snapshot showed, but a placer's next round sees its own
earlier buy and cancels it first, so further rounds add nothing. The state does not say
who placed an order, so the invariant (`RInv`) claims that an attribution exists
(`own`, one of `Owners`) under which no placer has two buys on a token (`OneBuy`) and every
round fits its placer's orders: the snapshot confuses no order with a later one of its
id (`SnapOK`), until a market is dealt with every buy of this placer on it is in the
snapshot (`AllSeen`), and a job that places cancels all this placer has resting on its
token, with one job per token (`JobsOK`). A step that places an order attributes it to
its placer; every other step only ends or shrinks orders (`Shrinks`, `ShrinkOK`), so one
placer's steps leave the others' part alone. `OneBuyOnly` is the case of one placer
(`Alone`), who then has placed all that rests (`AloneOwns`).
`CapKept` further assumes one placer and that no placed order goes
unanswered (`Answered`): `CapOK` says that `markets_with_open` covers every quoted market
and respects the cap (`Fits`), and that a side about to be placed has room (`Room`).
The assumptions are needed: a raising cancel breaks the buys, two placers or a lost
answer the cap, and `ConvergesToOne` is what remains then. The cap has no counterpart
of `BuysWithinPlacers`: a round re-quotes the markets of its old snapshot, cancelled since,
while another round takes their room, so that the next snapshot holds one market more.

Only model-checked: `BlacklistCleared`, `ConvergesToOne` (liveness).

## 4. Engine

State and code: `engines`, `stopEvent`, `scanner`, `pool`, `status`, `generation` and
`scannerApi` are the `EngineManager`'s fields of those names (`status`: `scan_status` is
"scanning"), `saved` the generation of the scan in the `eligible_markets` table,
`monitor[w][k]` the thread of the k-th worker a wallet has had, `buys` the wallets with a
reward buy on the CLOB. `th[t]` is the place and the locals of each scanner thread and
each request thread of the web server, `scans[g]` those of the g-th scan by hand.

A request goes through its code step by step, and every other thread may run between two
steps: `StartAll`, then `StartNext` and `WalletBuilt` or `WalletFails` for each wallet
(building a client goes over the network), then `StartEnds`; `StopAll`, `JoinScanner`,
then `StopNext`, `JoinMonitor` and `CancelBuys` for each wallet, then `StopEnds`, which
goes on to start for a restart. A scan by hand is `StartScan`, `ScanBegin`, `ScanFound`
per market, `ScanDone`, `ScanFails` or `ScanSuperseded`, `ScanChecks` and `ScanSave`,
and the `finally` of its thread, `ScanEnd`. The scanner loop discovers the same way
(`LoopDiscovers`, `DiscoveryFound`, `DiscoveryEnds`: it has no generation, so it always
counts as current) and runs rounds (`RoundBegins`, `PlaceWallet`, `Placing`,
`WalletPlaced`, `PlaceEnds`).

Abstractions: the pool is empty, half filled or whole; a wallet's buys rest or do not,
and what a round does to the single orders is `BuyOrders`. When discovery is due is left
open. A check and the assignment right after it are one step, but a check and a
database write are two. A request that iterates over `engines` while another request
changes it raises in Python; here it goes on with the wallets left, which places and
cancels more.

| run | instance | shows |
|---|---|---|
| `engine_orderly` | no disturbance, one request at a time; clients that cannot be built, failing discoveries, forced scans | `TypeOK`, `OneScanner`, `OneMonitor`, `BuysAreWatched`, `SavedForward`, `StatusSettles` |

*Bounds.* One wallet: wallets meet only in the lists a request works through, and a list
of one already has a before, a during and an after. Two scanner threads, the second
being the one that must not exist beside the first; two workers per wallet likewise;
both are recycled, so stops and restarts go on for ever. Two scans by hand, so that one
supersedes the other. The proofs cover any number of each.

*Fairness.* A scan by hand and a turn of the scanner loop that have begun keep going
(every exception is caught at their top, every network call has a timeout). Requests
need not come and placing need not end. `StatusSettles` needs no more.

*Proofs.* `EngineTypeCorrect`: `TInv` adds to `TypeOK` that a thread at work on a wallet
has named it (`WalletNamed`), for every `Env` and any number of threads. The others
assume one request at a time (`Alone`); the requests of `web/routes.py` are not locked
against each other, and two starts at once break all three. `OneScannerLoop` further
assumes that the owner starts only a stopped engine and that the loop ends within the 30
s of the join (`Sequential`). `OneScanner` is not inductive: `SInv` adds that the loop
that lives is the one the manager knows, and that a request about to start one knows of
none (`RouteOK`). `OneMonitorThread` and `BuysStayWatched` assume `Calm` (`Env = {}`)
and share `WInv`: a wallet is placed for only while it runs (`PlacingOK`), a stop works
when no scanner does and its wallet has left `engines` (`RequestOK`), running workers
are the ones that monitor (`WorkersOK`), and a monitor told to stop is waited for
(`ToldAreAwaited`). `SavedMovesForward` needs neither, only that the write of a scan's
result is done before a whole newer scan is (`slowSave` not in `Env`): `GInv` says that
a scan about to write is not older than what is saved and has no newer one past its
fetch.

`OneScannerLoop` is what `BuyOrders` needs for its assumption of a single placer, as long as
nobody places by hand.

Only model-checked: `StatusSettles` (liveness).

## 5. FillDedup

State and code: `trades` are the maker fills of the wallet's buys, by match time,
`listed` those `get_trades` shows, `open` the resting buys; `seen`, `afterTs`, `pending` are
the monitor's `_seen_fill_keys`, `_after_ts`, `_prime_pending`. `tick` and `rec` are the
places and locals of the tick thread and of the thread that starts the wallet.
`life`, `old`, `primed`, `hasty`, `log`, `clean`, `deaf` are history.

A tick is `TickBegins`, then `TickAsksAll` and `TickPrimes` if priming is pending,
`TickFetches`, `TickSelects`, `TickReadsOpen`, and `HandleFill` for each new fill, the
oldest first. `TradesFail` is a `get_trades` that raises; a failing cancel, order read or
cooldown is an alternative of its action. `startup_recovery` is `RecoveryBegins` (the
watermark from the tables), `RecoveryAsksAll` and `RecoveryPrimes`, or `RecoveryFails`,
which leaves `_prime_pending`. The exchange lists a fill some time after it happened,
and its `after` filter may bring back older ones (`Answers`). What a fill is worth is
left out: Step 1 acts on its order.

`start_wallet` starts the tick thread (`manager.py:1028`) and `start_all` runs the recovery
only after all wallets are started (`manager.py:752`): a tick may run before, beside and
after the priming, in every life, and until the priming has gone through it finds no
fill seen and takes the whole history for new. `primed` says that a priming of this life
has gone through, `hasty` holds the fills that ticks took up before it did.

`fill_dedup` runs with every call failing, cancels that return while the order rests on
(`not_canceled`, which the code only logs, `polymarket_api.py:97`) and the process
restarting: `TypeOK`; `OldStaysOld` (once the life is primed, no fill that was on record
when it began is taken up any more, not even by a tick that fetched it earlier);
`ImplementsLog` (a fill is acted on once at most over all lives, but for hasty ones,
once more in their life); `RemainderGone` (an order whose fill was handled with its
reads done and its cancel returned rests no more, unless the CLOB had answered that it
did not cancel it: `deaf`); `FillsDealtWith` (a listed fill is counted in the life it is
listed in). Two orders, two fills in one or two seconds and two lives: enough for two
fills of an order, two orders in a tick, equal and different times, and a restart
between any two steps. `CHECK_DEADLOCK FALSE`: with all fills traded nothing need happen.

*Fairness.* The tick's loop catches every exception and goes on; a recovery that has
begun ends; `get_trades` does not raise in the tick for ever (strong fairness of the
two reads). `FillsDealtWith` says nothing of a service that always fails.

*Proofs.* All for every `Env` and any bounds: `FillTypeCorrect`, `OldFillsStayOld`,
`StepOneImplementsLog` and `RemainderIsGone`. For old fills `OldSeen` is enough: a thread
about to prime has asked for the history in this life, so that what it got covers `old`,
and once primed `old` is in `seen`; where the other thread stands does not matter. For
the log, `LogInv` adds that what was acted on in this life is in `seen` and never still to
do, that what was acted on in any life is in `seen` or in `old`, and that such fills are
still to do only if they are hasty. `RemainderGone` is strengthened by what the tick has
read (`OrdersOK`): the order of a fill it holds is used up by a fill that was matched
before the orders were read, so that an id not among them never rests again, and one
among `cancelled` only if it is deaf.

Only model-checked: `FillsDealtWith` (liveness).

## 6. Quotes

State and code: `depth` is what others quote on the two sides, `mine` the wallet's buy on
each, `held` its shares, `pool` the market as the last scan left it, `live` the reward as
Step 3 fetches it, `template` the settings. `Seen`, the book as the CLOB shows it, holds
the wallet's own buys: the round prices on a book that contains what it is about to
replace. A round is `Filter` and, on newer books, `Dropout` or `Place`; `Comply` is Step 3
for one order, with the write-back of a reward that fell; `Scan` refreshes the pool. The
pure rules of `laddering.py`, `legacy_wall.py`, `order_sizing.py` and `scanner.py` are the
operators of the same names. Prices are tenths of a cent and book sizes half shares,
so that sizes compare as in the code on two-decimal sizes that are halves; finer fractions
are not modelled. Prices are exact: `scanner.py:66` rounds the spread of the book to four
places and `monitor.py:1318` does not, so that where a distance lies exactly on its bound
(a spread of 29 cents) the code may list what Step 3 cancels, which the model does not
show. `Place` takes the positions, the balance and the reward spread at the time of
placing; the code has them from the start of the round (`manager.py:283`, `manager.py:423`,
`scanner.py:609`). What a round does on old snapshots is `BuyOrders`' subject.

`quotes` checks `TypeOK`; `SameVerdict` (what an undisturbed round placed or kept, Step
3 does not cancel while nothing moves); `ReasonNamesWall` (what the history names as the
wall is what the price was put under: the two are computed by different functions);
`WithinBudget`; `Settles` (while nothing moves, the buys change at most `Changes` times,
until Step 3 has cancelled for a rule that rounds do not ask: `flapped`). Six books
(dense, a gap, half shares, a lone level, no ask, a fine tick), three rewards, eight
templates of both modes, one with a lower price bound and one with a gap veto in
`legacy_wall`, two balances; the world moves twice (`MaxMoves`), which is enough for a
stale pool beside a moved book.

*Why these exemptions.* `SameVerdict` leaves out a side that the round judged by a book
that was not to stay (`stale`): the round itself cancelled a buy there, or Step 3 did
between its filter and its placing. It leaves out a pool whose reward is not the live
one, which may be so until the next discovery (hours), and a buy that only rules which
rounds do not ask speak against (`Unasked`: the lower price bound, and the gap veto of
`legacy_wall`; see section 9). `Settles` exempts what follows once Step 3 has cancelled
for one of these two (`flapped`), since the next round places it again. In
`WithinBudget` a kept order may be off by the tolerance of `reconcile_buy_orders`, and
the first side draws on the budget first. `Settles` bounds the changes, where liveness
would need a fair world. Its bound of 7 is the longest run there is: the sides placed
one after the other, both cancelled for a reward that fell, placed by a round that had
filtered before it was heard of, and cancelled again.

*Proofs.* For any finite set of levels and any books, rewards, templates and balances.
`TypeCorrect` (`TypeOK`) needs that reconcile, the two sizings and the tier table return
naturals; `ScaleAssumption` says that the scale is chosen so that no coefficient of a
template is rounded. `ReasonIsTheWall` (`ReasonNamesWall`) follows from the types alone:
`HitIsHighestWall` says that the walk down the book of one function finds the highest
level of the set the other one describes. `BudgetHolds` (`WithinBudget`) goes side by
side: what the second side may take is what the first one left of the market's money, so
that the sum over the sides stays within it, tolerance included. `JudgesAgree`
(`SameVerdict`) is not inductive: nothing in it ties a round that has filtered to the
book that it will price on. `FilterHolds` adds that a listed side whose book has not
moved since (`steady`) is still eligible; with it, the price that is chosen passes each of
Step 3's tests, as a buy at a level that is bid already changes neither the best bid nor
the gaps (`BuyAtABid`).

`BuysComeToRest` (`Settles`) has one assumption: `Changes` is at least `Enough`, 8(n + 3)^2
for n price levels. The bound is on the number of levels alone, whatever is quoted, paid
and set, bounds and vetoes included. The invariant
(`NearRest`) is that Step 3 has cancelled for what rounds do not ask, or the changes so far
and those that are left (`Left`) stay within the bound.
`Left` weighs three things, each before the next: what upsets a side (an own buy where
nobody else bids, which is a level only until it goes, and a daily reward that fell and
is not in the pool yet), a round that was filtered before, and for each side how far its
buy is from rest (`Due`), "a" before "b", which draws on what "a" leaves. That a buy gets
nearer rests on how it bears on the price of its own side (`PriceShape`). In `gap_single`
it can make its own level worthy and a thin book thick enough, so that the price is none,
its own or the highest level that is worthy without it (`Root`). In `legacy_wall` it
can make a wall of its own level or thicken those below, so that the price is the one
without it or is further down. A buy therefore goes to the root or one step down, and at
the root both judges keep it (`ComplyDrops`), unless the reward fell, which happens once.
The bound is coarse, 392 for the four levels of the run, where the longest run has 7.

Every property of the run is proved.

## 7. ExitTick

State and code: `trades` are what was bought and sold of each token, `shown` how many of
these `/positions` reflects; `cost`, `quote`, `dumped`, `cancelled` are the tick's
`_cost_cache`, `_book_cache`, `_just_dumped`, `_cancelled_sell_ids`; `cooling` and `managed`
outlive the tick. `snapshot` are the open orders the tick shares, `view` those the
present step uses, `row` what the tick reports.

A tick is `BeginTick`; `LowReads`, `Liquidate` per position, `LowDone`, or `LowSkipped`
(`check_low_balance`); `ExitReads` and then for each position one of `Resolve`, `Naked`,
`DeadBook`, `Keep`, `Rest`, `SellNow`, and with the router on `MakerWaits`, `MakerRests`,
`Compare` (`check_exit`); `TickEnds` or `ExitFails`. A cancel may be carried out, answered
but ignored, or fail; a sale may be answered, lost or refused. Meanwhile orders trade,
books move, positions catch up, and outcomes are proposed.

`exit_tick` checks `TypeOK`; `KeptIsThere` (a sell reported as kept, resting or waited
on has not been taken off by the same tick, but for one case: the router waits on a sell
that this tick's liquidation has cancelled, see section 9); `OneSell` (never two sells
of a position, unless a cancel was answered and ignored); `NeverBelowCost`; `NoOverSale`
(liquidations stop at the target, counting what they brought and is not shown yet);
`CalmTickCovers` (a tick in which nothing fails or moves leaves no sellable position
uncovered). Deadlock is checked: a tick always goes on. Four templates: liquidation
without the router, neither, the router alone, and both, as a wallet has them by default
(`exit_maker_wait_sec` 60, `low_balance_threshold_usd` 4). Two positions (large and
small, so that the tiers of `plan_liquidation` matter) of different markets, one move of
the world and one fault per behaviour: the interesting cases are one disturbance between
two reads, and ticks follow one another without bound.

*Proofs.* For every set of positions, books, templates and bounds, all six properties.
Besides the shapes of the constants they assume that cash is counted up to an `Enough`
that no template exceeds, that `Unread` and `Unknown` are neither costs nor books, and
`RestingAssumption`. `OneSellOnly` (`Spec => []OneSell`) rests on `OneInv`: the ids of
sells name one position each and are never given twice (`SellsOK`); an id in `cancelled`
is open no more unless its cancel was ignored (`CancelledGone`); and each position whose
turn is to come has all its open sells in the shared view (`AllSeen`): a sell that rests
while the tick runs is of a position that had its turn. The last part is what makes a
snapshot read at the start of the tick good enough to cancel from. `RestingAssumption`
asks of the first life's sells what the properties ask of later ones: one per position,
of shares that were held. `KeptRowsAreTrue` (`KeptIsThere`) adds that what the tick
pulled is in `cancelled` or of a position whose turn is over; it has no assumption on
the templates. `TypeCorrect` (`TypeOK`) also says that the open sells of a position
never hold more than the replay of its trades gives; `TypeInv` adds what the tick has
read of a position whose turn is to come (`ReadsOK`, `TodoOK`), so that a sale cannot
ask for more than there is. `SalesStopAtTarget` (`NoOverSale`) rests on `SaleInv`: what
liquidations brought and the balance does not show is remembered, by the cooldown
between ticks and by the estimate within one. `SellsCoverCost` (`NeverBelowCost`) rests
on `PriceInv`: the cost in the cache is that of some length of the trades between the
one shown when the tick began and the present one, and prices are rounded up from it.
`CalmTicksCover` (`CalmTickCovers`) rests on `CalmInv`: while nothing has failed or
moved since the tick began, what is in the caches, the book and the shared view is what
there is, and each position is still to come or was served.

No fairness: nothing is claimed to happen eventually. What is exempted, and why, is
in section 9.

## 8. Pnl

State and code: `rows` is `daily_pnl`, `last` and `rebuilding` are the worker's
`_last_pnl_date` and `_pnl_rebuilding`; `thread[w]` is the place and the locals of
`rebuild_wallet_pnl` in the worker's own thread and in that of a worker that was
replaced (`stop_wallet` does not wait for it). A rebuild is `MaybeRebuild` (the tick; or
`StartRaises`, when `Thread.start` raises and leaves the flag set,
`manager.py:234-241`), then `ReadActivity`, `ReadTrades`, `ReadMerges`, `WriteDay` for
each day, `Finish`; any of them may `Raise`, and `Restart` makes a new worker, with or
without the process. Meanwhile the wallet trades, trades are listed up to a day late,
rewards are paid the day after, merges are confirmed and midnight passes.
`RealizedByDay` is the FIFO replay.

The replay is written by fill: `Lots` is a recursive function that says what is left of
the lot of each fill, and a sale takes from the lots, the oldest first (`Takes`). What is
due is written by share: the n-th share sold is the n-th share bought (`SaleGain`).

`pnl` checks `PastDaysAreRight` (two rebuilds later a day's row equals the share-by-share
matching of all that happened on it), `FlatIsCash` (once all is sold, the rows add up to
the cash), `KeepsUp` (the table is in the end rebuilt for the day it is,
unless a thread could not be started: `unstarted`). Four days: a day,
the next one on which it is paid, and two rebuilds; one event beside the histories
with which a behaviour begins (two lots, one and a half, a pair), and one fault, which
is a raised call or a restart.

*Fairness.* The tick asks again (`MaybeRebuild`), and each step of a thread is answered or
raises; faults are finite. `CHECK_DEADLOCK` stands in `pnl.cfg` as the last day ends the
behaviours.

*Proofs.* For any tokens, days, histories, events and faults. `FlagNeverStuck`:
`_pnl_rebuilding` is set exactly while the worker's own thread is at work or after one could
not be started, so any other failure, or a replaced thread, never keeps a worker from
rebuilding. `NoDayIsMissing`: up to
`_last_pnl_date` every day has its row. `PInv` adds what the threads have written
(`WrittenSoFar`): a thread's `next` says which days are there, and rows never go away.

`PastDaysRight` (`PastDaysAreRight`) and `SoldIsCash` (`FlatIsCash`) rest on `RInv`,
which was also checked by TLC on the instance of `pnl`. It adds `WorldInv` (fills are in
order of their days, what is a day old is listed, no fill sells more than was bought
before it) and `Right`: what a thread has read is due for every day two days before the
one it was started for (`GotOK`), and so are the rows of days that can change no more
(`Still`), of settled days, and of those the worker's own thread has written so far
(`RowsInv`, `WorkerOK`). `PastDaysAreRight` alone is not inductive: it says nothing of
what a thread holds in its hands, nor of the rows of a rebuild that has not ended.

Two facts about the replay carry the argument. *Oldest first*: what a sale takes of a
lot is the overlap of the shares it sells with the shares the lot bought, both numbered
from the beginning (`OldestFirst`; by induction on the fills, what is left of a lot is what
of it lies beyond all that was sold). *The past stays*: fills listed later belong to
later days and leave the gains of the earlier ones as they are (`DayReplayed`,
`WorldStays`). For the cash, every share of a sold-out token lies in one sale and in one
buy, so the gains of all sales add up to what was taken in less what was paid
(`SoldOut`, which exchanges the two sums by `SumSwap`), and each fill and payment falls on
one day (`ByDay`, `PaidByDay`, by `SumGroups`).

Only model-checked: `KeepsUp` (liveness).

## 9. Findings and known disagreements

Two runs are violated, and `PROJECT.json` quotes the lines: `merge_booked_unmined` (a
pair that is burnt already is merged again in the same tick, on the old positions, and the
second Merge, which burns nothing, is booked) and `buy_exposure` (both sides of a
market rest beyond the cap).

The other cases in which the code does not do what is said of it are not runs. They
mark the borders of the properties above: an assumption of a theorem, a disturbance that
is not in a run's `Env`, a value that is not in an instance, or an exemption in a property.

*Router.*
* A process that stops between `place_fok_buy` and the write of its id sends another FOK
  (`exit_router.py:478`, against `exit_router.py:14`): `OneLiveFok` fails with `crash`.
* `startup_recovery` reconciles beside the tick thread (`manager.py:1253`), so one row is
  submitted twice: `SubmittedOnce` fails with two threads.
* A buy filled between a tick's read of the positions (`monitor.py:629`) and its read of the
  trades (`monitor.py:653-660`) hides a Merge burnt behind the snapshot, whatever the least
  merge is: the burnt pair is merged again, and booked. `BooksOnlyBurnt` exempts the rows of
  such a tick (`doubtful`), and `ImplementsLedger` allows the presumption.
* An answer with `not_canceled` counts as a cancel (`polymarket_api.py:97`). `SharesFree`
  and `OneSell` assume cancels that are carried out, or exempt those that were not.
* The row of a FOK + Merge keeps `no_cost` 0 (`exit_router.py:463`), so that
  `_finalize_confirmed` (`exit_router.py:698`) books the pair without what the complement
  cost. Amounts are not modelled in `MergeExit`; in `Pnl` the gain of a Merge is a given.

*Placing and engine.*
* Placing by hand runs beside the scanner loop's round: with two placers a token gets two
  buys, though never three (`BuysWithinPlacers`), and the markets quoted may exceed
  `max_concurrent_markets` by one more with every such overlap.
* A dropped market's cancel that answers `not_canceled` counts as gone
  (`manager.py:343`), so that its room is given away while its buys rest:
  `ConcurrencyCap` is run and proved for cancels that do what they answer.
* A held side is cleared only while its own token is listed (`manager.py:535`).
* A failing scan brings back the half of the pool that an overlapping scan had filled
  (`manager.py:1109`), and a round that starts while a scan fills the pool takes what is not
  there yet for dropped out (`manager.py:1115`).
* Start on a running engine makes a second scanner loop (`manager.py:755`), as does a loop
  that outlives the join of 30 s: `OneScanner` assumes neither happens.
* Two requests at once, or a tick longer than the join, give a wallet two monitors or
  leave its buys unwatched; so does the one cancel of `stop` when it fails, which is
  swallowed (`manager.py:144`). `OneMonitor` and `BuysAreWatched` assume none of these,
  and the run has one wallet.

*Fills.*
* `start_wallet` starts the tick before the recovery has primed it (`manager.py:1028`,
  against 752): a tick that comes first takes the whole history for new, with cooldowns
  and cancels for fills of an earlier life, against `monitor.py:163-165` ("only fills
  that occur AFTER startup then trigger `_handle_fill`"). `OldStaysOld` speaks of what
  follows the priming, and `ImplementsLog` lets these fills (`hasty`) be acted on once
  more; both hold of every start.
* A fill that is listed between the start and the priming counts as old, against
  `manager.py:1237` ("Offline fills are caught next tick"). `FillsDealtWith` says "counted",
  not "acted on". Started again on wallets that tick (`recoverAgain`), the recovery swallows
  what the tick has not fetched yet.
* `POST /api/engine/<address>/start` (`routes.py:909`) runs no recovery at all.
* A cancel of the remainder that fails is not tried again (`monitor.py:333`), one that
  is answered `not_canceled` counts as done (`monitor.py:322`, so that a second fill of
  the tick does not try again either), and nor is a cooldown that cannot be written;
  taker fills are ignored (`fills.py:25`). `RemainderGone` speaks of fills whose cancel
  returned, and exempts orders that rested on all the same (`deaf`).
* Fills listed out of order (`late`), or rows of the tables younger than an unlisted fill
  (`rowsAhead`), can hide a fill behind the watermark.

*Quotes.*
* `legacy_wall` prices without the gap veto and the lower price bound that Step 3 judges
  by (`manager.py:465`, `monitor.py:1583`, against "the two can not drift",
  `monitor.py:1581`): such a buy is placed and cancelled in turn (against
  README.md:222). In the other mode, too, the lower bound is asked of the listed price
  and of the best bid, not of the price a round rests at. `SameVerdict` exempts both
  (`Unasked`), and `Settles` what follows once Step 3 has cancelled for one of them
  (`flapped`).
* The spread of a book is rounded to four places in `scanner.py:66` and not in
  `monitor.py:1318`: exactly at its bound the two may differ. Prices are exact in `Quotes`.
* Step 3 may cancel a buy between a round's filter and its placing; the round then prices
  on a book whose walls are no longer the ones it filtered on, and Step 3 may cancel again
  what it placed. `SameVerdict` leaves such sides out (`stale`).

*Exits.*
* The cost that the low-balance step leaves in the cache is used by the exit after the
  position has changed, so a sell may rest below cost (against README.md:51);
  `NeverBelowCost` exempts such positions (`moved`).
* The router works on the shared view, which still lists what a failed liquidation of
  the same tick has cancelled (`exit_router.py:350`, against `monitor.py:82-85`; the
  other steps leave out `_cancelled_sell_ids`). With the router on, as by default, the
  Maker route then waits on a sell that is gone and the position has none until a later
  tick. `KeptIsThere` exempts exactly this row. The Maker route also goes on when its
  cancel fails: `OneSell` and `CalmTickCovers` leave the router out.
* "market" profit is decided by the best bid alone; behind a thin one the sale brings
  less than cost. `NeverBelowCost` speaks of sells that rest.
* What a liquidation brought is not counted when its answer is lost, its cooldown does
  not survive a restart, and it sells positions a Merge has reserved. `NoOverSale` counts
  what was answered; `MergeExit` has such sales as outside sales.

*Profit.*
* Shares that a Merge burnt stay in the replay: buy YES at 4 and at 6 and NO at 5, and let
  the pair be worth 10. The Merge books 10 - 4 - 5 = +1; a sale of the other YES at 7 is
  matched with the lot at 4, +3. The rows say +4, the cash +2. `FlatIsCash` is stated
  for histories without a Merge (`merge_accounting.py:4-7` says why a
  replay has to take Merges out; this one does not).
* A `Thread.start` that raises leaves `_pnl_rebuilding` set for good
  (`manager.py:234-241`, against `manager.py:228`: a failure is tried again): `KeepsUp`
  exempts it (`unstarted`).
* The thread of a replaced worker overwrites newer rows with older ones until the next
  rebuild (`overtaken`). A buy and a sale of the same second may be replayed in either
  order; fills in `Pnl` have an order.

## 10. What is left

* An `Engine` with two request threads.
* `Quotes` on finer fractions of shares.

Every safety property of a passing run but `BooksOnlyBurnt` is stated by a theorem. Out
of the prover's reach, and left to TLC: liveness (`ReservationEnds`, `BlacklistCleared`,
`ConvergesToOne`, `StatusSettles`, `FillsDealtWith`, `KeepsUp`) and `ENABLED`.

The library's induction theorems take an operator as a parameter, which the provers
cannot instantiate. `Sums` states what the proofs need with the set of what a claim holds
of in its place (`NatSetInduction`, `FiniteSetInduction`, `SequenceInduction`,
`SubsetInduction`), derives the sums (`SumFunction`) from the fold that defines them, and
shows that functions defined by recursion exist (`RecursionExists`). No model declares a
`RECURSIVE` operator.

## 11. Not modelled

Pages, forms and sessions, imports and exports, key encryption, HTTP with its retries,
proxies and paging, logs, notifications and status rows, the net-worth history, the
weekly push, and the command-line probes: they keep no state the components above depend
on, or are storage and I/O. How the scanner collects, merges and sorts its lists enters
as what a scan may find. Prices in `MergeExit` are abstracted to the route they lead to.
