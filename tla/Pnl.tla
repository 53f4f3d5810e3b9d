--------------------------------- MODULE Pnl ---------------------------------
(***************************************************************************)
(* The daily profit and loss of one wallet: _maybe_rebuild_pnl and its     *)
(* thread (engine/manager.py), rebuild_wallet_pnl (engine/pnl_ledger.py),  *)
(* and the pure rules they use (engine/pnl.py, merge_accounting.py).       *)
(*                                                                         *)
(* Every rebuild reads the whole history and writes every day anew, while  *)
(* the wallet trades, merges are confirmed, trades are listed late, calls  *)
(* fail, midnight passes and the worker that asked for it is replaced.     *)
(***************************************************************************)
EXTENDS Integers, Sequences, FiniteSets, Functions

CONSTANTS
    Tokens,     \* what the wallet trades
    Days,       \* bound: days 1 .. Days are lived through
    Pasts,      \* what may have been traded before the engine starts, on day 1
    Fills,      \* what may trade: [side, price, size, fee]
    Grants,     \* what /activity may pay: [type, amount]
    Gains,      \* what a confirmed merge may have booked
    MaxEvents,  \* bound: trades, payments and merges
    MaxFaults   \* bound: calls that fail and restarts

Fill == [side : {"BUY", "SELL"}, price : Nat, size : Nat \ {0}, fee : Nat]
On(d, f) == [day |-> d, side |-> f.side, price |-> f.price, size |-> f.size, fee |-> f.fee]
\* How many shares the first i of these fills have bought, or sold.
Upto(ts, side, i) == SumFunction([j \in 1..i |-> IF ts[j].side = side THEN ts[j].size ELSE 0])

ASSUME ConstantsAssumption ==
    /\ IsFiniteSet(Tokens) /\ Days \in Nat \ {0} /\ MaxEvents \in Nat /\ MaxFaults \in Nat
    /\ Fills \subseteq Fill /\ Pasts \subseteq [Tokens -> Seq(Fill)] /\ Gains \subseteq Int
    /\ Grants \subseteq [type : {"REWARD", "MAKER_REBATE"}, amount : Nat]
\* Nothing is sold that was not bought.
ASSUME PastsAssumption ==
    \A past \in Pasts : \A t \in Tokens : \A i \in DOMAIN past[t] :
        Upto(past[t], "SELL", i) <= Upto(past[t], "BUY", i)

\* The worker's own thread, and one of a worker that was replaced.
Threads == {"own", "orphan"}

VARIABLES
    day,        \* beijing_day of the clock
    trades,     \* what matched of each token, by match time
    listed,     \* which of these get_trades shows
    merges,     \* the CONFIRMED rows of merge_events
    activity,   \* /activity
    rows,       \* daily_pnl, by date
    last,       \* the worker's _last_pnl_date, 0 for None
    rebuilding, \* the worker's _pnl_rebuilding
    unstarted,  \* history: the worker has set it for a thread that did not start
    thread,     \* where each thread is in rebuild_wallet_pnl, and its locals
    overtaken,  \* history: days last written for a replaced worker
    events, faults

world == <<trades, listed, merges, activity>>
vars == <<day, world, rows, last, rebuilding, unstarted, thread, overtaken, events, faults>>

Nothing == [activity |-> <<>>, realized |-> <<>>, merges |-> <<>>]
Idle == [at |-> "idle", today |-> 0, got |-> Nothing, next |-> 1]

-----------------------------------------------------------------------------
\* realized_pnl_by_day: sales take the oldest lots

Most(x, y) == IF x <= y THEN y ELSE x
Fewest(x, y) == IF x <= y THEN x ELSE y

\* How much a sale of this size takes of the lot of each fill, the oldest first.
Takes(lots, size) ==
    [j \in DOMAIN lots |->
        Fewest(lots[j], Most(0, size - SumFunction([k \in 1..(j - 1) |-> lots[k]])))]
\* Variant: a lot is not used up before it is sold whole.
LeftUncounted(lots, takes) == [j \in DOMAIN lots |-> IF takes[j] = lots[j] THEN 0 ELSE lots[j]]
LeftOf(lots, takes) == [j \in DOMAIN lots |-> lots[j] - takes[j]]

\* What is left of the lot of each fill, after the first i fills of those seen.
Lots(ts, seen) ==
    LET left[i \in 0..Len(ts)] ==
            IF i = 0 THEN [j \in DOMAIN ts |-> 0]
            ELSE IF i \notin seen THEN left[i - 1]
            ELSE IF ts[i].side = "BUY" THEN [left[i - 1] EXCEPT ![i] = ts[i].size]
            ELSE LeftOf(left[i - 1], Takes(left[i - 1], ts[i].size))
    IN  left
Realized(ts, i, lots) ==
    LET takes == Takes(lots, ts[i].size)
    IN  SumFunction([j \in 1..(i - 1) |-> (ts[i].price - ts[j].price) * takes[j]])

FillsOn(ts, d) == {i \in DOMAIN ts : ts[i].day = d}
SalesOn(ts, d) == {i \in FillsOn(ts, d) : ts[i].side = "SELL"}

\* Of the fills of a token that get_trades shows, by match time.
RealizedByDay(ts, seen) ==
    LET lots == Lots(ts, seen)
        gain == [i \in seen |-> Realized(ts, i, lots[i - 1])]
    IN  [d \in 1..Days |->
            [profit |-> SumFunction([i \in SalesOn(ts, d) \intersect seen |-> Most(gain[i], 0)]),
             loss |-> SumFunction([i \in SalesOn(ts, d) \intersect seen |-> Most(-gain[i], 0)]),
             fee |-> SumFunction([i \in FillsOn(ts, d) \intersect seen |-> ts[i].fee])]]

\* reward_rebate_by_day: a reward was earned the day before it is paid.
EarnedOn(a) == IF a.type = "REWARD" THEN a.day - 1 ELSE a.day
PaidFor(acts, type, d) ==
    SumFunction([i \in {k \in DOMAIN acts : acts[k].type = type /\ EarnedOn(acts[k]) = d} |->
                    acts[i].amount])
\* merge_pnl_by_day
MergedOn(evs, d) == SumFunction([i \in {k \in DOMAIN evs : evs[k].day = d} |-> evs[i].gain])

\* upsert_daily_pnl
Row(g, d) ==
    LET sum(part) == SumFunction([t \in Tokens |-> g.realized[t][d][part]])
        reward == PaidFor(g.activity, "REWARD", d)
        rebate == PaidFor(g.activity, "MAKER_REBATE", d)
        merge == MergedOn(g.merges, d)
    IN  [reward |-> reward, rebate |-> rebate, profit |-> sum("profit"), loss |-> sum("loss"),
         fee |-> sum("fee"), merge |-> merge,
         net |-> reward + rebate + sum("profit") + merge - sum("loss") - sum("fee")]

-----------------------------------------------------------------------------
\* The world

Burnt == SumFunction([i \in DOMAIN merges |-> merges[i].size])
Held(t) ==
    LET n == Len(trades[t])
    IN  Upto(trades[t], "BUY", n) - Upto(trades[t], "SELL", n) - Burnt

\* The last day is for looking back.
Busy == day < Days /\ events < MaxEvents

\* An order of ours matches; get_trades shows it now or later.
Trade(t, f) ==
    /\ Busy /\ events' = events + 1
    /\ f.side = "SELL" => f.size <= Held(t)
    /\ trades' = [trades EXCEPT ![t] = Append(@, On(day, f))]
    /\ \E now \in BOOLEAN :
        listed' = IF now THEN [listed EXCEPT ![t] = @ \union {Len(trades[t]) + 1}] ELSE listed
    /\ UNCHANGED <<day, merges, activity, rows, last, rebuilding, unstarted, thread, overtaken, faults>>
List(t, i) ==
    /\ i \in DOMAIN trades[t] \ listed[t]
    /\ listed' = [listed EXCEPT ![t] = @ \union {i}]
    /\ UNCHANGED <<day, trades, merges, activity, rows, last, rebuilding, unstarted, thread, overtaken, faults, events>>
\* What the market's day has brought is paid the day after.
Pay(a) ==
    /\ Busy /\ events' = events + 1 /\ (a.type = "REWARD" => day > 1)
    /\ activity' = Append(activity, [day |-> day, type |-> a.type, amount |-> a.amount])
    /\ UNCHANGED <<day, trades, listed, merges, rows, last, rebuilding, unstarted, thread, overtaken, faults>>
\* The router confirms a merge of a pair and books its gain.
Merge(gain) ==
    /\ Busy /\ events' = events + 1 /\ \A t \in Tokens : Held(t) > 0
    /\ merges' = Append(merges, [day |-> day, size |-> 1, gain |-> gain])
    /\ UNCHANGED <<day, trades, listed, activity, rows, last, rebuilding, unstarted, thread, overtaken, faults>>
\* Trades are listed within a day.
NextDay ==
    /\ day < Days /\ day' = day + 1
    /\ \A t \in Tokens : \A i \in DOMAIN trades[t] \ listed[t] : trades[t][i].day = day
    /\ UNCHANGED <<world, rows, last, rebuilding, unstarted, thread, overtaken, faults, events>>

-----------------------------------------------------------------------------
\* The worker and its thread

\* _maybe_rebuild_pnl, once a tick
MaybeRebuild ==
    /\ last # day /\ ~rebuilding
    /\ rebuilding' = TRUE
    /\ thread' = [thread EXCEPT !["own"] = [Idle EXCEPT !.at = "activity", !.today = day]]
    /\ UNCHANGED <<day, world, rows, last, unstarted, overtaken, faults, events>>
\* Its Thread.start() raises, outside any try: the flag stays set.
StartRaises ==
    /\ last # day /\ ~rebuilding
    /\ faults < MaxFaults /\ faults' = faults + 1
    /\ rebuilding' = TRUE /\ unstarted' = TRUE
    /\ UNCHANGED <<day, world, rows, last, thread, overtaken, events>>

\* The reads and writes of rebuild_wallet_pnl, each of which may raise.
Reads(w, at, part, value, then) ==
    /\ thread[w].at = at
    /\ thread' = [thread EXCEPT ![w].got[part] = value, ![w].at = then]
    /\ UNCHANGED <<day, world, rows, last, rebuilding, unstarted, overtaken, faults, events>>
ReadActivity(w) == Reads(w, "activity", "activity", activity, "trades")
ReadTrades(w) ==
    Reads(w, "trades", "realized", [t \in Tokens |-> RealizedByDay(trades[t], listed[t])], "merges")
ReadMerges(w) == Reads(w, "merges", "merges", merges, "write")
WriteDay(w) ==
    LET date == thread[w].next
    IN  /\ thread[w].at = "write" /\ date <= thread[w].today
        /\ rows' = [d \in DOMAIN rows \union {date} |->
                        IF d = date THEN Row(thread[w].got, date) ELSE rows[d]]
        /\ overtaken' = IF w = "own" THEN overtaken \ {date} ELSE overtaken \union {date}
        /\ thread' = [thread EXCEPT ![w].next = @ + 1]
        /\ UNCHANGED <<day, world, last, rebuilding, unstarted, faults, events>>

\* Variant: the date the rebuild ended on.
FinishNow(w) ==
    /\ thread[w].at = "write" /\ thread[w].next > thread[w].today
    /\ thread' = [thread EXCEPT ![w] = Idle]
    /\ last' = IF w = "own" THEN day ELSE last
    /\ rebuilding' = (rebuilding /\ w # "own")
    /\ UNCHANGED <<day, world, rows, unstarted, overtaken, faults, events>>
\* _rebuild_pnl_now: all is written; the date is the one it was started for.
Finish(w) ==
    /\ thread[w].at = "write" /\ thread[w].next > thread[w].today
    /\ thread' = [thread EXCEPT ![w] = Idle]
    /\ last' = IF w = "own" THEN thread[w].today ELSE last
    /\ rebuilding' = (rebuilding /\ w # "own")
    /\ UNCHANGED <<day, world, rows, unstarted, overtaken, faults, events>>
\* Variant: the flag is not reset.
RaiseKeepsFlag(w) ==
    /\ thread[w].at # "idle" /\ faults < MaxFaults /\ faults' = faults + 1
    /\ thread' = [thread EXCEPT ![w] = Idle]
    /\ UNCHANGED <<day, world, rows, last, rebuilding, unstarted, overtaken, events>>
Raise(w) ==
    /\ thread[w].at # "idle" /\ faults < MaxFaults /\ faults' = faults + 1
    /\ thread' = [thread EXCEPT ![w] = Idle]
    /\ rebuilding' = (rebuilding /\ w # "own")
    /\ UNCHANGED <<day, world, rows, last, unstarted, overtaken, events>>

\* The wallet is stopped and started, or the process is: the worker is new, and
\* in the first case the old one's thread runs on.
Restart ==
    /\ faults < MaxFaults /\ faults' = faults + 1
    /\ last' = 0 /\ rebuilding' = FALSE /\ unstarted' = FALSE
    /\ \/ thread' = [w \in Threads |-> Idle]
       \/ /\ thread["orphan"] = Idle
          /\ thread' = [thread EXCEPT !["own"] = Idle, !["orphan"] = thread["own"]]
    /\ UNCHANGED <<day, world, rows, overtaken, events>>

-----------------------------------------------------------------------------
Init ==
    /\ day = 1
    /\ trades \in {[t \in Tokens |-> [i \in DOMAIN past[t] |-> On(1, past[t][i])]] : past \in Pasts}
    /\ listed = [t \in Tokens |-> DOMAIN trades[t]]
    /\ merges = <<>> /\ activity = <<>>
    /\ rows = <<>>
    /\ last = 0 /\ rebuilding = FALSE /\ unstarted = FALSE
    /\ thread = [w \in Threads |-> Idle]
    /\ overtaken = {} /\ events = 0 /\ faults = 0

World ==
    \/ \E t \in Tokens, f \in Fills : Trade(t, f)
    \/ \E t \in Tokens : \E i \in DOMAIN trades[t] : List(t, i)
    \/ \E a \in Grants : Pay(a)
    \/ \E gain \in Gains : Merge(gain)
    \/ NextDay
Step(w) ==
    \/ ReadActivity(w) \/ ReadTrades(w) \/ ReadMerges(w)
    \/ WriteDay(w) \/ Finish(w)
Next ==
    \/ World
    \/ MaybeRebuild \/ StartRaises
    \/ \E w \in Threads : Step(w) \/ Raise(w)
    \/ Restart

Spec == Init /\ [][Next]_vars
\* Ticks go on, and a call of the thread is answered or raises.
FairSpec == Spec /\ WF_vars(MaybeRebuild) /\ \A w \in Threads : WF_vars(Step(w))

-----------------------------------------------------------------------------
\* Properties

\* The day's rows a reader may rely on: two rebuilds later (a reward is paid
\* and a trade listed within a day), unless a replaced worker wrote them last.
Settled(d) == d + 2 <= last /\ d \notin overtaken

\* Share by share: the n-th share sold is the n-th share bought.
Shares(ts, side, i) == (Upto(ts, side, i - 1) + 1)..Upto(ts, side, i)
SaleGain(ts, i) ==
    LET of(j) == Cardinality(Shares(ts, "SELL", i) \intersect Shares(ts, "BUY", j))
    IN  SumFunction([j \in 1..(i - 1) |-> (ts[i].price - ts[j].price) * of(j)])
Matched(ts) ==
    [d \in 1..Days |->
        [profit |-> SumFunction([i \in SalesOn(ts, d) |-> Most(SaleGain(ts, i), 0)]),
         loss |-> SumFunction([i \in SalesOn(ts, d) |-> Most(-SaleGain(ts, i), 0)]),
         fee |-> SumFunction([i \in FillsOn(ts, d) |-> ts[i].fee])]]
DueRow(d) ==
    Row([activity |-> activity, realized |-> [t \in Tokens |-> Matched(trades[t])],
         merges |-> merges], d)

\* A day two rebuilds back is right and stays so, whatever was late, failed or
\* was restarted in between (_maybe_rebuild_pnl: later rounds refresh the
\* recent days).
PastDaysAreRight ==
    \A d \in 1..Days : Settled(d) => d \in DOMAIN rows /\ rows[d] = DueRow(d)

\* What the wallet has taken in and given out by trading, fees deducted.
Cash(f) == (IF f.side = "SELL" THEN f.price ELSE -f.price) * f.size - f.fee
CashOf(ts) == SumFunction([i \in DOMAIN ts |-> Cash(ts[i])])
NetSum == SumFunction([d \in DOMAIN rows |-> rows[d].net])
Granted == SumFunction([i \in DOMAIN activity |-> activity[i].amount])
Quiet(d) == /\ \A t \in Tokens : FillsOn(trades[t], d) = {}
            /\ \A i \in DOMAIN activity : EarnedOn(activity[i]) # d

\* Once the wallet has sold all it bought, the rows add up to the cash that
\* went through it.  Merges are left out: realized_pnl_by_day does not see the
\* shares they burn.
FlatIsCash ==
    (/\ merges = <<>> /\ \A t \in Tokens : Held(t) = 0
     /\ \A d \in 1..Days : Settled(d) \/ Quiet(d))
    => NetSum = SumFunction([t \in Tokens |-> CashOf(trades[t])]) + Granted

\* Whatever raises or restarts, the rows are in the end rebuilt for the day it
\* is (_rebuild_pnl_now: a failure is tried again by the next tick), unless the
\* thread itself could not be started.
KeepsUp == <>[](last = day \/ unstarted)

=============================================================================
