------------------------------ MODULE BuyOrders ------------------------------
(***************************************************************************)
(* The reward buys of one wallet: the placing rounds that converge the     *)
(* resting BUY orders on the plan of the moment (WalletWorker.place_orders *)
(* in engine/manager.py), against the monitor's tick that cancels them     *)
(* (Step 1, the UMA guard and Step 3 of engine/monitor.py), the web        *)
(* routes, and an exchange that fills orders at any time.                  *)
(*                                                                         *)
(* A round reads the open orders, the positions and the blacklist once and *)
(* acts on those snapshots for as long as it runs; the tick runs beside    *)
(* it, and so may a second round started from the dashboard.  Exposure is  *)
(* counted in lots of shares; prices are names a quote can take.           *)
(***************************************************************************)
EXTENDS Integers, FiniteSets, FiniteSetsExt

CONSTANTS
    Markets,
    Tokens,         \* the pairs <<market, side>> that exist, side "a" or "b"
    Prices,         \* prices a plan may choose
    Off,            \* no price: the token is not eligible, or its plan is "skip"
    Slots,          \* bound: order ids, recycled once nobody remembers them
    Placers,        \* threads in place_orders: scanner loop, place-orders and test routes
    Env,            \* which disturbances of the outside world may happen
    MaxConcurrent,  \* template max_concurrent_markets
    MaxShares,      \* template max_exposure_shares
    TierShares,     \* shares of the market's size tier
    MinSize,        \* rewards_min_size
    TestLimit,      \* the limit test_place_orders gives
    MaxHeld         \* bound: lots of a token that fills may build up

\* fill: resting buys trade.  take: a new buy may trade as it is placed.
\* exit: positions are sold.  move: quotes change.  books: get_orderbook or
\* get_balance may raise.  raise: a cancel may raise.  refuse: a cancel may
\* answer not_canceled.  lostReply: a buy is placed and the call raises.
\* blacklist, uma: a market may be blacklisted, or enter UMA resolution.
Disturbances == {"fill", "take", "exit", "move", "books", "raise", "refuse", "lostReply",
                 "blacklist", "uma"}

ASSUME TokensAssumption == Tokens \subseteq Markets \X {"a", "b"}
ASSUME OffAssumption == Off \notin Prices
ASSUME SlotsAssumption == Slots \subseteq Nat
ASSUME PlacersAssumption == Placers \subseteq {"scan", "web", "test"}
ASSUME EnvAssumption == Env \subseteq Disturbances
ASSUME SizesAssumption ==
    /\ MaxConcurrent \in Nat /\ MaxShares \in Nat /\ TierShares \in Nat \ {0}
    /\ MinSize \in Nat \ {0} /\ TestLimit \in Nat /\ MaxHeld \in Nat

Market(t) == t[1]
Lots == 0..TierShares
Order == [tok : Tokens, price : Prices, left : Lots \ {0}, hit : BOOLEAN]
None == [left |-> 0]        \* the id names no open order
Seen == [id : Slots, tok : Tokens, price : Prices, left : Lots \ {0}]
Job == [tok : Tokens, price : Prices \cup {Off}, cancel : SUBSET Slots, shares : Lots]
NobodyHeld == [t \in Tokens |-> 0]

Round == [at : {"idle", "orders", "positions", "dropout", "gamma", "market", "side"},
          elig : SUBSET Tokens, snap : SUBSET Seen, open : SUBSET Markets,
          held : [Tokens -> 0..MaxHeld], black : SUBSET Markets, uma : SUBSET Markets,
          todo : SUBSET Markets, jobs : SUBSET Job, placed : Nat]
Idle == [at |-> "idle", elig |-> {}, snap |-> {}, open |-> {}, held |-> NobodyHeld,
         black |-> {}, uma |-> {}, todo |-> {}, jobs |-> {}, placed |-> 0]

VARIABLES
    orders,     \* the CLOB's open BUY orders, by id
    held,       \* lots held, as the Data API shows them
    news,       \* maker fills Step 1 has not handled: <<order id, market>>
    cooldown,   \* the cooldowns table: markets not yet expired
    blacklist,  \* the blacklist table
    uma,        \* markets whose umaResolutionStatus is set
    pool,       \* manager.eligible_markets, the candidate pool
    quote,      \* what a fresh book says of each token: the price to rest at, or Off
    pl          \* each placer's round: its place in the code and its local variables

vars == <<orders, held, news, cooldown, blacklist, uma, pool, quote, pl>>
market == <<blacklist, uma, pool, quote>>

Init ==
    /\ orders = [i \in Slots |-> None]
    /\ held = NobodyHeld
    /\ news = {}
    /\ cooldown = {}
    /\ blacklist = {}
    /\ uma = {}
    /\ pool = Markets
    /\ quote \in [Tokens -> Prices \cup {Off}]
    /\ pl = [p \in Placers |-> Idle]

-----------------------------------------------------------------------------
\* Operators

Live == {i \in Slots : orders[i].left > 0}
BuysOn(t) == {i \in Live : orders[i].tok = t}
BuysIn(m) == {i \in Live : Market(orders[i].tok) = m}
Open == {m \in Markets : BuysIn(m) # {}}

SmallerOf(a, b) == IF a <= b THEN a ELSE b
On(f, m, s) == IF <<m, s>> \in Tokens THEN f[<<m, s>>] ELSE 0
HeldIn(h, m) == On(h, m, "a") + On(h, m, "b")
Spared(ids, kept) == [i \in Slots |-> IF i \in ids \ kept THEN None ELSE orders[i]]

\* Ids that no open order, snapshot, job or unread trade mentions.
FreeIds == {i \in Slots \ Live :
    /\ \A n \in news : n[1] # i
    /\ \A p \in Placers : \A o \in pl[p].snap : o.id # i}
NextId == {i \in FreeIds : \A k \in FreeIds : i <= k}

\* api.cancel_orders: the orders left afterwards, and whether the call returned.
\* A not_canceled answer is logged and returned like any other.
CancelAnswers(ids) ==
    {[orders |-> Spared(ids, {}), returned |-> TRUE]}
    \cup (IF "raise" \in Env
          THEN {[orders |-> Spared(ids, k), returned |-> FALSE] : k \in {ids, {}}} ELSE {})
    \cup (IF "refuse" \in Env
          THEN {[orders |-> Spared(ids, k), returned |-> TRUE] : k \in SUBSET ids} ELSE {})

\* Variant: a token whose plan is "skip" is quoted too.
WantUnpriced(l, t, b) ==
    IF l.held[t] = 0 /\ SmallerOf(TierShares, b) >= MinSize THEN SmallerOf(TierShares, b) ELSE 0

\* laddering.compute_market_single_orders: lots to rest on a token when b are left
\* of the market's budget; a held side, or one without a price, gets none.
Want(l, t, b) ==
    IF l.held[t] = 0 /\ quote[t] # Off /\ SmallerOf(TierShares, b) >= MinSize
    THEN SmallerOf(TierShares, b) ELSE 0

\* Variant: an order at the target price is never cancelled, whatever its size.
ConvergeAdds(l, t, want) ==
    LET resting == {o \in l.snap : o.tok = t}
        exact == {o \in resting : want > 0 /\ o.price = quote[t] /\ o.left = want}
    IN  [tok |-> t, price |-> quote[t],
         cancel |-> {o.id : o \in {x \in resting : x.price # quote[t]}},
         shares |-> IF exact = {} THEN want ELSE 0]

\* laddering.reconcile_buy_orders: keep one order at the target price and size,
\* cancel the others, place the target when none was kept.
Converge(l, t, want) ==
    LET resting == {o \in l.snap : o.tok = t}
        exact == {o \in resting : want > 0 /\ o.price = quote[t] /\ o.left = want}
        kept == IF exact = {} THEN {} ELSE {CHOOSE o \in exact : TRUE}
    IN  [tok |-> t, price |-> quote[t], cancel |-> {o.id : o \in resting \ kept},
         shares |-> IF kept = {} THEN want ELSE 0]

\* The two sides of a market, "a" drawing on the shared budget first; a held side
\* is only cleared, and with no budget left the other side is not touched.
MarketJobs(l, m, sides) ==
    LET budget == MaxShares - HeldIn(l.held, m)
        first == IF <<m, "a">> \in sides THEN Want(l, <<m, "a">>, budget) ELSE 0
        want == [t \in sides |-> IF t[2] = "a" THEN first ELSE Want(l, t, budget - first)]
    IN  {j \in {Converge(l, t, want[t]) : t \in {t \in sides : l.held[t] > 0 \/ budget > 0}} :
            j.cancel # {} \/ j.shares > 0}

\* Where a round stands once jobs are left of this market and todo of the list.
Onward(l, jobs, todo) ==
    IF jobs # {} THEN [l EXCEPT !.at = "side", !.jobs = jobs, !.todo = todo]
    ELSE IF todo # {} THEN [l EXCEPT !.at = "market", !.jobs = {}, !.todo = todo]
    ELSE Idle

Goes(p, l) == pl' = [pl EXCEPT ![p] = l]

-----------------------------------------------------------------------------
\* A placing round

\* _place_round, place_all_orders, test_place_orders: filter the pool for this
\* wallet's template; an empty pool ends the round.
Begin(p) ==
    /\ pl[p].at = "idle" /\ pool # {}
    /\ Goes(p, [Idle EXCEPT !.at = "orders",
                    !.elig = {t \in Tokens : /\ quote[t] # Off
                                             /\ Market(t) \in pool \ cooldown}])
    /\ UNCHANGED <<orders, held, news, cooldown, market>>

ReadOrders(p) ==
    /\ pl[p].at = "orders"
    /\ Goes(p, [pl[p] EXCEPT !.at = "positions", !.open = Open,
                    !.snap = {[id |-> i, tok |-> orders[i].tok, price |-> orders[i].price,
                               left |-> orders[i].left] : i \in Live}])
    /\ UNCHANGED <<orders, held, news, cooldown, market>>

ReadPositions(p) ==
    /\ pl[p].at = "positions"
    /\ Goes(p, [pl[p] EXCEPT !.at = IF p = "test" THEN "gamma" ELSE "dropout",
                    !.held = held, !.black = blacklist])
    /\ UNCHANGED <<orders, held, news, cooldown, market>>

\* Either read raising ends the round.
ReadRaises(p) ==
    /\ pl[p].at \in {"orders", "positions"} /\ "books" \in Env
    /\ Goes(p, Idle)
    /\ UNCHANGED <<orders, held, news, cooldown, market>>

\* Cancel every buy of the markets that left the eligible list, unless they
\* cool down; only a call that returns takes them off markets_with_open.
Dropout(p) ==
    /\ pl[p].at = "dropout"
    /\ LET l == pl[p]
           dropped == {m \in l.open \ cooldown : \A t \in l.elig : Market(t) # m}
           ids == {o.id : o \in {o \in l.snap : Market(o.tok) \in dropped}}
       IN \E r \in CancelAnswers(ids) :
            /\ orders' = r.orders
            /\ Goes(p, [l EXCEPT !.at = "gamma",
                            !.open = IF r.returned THEN @ \ dropped ELSE @])
    /\ UNCHANGED <<held, news, cooldown, market>>

\* gamma_resolution_status of the listed markets; a failure answers nothing.
ReadGamma(p) ==
    /\ pl[p].at = "gamma"
    /\ \E known \in {uma} \cup (IF "books" \in Env THEN {{}} ELSE {}) :
         Goes(p, Onward([pl[p] EXCEPT !.uma = known], {}, {Market(t) : t \in pl[p].elig}))
    /\ UNCHANGED <<orders, held, news, cooldown, market>>

\* The guards of one market, its books and the balance, and its plan.
PlanMarket(p) ==
    /\ pl[p].at = "market"
    /\ \E m \in pl[p].todo :
         LET l == pl[p]
             listed == {t \in l.elig : Market(t) = m}
             skip == \/ m \in l.black \cup l.uma \cup cooldown
                     \/ m \notin l.open /\ Cardinality(l.open) >= MaxConcurrent
         IN \E sides \in {listed} \cup (IF "books" \in Env THEN SUBSET listed ELSE {}) :
              Goes(p, Onward(l, IF skip THEN {} ELSE MarketJobs(l, m, sides), l.todo \ {m}))
    /\ UNCHANGED <<orders, held, news, cooldown, market>>

\* The side the loop has reached: "a" before "b".
Reached(p, j) == j \in pl[p].jobs /\ (j.tok[2] = "a" \/ \A k \in pl[p].jobs : k.tok[2] = "b")

\* A cancel that raises is logged, and the side's order is placed all the same.
CancelSide(p) ==
    /\ pl[p].at = "side"
    /\ \E j \in pl[p].jobs :
         /\ Reached(p, j) /\ j.cancel # {}
         /\ \E r \in CancelAnswers(j.cancel) :
              /\ orders' = r.orders
              /\ Goes(p, Onward(pl[p],
                     (pl[p].jobs \ {j}) \cup
                         (IF j.shares > 0 THEN {[j EXCEPT !.cancel = {}]} ELSE {}),
                     pl[p].todo))
    /\ UNCHANGED <<held, news, cooldown, market>>

\* Variant: a market quoted by this round is not counted as open.
AfterPlaceUncounted(p, j) ==
    LET l == [pl[p] EXCEPT !.placed = IF p = "test" THEN @ + 1 ELSE 0]
    IN  IF p = "test" /\ l.placed >= TestLimit THEN Idle
        ELSE Onward(l, l.jobs \ {j}, l.todo)

\* The round after a buy was placed; test_place_orders stops at its limit.
AfterPlace(p, j) ==
    LET l == [pl[p] EXCEPT !.open = @ \cup {Market(j.tok)},
                           !.placed = IF p = "test" THEN @ + 1 ELSE 0]
    IN  IF p = "test" /\ l.placed >= TestLimit THEN Idle
        ELSE Onward(l, l.jobs \ {j}, l.todo)

\* The CLOB takes the order; part of it may trade at once, which is a taker fill.
PlaceSide(p) ==
    /\ pl[p].at = "side"
    /\ \E j \in pl[p].jobs, i \in NextId :
         /\ Reached(p, j) /\ j.cancel = {}
         /\ \E n \in IF "take" \in Env THEN 0..j.shares ELSE {0} :
              /\ held[j.tok] + n <= MaxHeld
              /\ held' = [held EXCEPT ![j.tok] = @ + n]
              /\ orders' = [orders EXCEPT ![i] =
                     IF n = j.shares THEN None
                     ELSE [tok |-> j.tok, price |-> j.price, left |-> j.shares - n,
                           hit |-> n > 0]]
         /\ \/ Goes(p, AfterPlace(p, j))
            \/ "lostReply" \in Env /\ Goes(p, Onward(pl[p], pl[p].jobs \ {j}, pl[p].todo))
    /\ UNCHANGED <<news, cooldown, market>>

\* The CLOB refuses it (OrderRejected), which is logged.
PlaceRejected(p) ==
    /\ pl[p].at = "side"
    /\ \E j \in pl[p].jobs :
         /\ Reached(p, j) /\ j.cancel = {}
         /\ Goes(p, Onward(pl[p], pl[p].jobs \ {j}, pl[p].todo))
    /\ UNCHANGED <<orders, held, news, cooldown, market>>

-----------------------------------------------------------------------------
\* The monitor's tick

\* Step 1, one fill: cool the market down and cancel what is left of the order.
\* The fill counts as seen whether or not the cancel went through.
HandleFill(i, m) ==
    /\ <<i, m>> \in news
    /\ news' = news \ {<<i, m>>}
    /\ cooldown' = cooldown \cup {m}
    /\ \E r \in CancelAnswers({i} \cap Live) : orders' = r.orders
    /\ UNCHANGED <<held, market, pl>>

\* check_resolution: every buy of a market in UMA resolution.
ResolutionGuard(m) ==
    /\ m \in uma /\ BuysIn(m) # {}
    /\ \E r \in CancelAnswers(BuysIn(m)) : orders' = r.orders
    /\ UNCHANGED <<held, news, cooldown, market, pl>>

\* Step 3 looks at orders nothing has matched yet: a blacklisted market's goes.
BlacklistCancel(i) ==
    /\ i \in Live /\ ~orders[i].hit /\ Market(orders[i].tok) \in blacklist
    /\ \E r \in CancelAnswers({i}) : orders' = r.orders
    /\ UNCHANGED <<held, news, cooldown, market, pl>>

\* Spread, reward, price band, reward band, cliff or gap no longer allow it.
ComplianceCancel(i) ==
    /\ i \in Live /\ ~orders[i].hit /\ Market(orders[i].tok) \notin blacklist
    /\ quote[orders[i].tok] # orders[i].price
    /\ \E r \in CancelAnswers({i}) : orders' = r.orders
    /\ UNCHANGED <<held, news, cooldown, market, pl>>

-----------------------------------------------------------------------------
\* The web routes, discovery, the owner and the exchange

\* POST /api/blacklist: the row, then every buy of the market.
AddBlacklist(m) ==
    /\ "blacklist" \in Env /\ m \notin blacklist
    /\ blacklist' = blacklist \cup {m}
    /\ \E r \in CancelAnswers(BuysIn(m)) : orders' = r.orders
    /\ UNCHANGED <<held, news, cooldown, uma, pool, quote, pl>>

RemoveBlacklist(m) ==
    /\ m \in blacklist
    /\ blacklist' = blacklist \ {m}
    /\ UNCHANGED <<orders, held, news, cooldown, uma, pool, quote, pl>>

\* The cancel-all buttons.
CancelAllBuys ==
    /\ Live # {}
    /\ \E r \in CancelAnswers(Live) : orders' = r.orders
    /\ UNCHANGED <<held, news, cooldown, market, pl>>

\* Variant: the pool keeps the blacklisted markets.
DiscoverAll ==
    /\ pool' = Markets
    /\ UNCHANGED <<orders, held, news, cooldown, blacklist, uma, quote, pl>>

\* fetch_candidates leaves the blacklisted markets out of the pool.
Discover ==
    /\ pool' = Markets \ blacklist
    /\ UNCHANGED <<orders, held, news, cooldown, blacklist, uma, quote, pl>>

Expire(m) ==
    /\ m \in cooldown
    /\ cooldown' = cooldown \ {m}
    /\ UNCHANGED <<orders, held, news, market, pl>>

Move(t) ==
    /\ "move" \in Env
    /\ \E q \in (Prices \cup {Off}) \ {quote[t]} : quote' = [quote EXCEPT ![t] = q]
    /\ UNCHANGED <<orders, held, news, cooldown, blacklist, uma, pool, pl>>

StartResolution(m) ==
    /\ "uma" \in Env /\ m \notin uma
    /\ uma' = uma \cup {m}
    /\ UNCHANGED <<orders, held, news, cooldown, blacklist, pool, quote, pl>>

Fill(i, n) ==
    /\ "fill" \in Env /\ i \in Live /\ n <= orders[i].left
    /\ LET o == orders[i] IN
         /\ held[o.tok] + n <= MaxHeld
         /\ held' = [held EXCEPT ![o.tok] = @ + n]
         /\ orders' = [orders EXCEPT ![i] = IF n = o.left THEN None
                           ELSE [o EXCEPT !.left = @ - n, !.hit = TRUE]]
         /\ news' = news \cup {<<i, Market(o.tok)>>}
    /\ UNCHANGED <<cooldown, market, pl>>

\* check_exit sells the position.
Exit(t) ==
    /\ "exit" \in Env /\ held[t] > 0
    /\ held' = [held EXCEPT ![t] = 0]
    /\ UNCHANGED <<orders, news, cooldown, market, pl>>

-----------------------------------------------------------------------------
RoundStep(p) ==
    \/ ReadOrders(p) \/ ReadPositions(p) \/ ReadRaises(p) \/ Dropout(p) \/ ReadGamma(p)
    \/ PlanMarket(p) \/ CancelSide(p) \/ PlaceSide(p) \/ PlaceRejected(p)

Tick ==
    \/ \E i \in Slots, m \in Markets : HandleFill(i, m)
    \/ \E m \in Markets : ResolutionGuard(m)
    \/ \E i \in Slots : BlacklistCancel(i) \/ ComplianceCancel(i)

World ==
    \/ \E m \in Markets : AddBlacklist(m) \/ RemoveBlacklist(m) \/ StartResolution(m)
    \/ \E m \in Markets : Expire(m)
    \/ CancelAllBuys \/ Discover
    \/ \E t \in Tokens : Move(t) \/ Exit(t)
    \/ \E i \in Slots, n \in Lots \ {0} : Fill(i, n)

Next == (\E p \in Placers : Begin(p) \/ RoundStep(p)) \/ Tick \/ World

Spec == Init /\ [][Next]_vars

\* The scanner loop keeps running rounds and discoveries, the monitor keeps
\* ticking, cooldowns run out, and a cancel that is asked for again as long as
\* the order rests gets through in the end.
Through(A, i) == A /\ i \in Live /\ orders'[i].left = 0
Fairness ==
    /\ WF_vars(Begin("scan")) /\ WF_vars(RoundStep("scan")) /\ WF_vars(Discover)
    /\ \A m \in Markets : WF_vars(Expire(m)) /\ \A i \in Slots : WF_vars(HandleFill(i, m))
    /\ \A i \in Slots :
         /\ SF_vars(Through(Dropout("scan"), i))
         /\ SF_vars(Through(CancelSide("scan"), i))
         /\ SF_vars(Through(BlacklistCancel(i), i))

FairSpec == Spec /\ Fairness

-----------------------------------------------------------------------------
\* Properties

\* The tables, the exchange and every round hold values of the code's types.
TypeOK ==
    /\ orders \in [Slots -> Order \cup {None}]
    /\ held \in [Tokens -> 0..MaxHeld]
    /\ news \subseteq Slots \X Markets
    /\ cooldown \subseteq Markets /\ blacklist \subseteq Markets
    /\ uma \subseteq Markets /\ pool \subseteq Markets
    /\ quote \in [Tokens -> Prices \cup {Off}]
    /\ pl \in [Placers -> Round]

\* A token never has two buys resting: a round that fails to see, cancel or keep
\* the old order before placing would double the size it quotes.
OneBuyPerToken == \A t \in Tokens : \A i, k \in BuysOn(t) : i = k

\* Buys rest in at most max_concurrent_markets markets, whatever dropped out,
\* was cancelled by the tick or was filled since the round took its snapshot.
ConcurrencyCap == Cardinality(Open) <= MaxConcurrent

\* A blacklisted market loses its buys, even those that Step 3 passes over since
\* part of them traded and those a round in flight placed after the cancel; the
\* exception is a blacklist that leaves the candidate pool empty, for then no
\* round runs.
BlacklistCleared ==
    \A m \in Markets :
        m \in blacklist ~> (BuysIn(m) = {} \/ m \notin blacklist \/ blacklist = Markets)

\* While a token stays eligible at one price in a market that is neither cooling
\* down, blacklisted nor resolving, the rounds converge it to one buy, whatever
\* lost cancels and overlapping rounds left behind.
Quiet(t) == quote[t] # Off /\ Market(t) \notin cooldown \cup blacklist \cup uma
ConvergesToOne ==
    \A t \in Tokens : (<>[]Quiet(t)) => []<>(\A i, k \in BuysOn(t) : i = k)

\* Between rounds, what is held and what rests in a market stay within the
\* market's exposure cap, both sides together.
RestingIn(m) == MapThenSumSet(LAMBDA i : orders[i].left, BuysIn(m))
ExposureCap ==
    (\A p \in Placers : pl[p].at = "idle") =>
        \A m \in Markets : HeldIn(held, m) + RestingIn(m) <= MaxShares

=============================================================================
