-------------------------------- MODULE Quotes --------------------------------
(***************************************************************************)
(* What BuyOrders takes as a given quote: how a placing round filters the  *)
(* two sides of a market, prices, sizes and reconciles a buy on each       *)
(* (engine/scanner.py, engine/laddering.py, engine/legacy_wall.py,         *)
(* WalletWorker.place_orders), and how Step 3 of the monitor judges the    *)
(* resting buy afterwards (_check_compliance).  Both read a book that      *)
(* holds the wallet's own buys, and rewards of different ages.             *)
(*                                                                         *)
(* Prices are tenths of a cent, the finest tick; sizes of the book are     *)
(* half shares, since the code truncates some and not others; money is     *)
(* counted in prices times shares; reward spreads are half cents.          *)
(***************************************************************************)
EXTENDS Integers, FiniteSets, FiniteSetsExt, Functions

CONSTANTS
    Levels,     \* the prices bids may have
    Books,      \* what other makers may quote on a side
    Rewards,    \* what the reward endpoints may say of the market
    Templates,  \* the settings the wallet may be given
    Balances,   \* what get_balance may answer
    Market,     \* what discovery knows of the market: tags, days to settlement, age
    MinSize,    \* rewards_min_size of the market
    Scale,      \* coefficients are counted in parts of 1/Scale
    Changes,    \* how often the own buys may change in a world that stands still
    MaxMoves    \* bound: how often the world moves

Side == {"a", "b"}
PerCent == 10

\* Half shares by price, the best ask (0: none), and whether the tick is 0.1 cents.
Book == [bid : [Levels -> Nat], ask : Nat, fine : BOOLEAN]
Reward == [spread : Nat, rate : Nat]
Template == [mode : {"gap_single", "legacy_wall"},
             included : SUBSET STRING, other : BOOLEAN,         \* categories it makes markets in
             protected : SUBSET STRING, protectOther : BOOLEAN, \* those it leaves alone
             newHours : Nat,                                    \* while this young
             minDays : Nat, maxDays : SUBSET Nat,
             low : Nat, high : Nat, spread : Nat, reward : Nat, tier : Nat,
             cliff : Nat, veto : Nat, wide : Nat, mid : Nat,
             table : SUBSET [upper : Nat, value : Nat],   \* amount_value_table
             gate : [1..3 -> Nat], coeff : [1..3 -> Nat],
             lot : Nat, usd : Nat, shares : Nat,
             sizing : {"min", "custom", "balance"}, custom : Nat,
             wall : Nat, cumulative : Nat]

ASSUME NumbersAssumption ==
    /\ Levels \subseteq Nat \ {0} /\ IsFiniteSet(Levels) /\ MinSize \in Nat \ {0}
    /\ Scale \in Nat \ {0} /\ Changes \in Nat /\ MaxMoves \in Nat
\* What is not known, or not limited, is an empty set.
ASSUME MarketAssumption ==
    Market \in [tags : SUBSET STRING, days : SUBSET Int, age : SUBSET Nat]
ASSUME ScaleAssumption ==      \* no coefficient is rounded
    \A t \in Templates : \A r \in t.table :
        r.value > 0 => Scale % (2 * MinSize * r.value) = 0
ASSUME WorldAssumption ==
    /\ Books \subseteq Book /\ Rewards \subseteq Reward
    /\ Templates \subseteq Template /\ Balances \subseteq Nat
    /\ Books # {} /\ Rewards # {} /\ Templates # {} /\ Balances # {}

Order == [price : Levels, left : Nat \ {0}, hit : BOOLEAN]
NoOrder == [left |-> 0]
Nothing == [spread |-> -1, rate |-> -1]     \* the reward of the market could not be had

VARIABLES
    depth,      \* what others quote on each side
    mine,       \* the wallet's resting buy on each side
    held,       \* shares held of each side
    balance,    \* the wallet's cash
    template,   \* its settings
    live,       \* the market's reward, as Step 3 fetches it
    pool,       \* the market in the candidate pool, as the last scan saw it
    round,      \* the round that has filtered and not yet placed
    settled,    \* history: sides the last round reconciled, and nothing moved since
    stale,      \* history: those it judged by a book that was not to stay
    churn,      \* history: how often the own buys have changed since the world moved
    flapped,    \* history: Step 3 has cancelled since then for what rounds do not ask
    moves       \* how often the world has moved

vars == <<depth, mine, held, balance, template, live, pool, round, settled, stale, churn, flapped,
          moves>>

Waiting == [at |-> "idle", listed |-> {}, steady |-> {}]
Min2(x, y) == IF x <= y THEN x ELSE y
Max2(x, y) == IF x <= y THEN y ELSE x

-----------------------------------------------------------------------------
\* Books

\* The books as the CLOB shows them: what others quote, and the own buys.
Seen == [s \in Side |->
    [depth[s] EXCEPT !.bid = [p \in Levels |->
        @[p] + (IF mine[s].left > 0 /\ mine[s].price = p THEN 2 * mine[s].left ELSE 0)]]]

Bids(b) == {p \in Levels : b.bid[p] > 0}
TwoSided(b) == Bids(b) # {} /\ b.ask > 0
Best(b) == Max(Bids(b))
Below(b, p) == {q \in Bids(b) : q < p}
Next1(b, p) == IF Below(b, p) = {} THEN 0 ELSE Max(Below(b, p))
Whole(b, p) == b.bid[p] \div 2              \* int(float(size))
Thickness(b, p) == SumFunction([q \in {r \in Bids(b) : r >= p} |-> Whole(b, q)])

\* The reward band: spread half cents on either side of the midpoint, so that
\* twice a price is compared with the sum of the best prices.
InBand(b, spread, p) ==
    LET sum == Best(b) + b.ask
    IN  sum - spread * PerCent <= 2 * p /\ 2 * p <= sum + spread * PerCent

\* laddering.has_cliff_below: nothing is bid in the cents below the band.
CliffBelow(b, spread, cents) ==
    LET edge == Best(b) + b.ask - spread * PerCent
    IN  /\ cents > 0
        /\ \A p \in Bids(b) : ~(edge - 2 * cents * PerCent <= 2 * p /\ 2 * p < edge)

\* laddering._max_gap_and_split: the widest step between neighbouring bids, and
\* the bid above it, the highest one if several are as wide.
Gap(b, p) == IF Below(b, p) = {} THEN 0 ELSE p - Next1(b, p)
MaxGap(b) == Max({Gap(b, p) : p \in Bids(b)})
Split(b) == IF MaxGap(b) = 0 THEN Min(Bids(b))
            ELSE Max({p \in Bids(b) : Gap(b, p) = MaxGap(b)})

-----------------------------------------------------------------------------
\* gap_single

\* laddering.amount_value: the row with the least upper bound the price is within.
AmountValue(t, p) ==
    LET rows == {r \in t.table : p <= r.upper}
    IN  IF rows = {} THEN 0 ELSE (CHOOSE r \in rows : \A q \in rows : r.upper <= q.upper).value

\* A level's coefficient: its size against the minimum size times its worth.
Coeff(t, b, p) ==
    IF AmountValue(t, p) = 0 THEN 0
    ELSE (b.bid[p] * Scale) \div (2 * MinSize * AmountValue(t, p))

Rule(t, b) ==
    IF MaxGap(b) > t.wide * PerCent THEN 1
    ELSE IF MaxGap(b) >= t.mid * PerCent THEN 2 ELSE 3

HighSum(t, b) == SumFunction([p \in {q \in Bids(b) : q >= Split(b)} |-> Coeff(t, b, p)])

Worthy(t, b, spread) ==
    {p \in Bids(b) : InBand(b, spread, p) /\ Coeff(t, b, p) > t.coeff[Rule(t, b)]}

Vetoed(t, b) == t.veto > 0 /\ MaxGap(b) > t.veto * PerCent

\* Variant: the cliff is not looked for.
GapPriceBlind(t, b, spread) ==
    IF \/ \A p \in Bids(b) : ~InBand(b, spread, p)
       \/ Vetoed(t, b)
       \/ HighSum(t, b) < t.gate[Rule(t, b)]
       \/ Worthy(t, b, spread) = {}
    THEN 0 ELSE Max(Worthy(t, b, spread))

\* laddering.explain_gap_single_order: the price to rest at, 0 for none.
GapPrice(t, b, spread) ==
    IF \/ \A p \in Bids(b) : ~InBand(b, spread, p)
       \/ CliffBelow(b, spread, t.cliff)
       \/ Vetoed(t, b)
       \/ HighSum(t, b) < t.gate[Rule(t, b)]
       \/ Worthy(t, b, spread) = {}
    THEN 0 ELSE Max(Worthy(t, b, spread))

-----------------------------------------------------------------------------
\* legacy_wall

\* int(max_spread) ticks below the best bid.
Lowest(b, spread) == Best(b) - (spread \div 2) * (IF b.fine THEN 1 ELSE PerCent)

Rest(b, spread, p) == IF p > 0 /\ InBand(b, spread, p) THEN p ELSE 0

\* The price below the first level whose cumulated size exceeds the threshold.
Cumulative(t, b, spread) ==
    LET thick == {p \in Bids(b) : Thickness(b, p) > t.cumulative}
    IN  IF thick = {} THEN 0 ELSE Rest(b, spread, Next1(b, Max(thick)))

Spread2Coarse(t, b, spread) ==
    IF Whole(b, Best(b)) <= t.wall THEN 0 ELSE Rest(b, spread, Next1(b, Best(b)))

\* The price below the first wall; a bad one ends the search.
SpreadGe3Coarse(t, b, spread) ==
    LET walls == {p \in Bids(b) : p >= Lowest(b, spread) /\ Whole(b, p) > t.wall}
    IN  IF walls = {} \/ Next1(b, Max(walls)) < Lowest(b, spread) THEN 0
        ELSE Rest(b, spread, Next1(b, Max(walls)))

DetermineOrderPrice(t, b, spread) ==
    IF b.fine THEN Cumulative(t, b, spread)
    ELSE IF spread \div 2 = 2 THEN Spread2Coarse(t, b, spread)
    ELSE SpreadGe3Coarse(t, b, spread)

\* order_sizing.compute_order_size: shares, 0 for none.
OrderSize(t, price, cash) ==
    LET budget == IF t.sizing = "balance" THEN cash ELSE Min2(t.custom, cash)
    IN  IF t.sizing = "min" THEN MinSize
        ELSE IF budget \div price < MinSize THEN 0 ELSE budget \div price

LegacyPrice(t, b, spread) ==
    IF CliffBelow(b, spread, t.cliff) THEN 0 ELSE DetermineOrderPrice(t, b, spread)

\* Variant: the level named is searched with untruncated sizes, in the whole book.
HitWhole(t, b, spread) ==
    LET hits == {p \in Bids(b) :
                   IF b.fine THEN Thickness(b, p) > t.cumulative ELSE b.bid[p] > 2 * t.wall}
    IN  IF hits = {} THEN 0 ELSE Max(hits)

\* explain_legacy_order: the level its text names as the wall, 0 for none.
Hit(t, b, spread) ==
    LET scanned == {p \in Bids(b) :
                      \/ b.fine
                      \/ spread \div 2 = 2 /\ p = Best(b)
                      \/ spread \div 2 # 2 /\ p >= Lowest(b, spread)}
        hits == {p \in scanned :
                   IF b.fine THEN Thickness(b, p) > t.cumulative ELSE Whole(b, p) > t.wall}
    IN  IF hits = {} THEN 0 ELSE Max(hits)

-----------------------------------------------------------------------------
\* A round on the market

InCategories(slugs, untagged) == Market.tags \cap slugs # {} \/ (untagged /\ Market.tags = {})

InSettlementWindow(t) ==
    \A d \in Market.days : t.minDays <= d /\ \A last \in t.maxDays : d <= last

TooNew(t) ==
    /\ InCategories(t.protected \cap t.included, t.protectOther /\ t.other)
    /\ \E hours \in Market.age : hours < t.newHours

\* prefilter_for_template: what needs no book.
Wanted ==
    /\ InCategories(template.included, template.other)
    /\ pool.rate >= template.reward
    /\ InSettlementWindow(template) /\ ~TooNew(template)
    /\ template.tier = MinSize

Priced(p) == template.low * PerCent <= p /\ p <= template.high * PerCent

\* book_eligible: the listed price, a fresh book's spread and its best bid.
Eligible(b, s) ==
    /\ Wanted /\ Priced(pool.price[s])
    /\ TwoSided(b)
    /\ Max2(0, b.ask - Best(b)) < template.spread * PerCent
    /\ Priced(Best(b))

PriceOn(b) ==
    IF template.mode = "gap_single" THEN GapPrice(template, b, pool.spread)
    ELSE LegacyPrice(template, b, pool.spread)

Lot(price) ==
    IF template.mode = "legacy_wall" THEN OrderSize(template, price, balance)
    ELSE IF template.lot = 0 THEN MinSize ELSE template.lot

\* compute_market_*_orders, one side: what to rest at a price (0: nowhere) with so
\* much of the market's money and shares left; a scrap is not placed.
Unpriced == [price |-> 0, shares |-> 0]

\* Variant: a scrap below the minimum size is placed.
CappedScrap(price, money, shares) ==
    IF price = 0 THEN Unpriced
    ELSE [price |-> price, shares |-> Min2(Lot(price), Min2(money \div price, shares))]

Capped(price, money, shares) ==
    IF price = 0 THEN Unpriced
    ELSE LET n == Min2(Lot(price), Min2(money \div price, shares))
         IN  IF n < MinSize THEN Unpriced ELSE [price |-> price, shares |-> n]

HeldValue == SumFunction([s \in Side |-> held[s] * pool.price[s]])
HeldShares == SumFunction(held)
Money == Max2(0, Min2(balance, template.usd) - HeldValue)
SharesLeft == Max2(0, template.shares - HeldShares)

\* Variant: the second side is given the whole budget again.
LaddersApart(prices) == [s \in Side |-> Capped(prices[s], Money, SharesLeft)]

\* compute_market_single_orders, compute_market_legacy_orders: "a" draws first.
Ladders(prices) ==
    LET first == Capped(prices["a"], Money, SharesLeft)
    IN  [s \in Side |->
            IF s = "a" THEN first
            ELSE Capped(prices[s], Money - first.price * first.shares,
                        SharesLeft - first.shares)]

\* reconcile_buy_orders: a resting buy at the target price stays if what is left
\* of it is near enough to the target.
Tolerance == IF template.mode = "legacy_wall" /\ template.sizing # "min" THEN 10 ELSE 1
Near(left, n) ==
    100 * Max2(left - n, n - left) <= Max2(100, Tolerance * n)
Converge(s, target) ==
    IF /\ mine[s].left > 0 /\ target.price > 0 /\ mine[s].price = target.price
       /\ Near(mine[s].left, target.shares)
    THEN mine[s]
    ELSE IF target.price = 0 THEN NoOrder
    ELSE [price |-> target.price, left |-> target.shares, hit |-> FALSE]

-----------------------------------------------------------------------------
\* One more change of the own buys, counted while the pool's spread is the live one.
Churned ==
    churn' = IF mine' # mine /\ pool.spread = live.spread
             THEN Min2(churn + 1, Changes + 1) ELSE churn

\* Step 3

\* The chain of _check_compliance, on the rewards heard this tick: the first
\* check that objects cancels, and what cannot be known skips the order.
Verdict(b, price, heard) ==
    IF TwoSided(b) /\ b.ask - Best(b) >= template.spread * PerCent THEN "spread"
    ELSE IF heard.rate >= 0 /\ heard.rate < template.reward THEN "reward"
    ELSE IF ~TwoSided(b) \/ heard.spread < 0 THEN "skip"
    ELSE IF ~Priced(price) THEN "price"
    ELSE IF ~InBand(b, heard.spread, price) THEN "band"
    ELSE IF CliffBelow(b, heard.spread, template.cliff) THEN "cliff"
    ELSE IF Vetoed(template, b) THEN "gap"
    ELSE "keep"

\* What Step 3 looks at and a round does not: the price of the order itself against
\* the lower bound, and in legacy_wall the gap between two bids.
Unasked(b, price) ==
    \/ price < template.low * PerCent
    \/ template.mode = "legacy_wall" /\ Vetoed(template, b)

\* Variant: the reward that was heard is not written back into the pool.
Forgets(heard, verdict) == pool

\* manager's callback: a reward that fell is written into the pool.
WritesBack(heard, verdict) ==
    IF verdict = "reward" THEN [pool EXCEPT !.rate = heard.rate] ELSE pool

\* Cancel a buy nothing has matched yet.  The rewards may fail to be had, and a
\* cancel that fails changes nothing and is asked again next tick.
Comply(s) ==
    /\ mine[s].left > 0 /\ ~mine[s].hit
    /\ \E b \in {Seen[s]}, heard \in {live, Nothing} :
         \E verdict \in {Verdict(b, mine[s].price, heard)} \ {"keep", "skip"} :
           /\ mine' = [mine EXCEPT ![s] = NoOrder]
           /\ pool' = WritesBack(heard, verdict)
           /\ flapped' = (flapped \/ (verdict \in {"price", "gap"} /\ Unasked(b, mine[s].price)))
    /\ round' = [round EXCEPT !.steady = IF pool' = pool THEN @ \ {s} ELSE {}]
    /\ settled' = IF pool' = pool THEN settled \ {s} ELSE {}
    /\ Churned
    /\ UNCHANGED <<depth, held, balance, template, live, stale, moves>>

-----------------------------------------------------------------------------
\* The round's two halves: the books of the filter are not those of the placing.
\* round.steady are the sides whose book is the one the filter has seen.

Filter ==
    /\ round.at = "idle"
    /\ \E books \in {Seen} :
         round' = [at |-> "filtered", steady |-> Side,
                   listed |-> {s \in Side : Eligible(books[s], s)}]
    /\ UNCHANGED <<depth, mine, held, balance, template, live, pool, settled, stale, churn,
                   flapped, moves>>

\* The market dropped out: its buys go.
Dropout ==
    /\ round.at = "filtered" /\ round.listed = {}
    /\ mine' = [s \in Side |-> NoOrder]
    /\ round' = Waiting /\ settled' = {} /\ stale' = {} /\ Churned
    /\ UNCHANGED <<depth, held, balance, template, live, pool, flapped, moves>>

\* A held side is only cleared, and without a budget the other one is left alone.
Place ==
    /\ round.at = "filtered" /\ round.listed # {}
    /\ \E books \in {Seen} :
         LET sides == {s \in round.listed : TwoSided(books[s])}
             free == {s \in sides : held[s] = 0}
             worked == IF Money > 0 /\ SharesLeft > 0 THEN sides ELSE sides \ free
         IN  \E prices \in {[s \in Side |-> IF s \in free THEN PriceOn(books[s]) ELSE 0]} :
               \E targets \in {Ladders(prices)} :
                 /\ mine' = [s \in Side |-> IF s \in worked THEN Converge(s, targets[s])
                                            ELSE mine[s]]
                 /\ settled' = worked
                 /\ stale' = {s \in Side : \/ s \notin round.steady
                                           \/ mine[s].left > 0 /\ mine'[s] # mine[s]}
    /\ round' = Waiting /\ Churned
    /\ UNCHANGED <<depth, held, balance, template, live, pool, flapped, moves>>

-----------------------------------------------------------------------------
\* The world

\* Something the round may have read has changed.
Moved ==
    /\ moves < MaxMoves /\ moves' = moves + 1
    /\ settled' = {} /\ stale' = {} /\ churn' = 0 /\ flapped' = FALSE
    /\ round' = [round EXCEPT !.steady = {}]

BookMoves(s) ==
    /\ Moved
    /\ \E b \in Books \ {depth[s]} : depth' = [depth EXCEPT ![s] = b]
    /\ UNCHANGED <<mine, held, balance, template, live, pool>>

RewardMoves ==
    /\ Moved
    /\ live' \in Rewards \ {live}
    /\ UNCHANGED <<depth, mine, held, balance, template, pool>>

BalanceMoves ==
    /\ Moved
    /\ balance' \in Balances \ {balance}
    /\ UNCHANGED <<depth, mine, held, template, live, pool>>

EditTemplate ==
    /\ Moved
    /\ template' \in Templates \ {template}
    /\ UNCHANGED <<depth, mine, held, balance, live, pool>>

\* Part of a buy, or all of it, trades; Step 1's answer to it is in FillDedup.
Fill(s, n) ==
    /\ Moved
    /\ mine[s].left >= n
    /\ held' = [held EXCEPT ![s] = @ + n]
    /\ mine' = [mine EXCEPT ![s] = IF mine[s].left = n THEN NoOrder
                                   ELSE [mine[s] EXCEPT !.left = @ - n, !.hit = TRUE]]
    /\ UNCHANGED <<depth, balance, template, live, pool>>

\* check_exit sells the position.
Exit(s) ==
    /\ Moved
    /\ held[s] > 0 /\ held' = [held EXCEPT ![s] = 0]
    /\ UNCHANGED <<depth, mine, balance, template, live, pool>>

\* Discovery: the market as the reward endpoint lists it, priced at the best bid.
Listed(s) == IF Bids(depth[s]) = {} THEN 0 ELSE Best(depth[s])
Scan ==
    /\ pool' = [spread |-> live.spread, rate |-> live.rate,
                price |-> [s \in Side |-> Listed(s)]]
    /\ pool' # pool
    /\ settled' = {} /\ stale' = {} /\ churn' = 0 /\ flapped' = FALSE
    /\ round' = [round EXCEPT !.steady = {}]
    /\ UNCHANGED <<depth, mine, held, balance, template, live, moves>>

-----------------------------------------------------------------------------
Init ==
    /\ depth \in [Side -> Books]
    /\ mine = [s \in Side |-> NoOrder]
    /\ held = [s \in Side |-> 0]
    /\ balance \in Balances /\ template \in Templates /\ live \in Rewards
    /\ pool = [spread |-> live.spread, rate |-> live.rate,
               price |-> [s \in Side |-> Listed(s)]]
    /\ round = Waiting /\ settled = {} /\ stale = {}
    /\ churn = 0 /\ flapped = FALSE /\ moves = 0

World ==
    \/ RewardMoves \/ BalanceMoves \/ EditTemplate
    \/ \E s \in Side : BookMoves(s) \/ Exit(s) \/ \E n \in 1..mine[s].left : Fill(s, n)

Next == Filter \/ Dropout \/ Place \/ (\E s \in Side : Comply(s)) \/ Scan \/ World

Spec == Init /\ [][Next]_vars

-----------------------------------------------------------------------------
\* Properties

TypeOK ==
    /\ depth \in [Side -> Books]
    /\ mine \in [Side -> Order \cup {NoOrder}]
    /\ held \in [Side -> Nat]
    /\ balance \in Balances /\ template \in Templates /\ live \in Rewards
    /\ pool \in [spread : Nat, rate : Nat, price : [Side -> Nat]]
    /\ round \in [at : {"idle", "filtered"}, listed : SUBSET Side, steady : SUBSET Side]
    /\ settled \subseteq Side /\ stale \subseteq Side
    /\ churn \in 0..Changes + 1 /\ flapped \in BOOLEAN /\ moves \in 0..MaxMoves

\* The round and Step 3 judge a book alike: a buy a round has just placed or kept
\* is not cancelled by Step 3 while nothing moves, unless for what the round does
\* not ask.  Left out are sides whose book has changed since the round filtered or
\* priced on it: something moved, Step 3 cancelled the buy there, or the round
\* itself did so to place another.
SameVerdict ==
    \A s \in settled \ stale :
          /\ mine[s].left > 0 /\ ~mine[s].hit
          /\ pool.spread = live.spread /\ pool.rate = live.rate
          /\ ~Unasked(Seen[s], mine[s].price)
        => Verdict(Seen[s], mine[s].price, live) \in {"keep", "skip"}

\* What the history names as the wall is the level the price was put under: the
\* price is the next one down, and where there is no price the next one is unfit.
ReasonNamesWall ==
    \A s \in Side :
        LET b == Seen[s]
            hit == Hit(template, b, pool.spread)
            price == DetermineOrderPrice(template, b, pool.spread)
        IN  template.mode = "legacy_wall" /\ TwoSided(b)
              => IF price > 0 THEN hit > price /\ Next1(b, hit) = price
                 ELSE hit > 0 => \/ Rest(b, pool.spread, Next1(b, hit)) = 0
                                 \/ Next1(b, hit) < Lowest(b, pool.spread)

\* When both sides were reconciled, what rests stays within the market's money
\* and shares less what is held, but for the tolerance of a kept order.
WithinBudget ==
    settled = Side =>
        LET slack(s) == Max2(1, (Tolerance * mine[s].left) \div 90)
            kept == {s \in Side : mine[s].left > 0}
        IN  /\ SumFunction([s \in kept |-> mine[s].left - slack(s)]) <= SharesLeft
            /\ SumFunction([s \in kept |-> mine[s].price * (mine[s].left - slack(s))]) <= Money

\* While the world stands still and the pool's reward spread is the live one,
\* rounds and Step 3 change the buys a few times and are done: neither the own
\* orders in the book nor a daily reward that fell keeps the two judges busy.  Only
\* once Step 3 has cancelled for what rounds do not ask may they go on.
Settles == flapped \/ churn <= Changes

=============================================================================
