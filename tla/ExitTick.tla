------------------------------- MODULE ExitTick -------------------------------
(***************************************************************************)
(* How one tick of a wallet's monitor sells: check_low_balance and then    *)
(* check_exit (engine/monitor.py), with the pure rules they use            *)
(* (engine/liquidation.py, engine/take_profit.py, the walk down the bids   *)
(* of engine/protected_exit.py) and the Maker route of                     *)
(* engine/exit_router.py, whose merges are in MergeExit.                   *)
(*                                                                         *)
(* The two steps share the open orders read when the tick began, and the   *)
(* books and costs the first of them read.  Meanwhile orders trade, books  *)
(* move, the Data API shows positions late and calls fail.  Positions are  *)
(* tokens of different markets; prices are ticks, sizes are shares.        *)
(***************************************************************************)
EXTENDS Integers, Sequences, FiniteSets, Functions

CONSTANTS
    Positions,  \* the tokens the wallet may hold
    Bought,     \* the buys each position starts with
    Resting,    \* the sells an earlier life may have left behind
    Buys,       \* what a resting buy may bring: [price, size]
    Books,      \* what others may quote for each token
    Rewards,    \* the daily reward of each token's market
    Cash,       \* what the wallet has at first
    Enough,     \* cash is not told apart above this
    Templates,  \* the settings the wallet may be given
    Unread,     \* not asked for yet in this tick
    Unknown,    \* asked for, and not to be had
    MaxMoves,   \* bound: trades, moves of a book and UMA proposals
    MaxFaults   \* bound: calls that fail

Lot == [price : Nat \ {0}, size : Nat \ {0}]
\* Bids best first; an ask of 0 is no ask.
Book == [bids : Seq(Lot), ask : Nat]
Template == [threshold : Nat, target : Nat, lowReward : Nat, smallShares : Nat,
             stop : {"off", "percent", "fixed"}, percent : Nat, cents : Nat,
             profit : {"maker", "market"}, router : BOOLEAN]

ASSUME ConstantsAssumption ==
    /\ IsFiniteSet(Positions) /\ Cash \in Nat /\ Enough \in Nat
    /\ MaxMoves \in Nat /\ MaxFaults \in Nat
    /\ Buys \subseteq Lot /\ Bought \in [Positions -> Seq(Lot)]
    /\ Resting \subseteq SUBSET [id : Nat \ {0}, pos : Positions, price : Nat \ {0}, left : Nat \ {0}]
    /\ Books \in [Positions -> SUBSET Book] /\ Templates \subseteq Template /\ Rewards \in [Positions -> Nat]
\* More cash than any template asks for makes no difference.
ASSUME EnoughAssumption == \A t \in Templates : t.threshold <= Enough /\ t.target <= Enough
\* What was not read is neither a cost nor a book.
ASSUME UnreadAssumption ==
    Unread # Unknown /\ {Unread, Unknown} \cap ([worth : Nat, size : Nat] \union Book) = {}
\* An earlier life kept its sells as this one does (OneSell), of shares it held.
ASSUME RestingAssumption ==
    \A S \in Resting :
        /\ IsFiniteSet(S)
        /\ \A o1, o2 \in S : o1.id = o2.id \/ o1.pos = o2.pos => o1 = o2
        /\ \A o \in S : o.left <= SumFunction([i \in DOMAIN Bought[o.pos] |-> Bought[o.pos][i].size])

VARIABLES
    template,   \* the wallet's settings
    \* the world
    trades,     \* what was bought and sold of each token, oldest first
    shown,      \* how many of these trades the Data API's positions reflect
    book,       \* what others quote
    proposed,   \* tokens whose outcome was proposed to UMA
    orders,     \* the open sells
    cash,       \* what get_balance answers
    owed,       \* what liquidations brought that get_balance does not show yet
    \* the monitor's memory
    cooling,    \* _liquidate_cooldown_until lies ahead
    managed,    \* the router's _managed_sells
    \* the tick
    pc,         \* what it does next
    snapshot,   \* the open orders read when it began
    view,       \* the open orders the present step uses
    todo,       \* positions the present step has yet to look at, with their sizes
    resolving,  \* positions whose market the tick has found proposed
    cost,       \* _cost_cache
    quote,      \* _book_cache
    est,        \* the balance check_low_balance reckons with
    dumped,     \* _just_dumped
    cancelled,  \* _cancelled_sell_ids
    row,        \* what the tick reports of each position
    \* history
    pulled,     \* ids of the sells this tick has taken off the CLOB
    deaf,       \* ids of sells whose cancel was answered and not done
    basis,      \* trades the positions check_exit read reflect
    moved,      \* positions whose size changed between the two reads of a tick
    began,      \* moves and faults when the tick began
    had,        \* the balance check_low_balance has read
    moves, faults

world == <<trades, shown, book, proposed, orders, cash, owed>>
reads == <<snapshot, view, todo, resolving, cost, quote, est, dumped, cancelled, row>>
history == <<pulled, deaf, basis, moved, began, had>>
vars == <<template, world, cooling, managed, pc, reads, history, moves, faults>>

Quiet == [is |-> "none", id |-> 0]

-----------------------------------------------------------------------------
\* Lots and costs: position_cost_with_lots

Fewest(x, y) == IF x <= y THEN x ELSE y
Most(x, y) == IF x <= y THEN y ELSE x
Total(lots) == SumFunction([i \in DOMAIN lots |-> lots[i].size])

\* What lot i gives when so many shares are taken, the first lots first.
Taken(lots, size, i) == Fewest(lots[i].size, Most(0, size - Total(SubSeq(lots, 1, i - 1))))

\* A sale takes its shares from the oldest lots; those it empties are gone.
TakeOldest(lots, size) ==
    LET gone == Cardinality({i \in DOMAIN lots : Total(SubSeq(lots, 1, i)) <= size})
    IN  [i \in 1..(Len(lots) - gone) |->
            [lots[gone + i] EXCEPT !.size = @ - Taken(lots, size, gone + i)]]

Replay(ts) ==
    LET lots[n \in 0..Len(ts)] ==
            IF n = 0 THEN <<>>
            ELSE IF ts[n].side = "BUY"
                 THEN Append(lots[n - 1], [price |-> ts[n].price, size |-> ts[n].size])
                 ELSE TakeOldest(lots[n - 1], ts[n].size)
    IN  lots[Len(ts)]

\* The cost is worth / size, which is rarely a whole number of ticks.
CostOf(lots) == [worth |-> SumFunction([i \in DOMAIN lots |-> lots[i].price * lots[i].size]),
                 size |-> Total(lots)]
Lots(p, n) == Replay(SubSeq(trades[p], 1, n))
AsBuys(lots) == [i \in DOMAIN lots |-> [side |-> "BUY", price |-> lots[i].price, size |-> lots[i].size]]
Later(p) == SubSeq(trades[p], shown[p] + 1, Len(trades[p]))
Held(p) == Total(Lots(p, Len(trades[p])))
ShownSize(p) == Total(Lots(p, shown[p]))

\* Sizes agree up to one share or one percent.
Agree(x, y) == 100 * Most(x - y, y - x) <= Most(100, y)

\* Variant: whatever the trades give is the cost.
RebuiltBlindly(p, size) == CostOf(Lots(p, Len(trades[p])))
\* The trades are at hand when they are read, the positions may be older.
Rebuilt(p, size) ==
    LET c == CostOf(Lots(p, Len(trades[p])))
    IN  IF c.size > 0 /\ Agree(c.size, size) THEN c ELSE Unknown

\* Variant: rounds down.
FloorToTick(c) == c.worth \div c.size
CeilToTick(c) == (c.worth + c.size - 1) \div c.size

-----------------------------------------------------------------------------
\* Books and decisions

BestBid(b) == IF b = Unknown \/ b.bids = <<>> THEN 0 ELSE b.bids[1].price
BestAsk(b) == IF b = Unknown THEN 0 ELSE b.ask
Depth(b, size) == Fewest(size, Total(b.bids))

\* bid_walk: what selling this much down the bids brings.
Proceeds(b, size) ==
    SumFunction([i \in DOMAIN b.bids |-> Taken(b.bids, size, i) * b.bids[i].price])

\* effective_theta_stop: the loss, cost - bid, has reached the stop.
StopHit(c, bid) ==
    LET loss == c.worth - bid * c.size
    IN  \/ /\ template.stop = "percent"
           /\ 100 * loss >= c.worth * template.percent
        \/ /\ template.stop = "fixed"
           /\ loss >= template.cents * c.size

\* Variant: one empty side is enough.
DeadEitherSide(b) == BestBid(b) = 0 \/ BestAsk(b) = 0
Dead(b) == BestBid(b) = 0 /\ BestAsk(b) = 0

\* plan_exit: sell now, rest at a price, or leave a dead book alone.
PlanExit(c, b) ==
    LET bid == BestBid(b)
        ask == BestAsk(b)
        over == c.worth - bid * c.size      \* > 0: the cost is above the bid
        gain == bid > 0 /\ (IF template.profit = "maker" THEN over <= 0 ELSE over < 0)
        now == [action |-> "market", price |-> 0]
        park == [action |-> "rest", price |-> CeilToTick(c)]
    IN  CASE gain /\ template.profit = "market" -> now
          [] gain /\ template.profit = "maker" ->
                [park EXCEPT !.price = Most(ask, @)]
          [] ~gain /\ bid > 0 /\ StopHit(c, bid) -> now
          [] ~gain /\ Dead(b) -> [action |-> "noop", price |-> 0]
          [] OTHER -> park

\* plan_take_profit: one sell, at the price and of the size.
Keeps(sells, price, size) ==
    /\ Cardinality(sells) = 1
    /\ \A o \in sells : o.price = price /\ Agree(o.left, size)

\* plan_liquidation: markets that pay little first, then small positions, and
\* the smallest loss first in each; a loss that is not known comes last.
Tier(p, size) == IF Rewards[p] < template.lowReward THEN 1
                 ELSE IF size < template.smallShares THEN 2 ELSE 3
\* The loss is (cost - bid) * size, in 1/c.size of a tick.
LossBefore(p, q, sizes) ==
    LET bid(x) == BestBid(quote[x])
        loss(x) == (cost[x].worth - bid(x) * cost[x].size) * sizes[x]
    IN  bid(p) > 0 /\ (bid(q) = 0 \/ loss(p) * cost[q].size < loss(q) * cost[p].size)
Before(p, q, sizes) ==
    \/ Tier(p, sizes[p]) < Tier(q, sizes[q])
    \/ Tier(p, sizes[p]) = Tier(q, sizes[q]) /\ LossBefore(p, q, sizes)
Foremost(sizes) == {p \in DOMAIN sizes : \A q \in DOMAIN sizes : ~Before(q, p, sizes)}

Without(f, p) == [q \in DOMAIN f \ {p} |-> f[q]]

-----------------------------------------------------------------------------
\* Calls to the CLOB.  Each answers as asked or costs one of MaxFaults.

CancelAnswers == {"done", "ignored", "error"}   \* "ignored": answered, but not done
SaleAnswers == {"ok", "lost", "rejected"}       \* "lost": done, but not answered
Fails(answers) == Cardinality({i \in DOMAIN answers : answers[i] \notin {"done", "ok"}})
Faults(answers) == /\ faults + Fails(answers) <= MaxFaults
                   /\ faults' = faults + Fails(answers)

SellsOf(p, S) == {o \in S : o.pos = p}
IdsOf(S) == {o.id : o \in S}
After(ids, answer) == IF answer = "done" THEN {o \in orders : o.id \notin ids} ELSE orders
Cancel(ids, answer) ==
    /\ ids = {} => answer = "done"
    /\ pulled' = IF answer = "done" THEN pulled \union (ids \intersect IdsOf(orders)) ELSE pulled
    /\ deaf' = IF answer = "ignored" THEN deaf \union ids ELSE deaf

\* The CLOB takes a sell only for shares no other open sell holds.
Free(p, open) == Held(p) - SumFunction([o \in SellsOf(p, open) |-> o.left])
\* A sell at the market (FAK) takes what the bids hold, at once.
Filled(p, size, open, answer) ==
    IF answer = "rejected" \/ size > Free(p, open) THEN 0 ELSE Depth(book[p], size)
\* What a sale brought plays no part in the cost of what is left.
Sold(p, size) ==
    IF size = 0 THEN trades
    ELSE [trades EXCEPT ![p] = Append(@, [side |-> "SELL", price |-> 0, size |-> size])]
Paid(amount) == cash' = Fewest(Enough, cash + amount)

NewId ==
    LET used == IdsOf(orders) \union IdsOf(view) \union cancelled \union pulled \union deaf
                    \union {row[p].id : p \in Positions} \union {managed[p] : p \in Positions}
    IN  CHOOSE id \in 1..(Cardinality(used) + 1) : id \notin used
\* The open orders after a sell was sent, of which the answer may be lost.
Placed(p, price, size, open, answer) ==
    IF answer = "rejected" \/ size > Free(p, open) THEN open
    ELSE open \union {[id |-> NewId, pos |-> p, price |-> price, left |-> size]}

Report(p, is, id) == row' = [row EXCEPT ![p] = [is |-> is, id |-> id]]

-----------------------------------------------------------------------------
\* check_low_balance

\* begin_status_tick, and the open orders the steps of the tick share.  What is
\* left of the trades the positions reflect is all a later replay needs of them.
BeginTick ==
    /\ pc = "idle"
    /\ \E answer \in {"ok", "rejected"} :
        /\ Faults(<<answer>>)
        /\ snapshot' = IF answer = "ok" THEN orders ELSE Unread
    /\ cost' = [p \in Positions |-> Unread]
    /\ quote' = [p \in Positions |-> Unread]
    /\ dumped' = {} /\ cancelled' = {}
    /\ row' = [p \in Positions |-> Quiet]
    /\ pc' = "low"
    /\ pulled' = {} /\ deaf' = deaf \intersect IdsOf(orders)
    /\ trades' = [p \in Positions |-> AsBuys(Lots(p, shown[p])) \o Later(p)]
    /\ shown' = [p \in Positions |-> Len(Lots(p, shown[p]))]
    /\ basis' = shown' /\ moved' = {} /\ began' = <<moves, faults>>
    /\ UNCHANGED <<template, book, proposed, orders, cash, owed, cooling, managed, view, todo,
                   resolving, est, had, moves>>

\* _exit_prefetch and the reads it spares the steps: costs and books once read
\* in a tick are not read again, failures to have a cost included.
Prefetch(sizes, unpriced, blind) ==
    /\ unpriced \subseteq {p \in DOMAIN sizes : cost[p] = Unread}
    /\ blind \subseteq {p \in DOMAIN sizes : quote[p] = Unread}
    /\ faults + Cardinality(unpriced) + Cardinality(blind) <= MaxFaults
    /\ cost' = [p \in Positions |->
                    IF p \notin DOMAIN sizes \/ cost[p] # Unread THEN cost[p]
                    ELSE IF p \in unpriced THEN Unknown ELSE Rebuilt(p, sizes[p])]
    /\ quote' = [p \in Positions |->
                    IF p \notin DOMAIN sizes \/ quote[p] # Unread THEN quote[p]
                    ELSE IF p \in blind THEN Unknown ELSE book[p]]

ShownPositions == [p \in {q \in Positions : ShownSize(q) > 0} |-> ShownSize(p)]
OpenOrders == IF snapshot = Unread THEN orders ELSE snapshot

\* The balance is low: it reads the positions and ranks those with a cost.
LowReads ==
    /\ pc = "low" /\ template.threshold > 0 /\ ~cooling
    /\ cash < template.threshold /\ cash < template.target
    /\ \E sizes \in {ShownPositions} :
       \E unpriced \in SUBSET DOMAIN sizes : \E blind \in SUBSET DOMAIN sizes :
        /\ Prefetch(sizes, unpriced, blind)
        /\ faults' = faults + Cardinality(unpriced) + Cardinality(blind)
        /\ todo' = [p \in {q \in DOMAIN sizes : cost'[q] # Unknown} |-> sizes[p]]
    /\ view' = OpenOrders
    /\ est' = cash /\ had' = cash
    /\ basis' = shown
    /\ pc' = "liquidate"
    /\ UNCHANGED <<template, world, cooling, managed, snapshot, resolving, dumped, cancelled,
                   row, pulled, deaf, moved, began, moves>>

\* It is switched off, cooling down, not needed, or one of its reads fails.
LowSkipped ==
    /\ pc = "low"
    /\ \E answer \in {"ok", "rejected"} :
        /\ Faults(<<answer>>)
        /\ answer = "ok" => \/ template.threshold = 0 \/ cooling
                            \/ cash >= template.threshold \/ cash >= template.target
    /\ pc' = "exit"
    /\ UNCHANGED <<template, world, cooling, managed, reads, history, moves>>

\* The position's sells in the shared view, less those the tick has cancelled.
OwnSells(p) == {o \in SellsOf(p, view) : o.id \notin cancelled}
\* Variant: sells it cancelled are not registered.
MarketDumpForgets(p, cancel, sale, fill) ==
    LET ids == IdsOf(OwnSells(p))
    IN  /\ Cancel(ids, cancel) /\ UNCHANGED cancelled
        /\ orders' = After(ids, cancel)
        /\ trades' = Sold(p, fill)
        /\ Report(p, IF fill > 0 /\ sale = "ok" THEN "sold" ELSE "unsold", 0)
\* _market_dump: cancel the sells of the position, then sell at the market,
\* whether the cancel worked or not.
MarketDump(p, cancel, sale, fill) ==
    LET ids == IdsOf(OwnSells(p))
    IN  /\ Cancel(ids, cancel)
        /\ cancelled' = IF cancel = "error" THEN cancelled ELSE cancelled \union ids
        /\ orders' = After(ids, cancel)
        /\ trades' = Sold(p, fill)
        /\ Report(p, IF fill > 0 /\ sale = "ok" THEN "sold" ELSE "unsold", 0)

\* One more position is sold, while the balance is not yet what it should be.
\* What the sale brings is counted at the bid that was read: a bid that rose
\* since then is not foreseen.
Liquidate(p) ==
    /\ pc = "liquidate" /\ est < template.target
    /\ p \in Foremost(todo)
    /\ todo' = Without(todo, p)
    /\ IF BestBid(quote[p]) = 0
       THEN UNCHANGED <<orders, trades, cash, owed, est, dumped, cancelled, row, pulled, deaf, faults>>
       ELSE \E cancel \in CancelAnswers, sale \in SaleAnswers :
              /\ Faults(<<cancel, sale>>)
              /\ \E fill \in {Filled(p, todo[p], After(IdsOf(OwnSells(p)), cancel), sale)} :
                LET brings == Proceeds(book[p], fill)
                    reckoned == todo[p] * BestBid(quote[p])
                IN  /\ MarketDump(p, cancel, sale, fill)
                    /\ IF fill > 0 /\ sale = "ok"
                       THEN /\ dumped' = dumped \union {p}
                            /\ est' = Fewest(Enough, est + reckoned)
                            /\ owed' = Fewest(Enough, owed + Fewest(brings, reckoned))
                            /\ UNCHANGED cash
                       ELSE /\ Paid(brings)
                            /\ UNCHANGED <<dumped, est, owed>>
    /\ UNCHANGED <<template, shown, book, proposed, cooling, managed, pc, snapshot, view,
                   resolving, cost, quote, basis, moved, began, had, moves>>

\* Variant: without a cooldown.
LowDoneWarm ==
    /\ pc = "liquidate"
    /\ todo = <<>> \/ est >= template.target
    /\ pc' = "exit"
    /\ UNCHANGED <<template, world, cooling, managed, reads, history, moves, faults>>
\* Enough was sold or nothing is left to sell; after a sale it cools down.
LowDone ==
    /\ pc = "liquidate"
    /\ todo = <<>> \/ est >= template.target
    /\ cooling' = (cooling \/ dumped # {})
    /\ pc' = "exit"
    /\ UNCHANGED <<template, world, managed, reads, history, moves, faults>>

-----------------------------------------------------------------------------
\* check_exit

\* It reads the positions anew, asks Gamma which markets are proposed, and
\* leaves the positions just liquidated alone.
ExitReads ==
    /\ pc = "exit"
    /\ \E sizes \in {[p \in DOMAIN ShownPositions \ dumped |-> ShownSize(p)]} :
       \E unpriced \in SUBSET DOMAIN sizes : \E blind \in SUBSET DOMAIN sizes, gamma \in {"ok", "rejected"} :
        /\ Prefetch(sizes, unpriced, blind)
        /\ faults' = faults + Cardinality(unpriced) + Cardinality(blind) + Fails(<<gamma>>)
        /\ faults' <= MaxFaults
        /\ todo' = sizes
        /\ resolving' = IF gamma = "ok" THEN proposed ELSE {}
    /\ view' = OpenOrders
    /\ managed' = [p \in Positions |-> IF managed[p] \in IdsOf(OpenOrders) THEN managed[p] ELSE 0]
    /\ basis' = shown
    /\ moved' = {p \in Positions : cost[p] # Unread /\ shown[p] # basis[p]}
    /\ pc' = "each"
    /\ UNCHANGED <<template, world, cooling, snapshot, est, dumped, cancelled, row, pulled, deaf,
                   began, had, moves>>

Looks(p) ==
    /\ pc = "each" /\ p \in DOMAIN todo
    /\ todo' = Without(todo, p)
    /\ UNCHANGED <<template, shown, book, proposed, owed, cooling, pc, snapshot, view,
                   resolving, cost, quote, est, dumped, basis, moved, began, had, moves>>
Untouched == UNCHANGED <<orders, trades, cash, managed, cancelled, pulled, deaf, faults>>

\* _resolution_dump: the outcome is proposed, so it sells at any price.
Resolve(p) ==
    /\ Looks(p) /\ p \in resolving
    /\ IF BestBid(quote[p]) = 0
       THEN Report(p, "nobid", 0) /\ Untouched
       ELSE /\ \E cancel \in CancelAnswers, sale \in SaleAnswers :
                /\ Faults(<<cancel, sale>>)
                /\ \E fill \in {Filled(p, todo[p], After(IdsOf(OwnSells(p)), cancel), sale)} :
                    MarketDump(p, cancel, sale, fill) /\ Paid(Proceeds(book[p], fill))
            /\ UNCHANGED managed

\* Without a cost the position is left as it is, and reported as unprotected.
Naked(p) ==
    /\ Looks(p) /\ p \notin resolving /\ cost[p] = Unknown
    /\ Report(p, "naked", 0) /\ Untouched

Decides(p, action) ==
    /\ Looks(p) /\ p \notin resolving /\ cost[p] # Unknown /\ ~template.router
    /\ PlanExit(cost[p], quote[p]).action = action

DeadBook(p) == Decides(p, "noop") /\ Report(p, "empty", 0) /\ Untouched

RestPrice(p) == Most(PlanExit(cost[p], quote[p]).price, CeilToTick(cost[p]))

\* The sell that rests is the one wanted.
Keep(p) ==
    /\ Decides(p, "rest") /\ Keeps(OwnSells(p), RestPrice(p), todo[p])
    /\ \E o \in OwnSells(p) : Report(p, "keep", o.id)
    /\ Untouched

\* Variant: those of the right size stay.
ReplacedMisfits(p) == IdsOf({o \in OwnSells(p) : ~Agree(o.left, todo[p])})
Replaced(p) == IdsOf(OwnSells(p))
\* One sell replaces those that rest; a cancel that fails leaves them alone.
Rest(p) ==
    /\ Decides(p, "rest") /\ ~Keeps(OwnSells(p), RestPrice(p), todo[p])
    /\ \E cancel \in CancelAnswers, sale \in SaleAnswers :
        LET ids == Replaced(p)
            open == After(ids, cancel)
        IN  /\ Faults(<<cancel, sale>>) /\ Cancel(ids, cancel)
            /\ IF cancel = "error"
               THEN sale = "ok" /\ orders' = open /\ UNCHANGED row
               ELSE /\ orders' = Placed(p, RestPrice(p), todo[p], open, sale)
                    /\ IF sale = "ok" /\ orders' # open
                       THEN Report(p, "rest", NewId)
                       ELSE Report(p, "naked", 0)
    /\ UNCHANGED <<trades, cash, managed, cancelled>>

\* A stop or a profit at the market, whether the cancel worked or not.
SellNow(p) ==
    /\ Decides(p, "market")
    /\ \E cancel \in CancelAnswers, sale \in SaleAnswers :
       /\ Faults(<<cancel, sale>>)
       /\ \E ids \in {IdsOf(OwnSells(p))} :
          \E fill \in {Filled(p, todo[p], After(ids, cancel), sale)} :
            /\ Cancel(ids, cancel)
            /\ orders' = After(ids, cancel)
            /\ trades' = Sold(p, fill)
            /\ Paid(Proceeds(book[p], fill))
            /\ Report(p, IF fill > 0 /\ sale = "ok" THEN "sold" ELSE "naked", 0)
    /\ UNCHANGED <<managed, cancelled>>

-----------------------------------------------------------------------------
\* The router's route for a single position: a Maker sell at the best ask until
\* the oldest lot is late, then a protected FAK.

Routes(p) ==
    Looks(p) /\ p \notin resolving /\ cost[p] # Unknown /\ template.router
Stopped(p) == BestBid(quote[p]) > 0 /\ StopHit(cost[p], BestBid(quote[p]))

\* Its sell rests and the wait is not over.
MakerWaits(p) ==
    /\ Routes(p) /\ ~Stopped(p) /\ managed[p] # 0
    /\ Report(p, "waits", managed[p]) /\ Untouched

\* It takes the sells of the shared view off and rests one at the best ask, which
\* the CLOB refuses if it would trade at once.
MakerRests(p) ==
    /\ Routes(p) /\ ~Stopped(p) /\ managed[p] = 0
    /\ LET ask == BestAsk(quote[p])
           ids == IdsOf(SellsOf(p, view))
       IN  IF ask = 0
           THEN Report(p, "noask", 0) /\ Untouched
           ELSE /\ \E cancel \in CancelAnswers, sale \in SaleAnswers :
                    LET open == After(ids, cancel)
                        taken == ask <= BestBid(book[p])
                    IN  /\ Faults(<<cancel, sale>>) /\ Cancel(ids, cancel)
                        /\ orders' = IF taken THEN open
                                     ELSE Placed(p, ask, todo[p], open, sale)
                        /\ IF sale = "ok" /\ orders' # open
                           THEN /\ Report(p, "maker", NewId)
                                /\ managed' = [managed EXCEPT ![p] = NewId]
                           ELSE Report(p, "unsold", 0) /\ UNCHANGED managed
                /\ UNCHANGED <<trades, cash, cancelled>>

\* The wait is over, or the stop is hit: the bids are read anew, and a FAK is
\* sent no lower than the price their depth calls for.
Compare(p) ==
    /\ Routes(p)
    /\ \E read \in {"ok", "rejected"}, cancel \in CancelAnswers, sale \in SaleAnswers :
       LET first == ~Stopped(p) /\ managed[p] # 0      \* the Maker sell is cancelled at once
           fak == read = "ok" /\ book[p].bids # <<>>
       IN
       /\ Faults(<<read, cancel, sale>>)
       /\ fak \/ sale = "ok"
       /\ \E ids \in {IF first \/ fak THEN IdsOf(SellsOf(p, view)) ELSE {}} :
          \E fill \in {IF fak THEN Filled(p, todo[p], After(ids, cancel), sale) ELSE 0} :
            /\ Cancel(ids, cancel)
            /\ orders' = After(ids, cancel)
            /\ trades' = Sold(p, fill)
            /\ Paid(Proceeds(book[p], fill))
            /\ managed' = IF ids = {} THEN managed ELSE [managed EXCEPT ![p] = 0]
            /\ Report(p, IF fill > 0 /\ sale = "ok" THEN "sold" ELSE "unsold", 0)
    /\ UNCHANGED cancelled

\* The rows are published; what the tick has read is not used again.
Ends ==
    /\ pc' = "idle"
    /\ snapshot' = Unread /\ view' = {} /\ todo' = <<>> /\ resolving' = {} /\ est' = 0
    /\ cost' = [p \in Positions |-> Unread] /\ quote' = [p \in Positions |-> Unread]
    /\ row' = [p \in Positions |-> Quiet]
    /\ pulled' = {} /\ moved' = {} /\ had' = 0
    /\ UNCHANGED <<template, world, cooling, managed, dumped, cancelled, deaf, basis, began,
                   moves>>
TickEnds == pc = "each" /\ todo = <<>> /\ Ends /\ UNCHANGED faults

\* The positions or the open orders cannot be read: no exit in this tick.
ExitFails == pc = "exit" /\ Ends /\ Faults(<<"rejected">>)

-----------------------------------------------------------------------------
\* The world around the tick.  What happens while the tick rests, it could as well
\* find happening as it begins; the sells are the exception, since it starts by
\* reading them.  Positions and proposals are seen at one read each.

Moves == moves < MaxMoves /\ moves' = moves + 1
Alone == UNCHANGED <<template, managed, pc, reads, history, faults>>

BuyTrades(p) ==
    /\ pc # "idle" /\ Moves
    /\ \E b \in Buys : /\ trades' = [trades EXCEPT ![p] = @ \o AsBuys(<<b>>)]
                       /\ cash' = Most(0, cash - b.price * b.size)
    /\ Alone /\ UNCHANGED <<shown, book, proposed, orders, owed, cooling>>

\* A resting sell trades, wholly or by half.
SellTrades(o) ==
    /\ Moves
    /\ \E size \in {o.left, o.left \div 2} \ {0} :
        /\ trades' = Sold(o.pos, size)
        /\ orders' = (orders \ {o}) \union
                        {r \in {[o EXCEPT !.left = @ - size]} : r.left > 0}
        /\ Paid(o.price * size)
    /\ Alone /\ UNCHANGED <<shown, book, proposed, owed, cooling>>

BookMoves(p) ==
    /\ pc # "idle" /\ Moves
    /\ \E b \in Books[p] \ {book[p]} : book' = [book EXCEPT ![p] = b]
    /\ Alone /\ UNCHANGED <<trades, shown, proposed, orders, cash, owed, cooling>>

Proposal(p) ==
    /\ pc = "exit" /\ Moves /\ p \notin proposed
    /\ proposed' = proposed \union {p}
    /\ Alone /\ UNCHANGED <<trades, shown, book, orders, cash, owed, cooling>>

\* The Data API shows later trades too.
CatchUp(p) ==
    /\ pc \in {"low", "exit"}
    /\ \E n \in (shown[p] + 1)..Len(trades[p]) : shown' = [shown EXCEPT ![p] = n]
    /\ Alone /\ UNCHANGED <<trades, book, proposed, orders, cash, owed, cooling, moves>>

\* What liquidations brought settles within LIQUIDATE_COOLDOWN_SEC, though not
\* within the tick.
Settle ==
    /\ pc = "idle" /\ owed > 0
    /\ owed' = 0 /\ Paid(owed)
    /\ Alone /\ UNCHANGED <<trades, shown, book, proposed, orders, cooling, moves>>
CoolsDown ==
    /\ pc = "idle" /\ cooling /\ owed = 0
    /\ cooling' = FALSE
    /\ Alone /\ UNCHANGED <<world, moves>>

-----------------------------------------------------------------------------
Init ==
    /\ template \in Templates
    /\ trades = [p \in Positions |-> AsBuys(Bought[p])]
    /\ shown = [p \in Positions |-> Len(Bought[p])]
    /\ book \in [Positions -> UNION {Books[p] : p \in Positions}]
    /\ \A p \in Positions : book[p] \in Books[p]
    /\ orders \in Resting /\ proposed = {} /\ cash = Cash /\ owed = 0
    /\ cooling = FALSE /\ managed = [p \in Positions |-> 0]
    /\ pc = "idle" /\ snapshot = Unread /\ view = {} /\ todo = <<>> /\ resolving = {}
    /\ cost = [p \in Positions |-> Unread] /\ quote = [p \in Positions |-> Unread]
    /\ est = 0 /\ dumped = {} /\ cancelled = {}
    /\ row = [p \in Positions |-> Quiet]
    /\ pulled = {} /\ deaf = {} /\ basis = shown /\ moved = {} /\ had = 0 /\ began = <<0, 0>>
    /\ moves = 0 /\ faults = 0

Exit == \E p \in Positions :
    \/ Resolve(p) \/ Naked(p) \/ DeadBook(p) \/ Keep(p) \/ Rest(p) \/ SellNow(p)
    \/ MakerWaits(p) \/ MakerRests(p) \/ Compare(p)
Tick ==
    \/ BeginTick \/ LowReads \/ LowSkipped \/ (\E p \in Positions : Liquidate(p)) \/ LowDone
    \/ ExitReads \/ ExitFails \/ Exit \/ TickEnds
World ==
    \/ \E p \in Positions : BuyTrades(p) \/ BookMoves(p) \/ Proposal(p) \/ CatchUp(p)
    \/ \E o \in orders : SellTrades(o)
    \/ Settle \/ CoolsDown

Next == Tick \/ World
Spec == Init /\ [][Next]_vars

-----------------------------------------------------------------------------
\* Properties

\* Everything has its type; what was sold was held, and what rests is held.
Sale == [id : Nat \ {0}, pos : Positions, price : Nat \ {0}, left : Nat \ {0}]
TypeOK ==
    /\ template \in Templates
    /\ \A p \in Positions : /\ shown[p] \in 0..Len(trades[p])
                            /\ Free(p, orders) >= 0
                            /\ book[p] \in Books[p]
                            /\ row[p].is \in {"keep", "rest", "maker", "waits"} <=> row[p].id # 0
                            /\ cost[p] \in {Unread, Unknown} \/ cost[p].size > 0
    /\ orders \subseteq Sale /\ view \subseteq Sale
    /\ snapshot = Unread \/ snapshot \subseteq Sale
    /\ Cardinality(IdsOf(orders)) = Cardinality(orders)
    /\ dumped \subseteq Positions /\ proposed \subseteq Positions /\ resolving \subseteq Positions
    /\ moved \subseteq Positions
    /\ {cash, owed, est} \subseteq Nat /\ cooling \in BOOLEAN
    /\ pc \in {"idle", "low", "liquidate", "exit", "each"}


\* A position that is reported as kept, newly covered or waiting has the sell that
\* is spoken of: the tick has not cancelled it, neither while it liquidated nor
\* otherwise.  (The note at _cancelled_sell_ids, monitor.py:82-85: the shared
\* view still shows a sell that a failed liquidation has taken off, and the row
\* would say "kept" of a naked position.)  The one row that may lie is the router's,
\* which waits on a sell this tick's liquidation is known to have cancelled.
KeptIsThere == \A p \in Positions : row[p].id # 0 =>
    \/ row[p].id \notin pulled
    \/ row[p].is = "waits" /\ row[p].id \in cancelled

\* A position never has two sells, whatever trades, is refused or goes
\* unanswered (README.md:51), unless the CLOB has answered a cancel it did not
\* carry out.  The router is left out: it goes on when its cancel fails.
OneSell == ~template.router =>
    \A p \in Positions : Cardinality({o \in SellsOf(p, orders) : o.id \notin deaf}) <= 1

\* A sell that check_exit rests or keeps is not below the cost of the position:
\* the one it read, or one newer.  This is so when the position did not change
\* between the reads of check_low_balance, which leaves its cost in the cache,
\* and those of check_exit.  README.md:51 excepts nothing.
CostAt(p, n) == CostOf(Lots(p, n))
CoversCost(p) ==
    row[p].is \in {"keep", "rest"} =>
        \A o \in SellsOf(p, orders) : o.id = row[p].id =>
            \E n \in basis[p]..Len(trades[p]) : o.price * CostAt(p, n).size >= CostAt(p, n).worth
NeverBelowCost == \A p \in Positions \ moved : CoversCost(p)

\* A liquidation sells nothing more once the balance that was read and what
\* liquidations have brought since, settled or not, reach the target: neither in
\* one tick nor in the next ones, which still read the old balance.
NoOverSale == [][owed' > owed => had + owed < template.target]_vars

\* A tick in which nothing fails or moves, and whose positions are up to date,
\* leaves no position behind that could be sold: it rests as a sell, unless the
\* tick has just sold of it, nobody bids for it, or the router has it.
CalmTickCovers ==
    pc = "each" /\ todo = <<>> /\ began = <<moves, faults>> /\ ~template.router =>
        \A p \in Positions :
            \/ basis[p] < Len(trades[p]) \/ p \in moved
            \/ Held(p) = 0 \/ SellsOf(p, orders) # {}
            \/ row[p].is = "sold" \/ BestBid(quote[p]) = 0

=============================================================================
