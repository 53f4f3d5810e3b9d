---------------------------- MODULE Quotes_proofs ----------------------------
(***************************************************************************)
(* What holds of quoting for any levels, books, rewards, settings and      *)
(* balances: its state is well formed, a recorded reason names the wall    *)
(* that was used, what rests stays within the market's money and shares,   *)
(* Step 3 keeps what a round has just placed, and while nothing moves the  *)
(* own buys come to rest.                                                  *)
(***************************************************************************)
EXTENDS Quotes, Sums

-----------------------------------------------------------------------------
\* Books

LEMMA HighestLevel ==
    ASSUME NEW S \in SUBSET Levels, S # {}
    PROVE  Max(S) \in S /\ \A p \in S : p <= Max(S)
<1>1. S \in SUBSET Int
    BY NumbersAssumption
<1>2. IsFiniteSet(S)
    BY NumbersAssumption, FS_Subset
<1> QED
    BY <1>1, <1>2, MaxIsIn

LEMMA BidsAreLevels ==
    ASSUME NEW b
    PROVE  Bids(b) \in SUBSET Levels /\ \A p \in Levels : p \in Nat /\ p > 0
BY NumbersAssumption DEF Bids

LEMMA BestIsHighest ==
    ASSUME NEW b, Bids(b) # {}
    PROVE  /\ Best(b) \in Bids(b) /\ Best(b) \in Nat /\ Best(b) > 0
           /\ \A p \in Bids(b) : p <= Best(b)
<1>1. Best(b) \in Bids(b) /\ \A p \in Bids(b) : p <= Best(b)
    BY BidsAreLevels, HighestLevel DEF Best
<1> QED
    BY <1>1, BidsAreLevels

\* The next bid is the highest one below, or there is none.
LEMMA NextIsBelow ==
    ASSUME NEW b, NEW p
    PROVE  \/ Next1(b, p) = 0
           \/ Next1(b, p) \in Bids(b) /\ Next1(b, p) < p /\ Next1(b, p) > 0
<1>1. Below(b, p) \in SUBSET Levels /\ Below(b, p) \in SUBSET Bids(b)
    BY BidsAreLevels DEF Below
<1>2. CASE Below(b, p) = {}
    BY <1>2 DEF Next1
<1>3. CASE Below(b, p) # {}
  <2>1. Next1(b, p) \in Below(b, p)
      BY <1>1, <1>3, HighestLevel DEF Next1
  <2> QED
      BY <1>1, <2>1, BidsAreLevels DEF Below
<1> QED
    BY <1>2, <1>3

LEMMA RestFits ==
    ASSUME NEW b, NEW spread, NEW p, Rest(b, spread, p) # 0
    PROVE  Rest(b, spread, p) = p /\ p > 0 /\ InBand(b, spread, p)
BY DEF Rest

-----------------------------------------------------------------------------
\* The wall of legacy_wall

\* The levels that count as a wall, by the rule that applies to the book.
Walls(t, b, spread) ==
    IF b.fine THEN {p \in Bids(b) : Thickness(b, p) > t.cumulative}
    ELSE IF spread \div 2 = 2 THEN {p \in Bids(b) : p = Best(b) /\ Whole(b, p) > t.wall}
    ELSE {p \in Bids(b) : p >= Lowest(b, spread) /\ Whole(b, p) > t.wall}

LEMMA HitIsHighestWall ==
    ASSUME NEW t, NEW b, NEW spread
    PROVE  Hit(t, b, spread) = IF Walls(t, b, spread) = {} THEN 0 ELSE Max(Walls(t, b, spread))
<1> DEFINE scanned == {p \in Bids(b) :
                          \/ b.fine
                          \/ spread \div 2 = 2 /\ p = Best(b)
                          \/ spread \div 2 # 2 /\ p >= Lowest(b, spread)}
           hits == {p \in scanned :
                      IF b.fine THEN Thickness(b, p) > t.cumulative ELSE Whole(b, p) > t.wall}
<1>1. hits = Walls(t, b, spread)
    BY DEF Walls
<1>2. Hit(t, b, spread) = IF hits = {} THEN 0 ELSE Max(hits)
    BY DEF Hit
<1> QED
    BY <1>1, <1>2

\* The price is the one below the wall, when that is fit.
LEMMA PriceIsBelowHit ==
    ASSUME NEW t \in Template, NEW b \in Book, NEW spread, Bids(b) # {}
    PROVE  LET hit == Hit(t, b, spread)
               price == DetermineOrderPrice(t, b, spread)
           IN  \/ price = 0 /\ \/ hit = 0
                               \/ Rest(b, spread, Next1(b, hit)) = 0
                               \/ Next1(b, hit) < Lowest(b, spread)
               \/ price = Rest(b, spread, Next1(b, hit)) /\ hit \in Bids(b)
<1> DEFINE walls == Walls(t, b, spread)
<1>1. walls \in SUBSET Levels /\ walls \in SUBSET Bids(b)
    BY BidsAreLevels DEF Walls
<1>2. Hit(t, b, spread) = IF walls = {} THEN 0 ELSE Max(walls)
    BY HitIsHighestWall
<1>3. walls # {} => Max(walls) \in Bids(b)
    BY <1>1, HighestLevel
<1>4. CASE b.fine
  <2>1. walls = {p \in Bids(b) : Thickness(b, p) > t.cumulative}
      BY <1>4 DEF Walls
  <2>2. DetermineOrderPrice(t, b, spread)
          = IF walls = {} THEN 0 ELSE Rest(b, spread, Next1(b, Max(walls)))
      BY <1>4, <2>1 DEF DetermineOrderPrice, Cumulative
  <2> HIDE DEF walls
  <2> QED
      BY <1>2, <1>3, <2>2
<1>5. CASE ~b.fine /\ spread \div 2 = 2
  <2>1. Best(b) \in Bids(b)
      BY BestIsHighest
  <2>0. Whole(b, Best(b)) \in Int /\ t.wall \in Int
    <3>1. b.bid[Best(b)] \in Nat /\ t.wall \in Nat
        BY <2>1, BidsAreLevels DEF Book, Template
    <3> QED
        BY <3>1 DEF Whole
  <2>2. CASE Whole(b, Best(b)) > t.wall
    <3>1. walls = {Best(b)}
        BY <1>5, <2>1, <2>2 DEF Walls
    <3>2. Max(walls) = Best(b)
      <4>1. Max({Best(b)}) \in {Best(b)}
          BY <2>1, BidsAreLevels, HighestLevel
      <4> QED
          BY <3>1, <4>1
    <3>3. DetermineOrderPrice(t, b, spread) = Rest(b, spread, Next1(b, Best(b)))
        BY <1>5, <2>0, <2>2 DEF DetermineOrderPrice, Spread2Coarse
    <3> HIDE DEF walls
    <3> QED
        BY <1>2, <2>1, <3>1, <3>2, <3>3
  <2>3. CASE ~(Whole(b, Best(b)) > t.wall)
    <3>1. walls = {}
        BY <1>5, <2>3 DEF Walls
    <3> HIDE DEF walls
    <3>2. Hit(t, b, spread) = 0
        BY <1>2, <3>1
    <3>3. DetermineOrderPrice(t, b, spread) = 0
        BY <1>5, <2>0, <2>3 DEF DetermineOrderPrice, Spread2Coarse
    <3> QED
        BY <3>2, <3>3
  <2> QED
      BY <2>2, <2>3
<1>6. CASE ~b.fine /\ spread \div 2 # 2
  <2>1. walls = {p \in Bids(b) : p >= Lowest(b, spread) /\ Whole(b, p) > t.wall}
      BY <1>6 DEF Walls
  <2>2. DetermineOrderPrice(t, b, spread)
          = IF walls = {} \/ Next1(b, Max(walls)) < Lowest(b, spread) THEN 0
            ELSE Rest(b, spread, Next1(b, Max(walls)))
      BY <1>6, <2>1 DEF DetermineOrderPrice, SpreadGe3Coarse
  <2> HIDE DEF walls
  <2> QED
      BY <1>2, <1>3, <2>2
<1> QED
    BY <1>4, <1>5, <1>6

-----------------------------------------------------------------------------
\* What a round computes

LEMMA NoProductIsNegative == ASSUME NEW x \in Nat, NEW y \in Nat PROVE x * y \in Nat
OBVIOUS

\* Each side of the market is summed over.
LEMMA SideIsFinite == IsFiniteSet(Side) /\ "a" \in Side /\ "b" \in Side
<1>1. IsFiniteSet({"a"} \union {"b"})
    BY FS_Singleton, FS_AddElement
<1>2. Side = {"a"} \union {"b"}
    BY DEF Side
<1> QED
    BY <1>1, <1>2

\* A resting buy.
LEMMA Resting ==
    ASSUME TypeOK, NEW s \in Side
    PROVE  /\ mine[s].left \in Nat
           /\ mine[s].left > 0 => /\ mine[s] \in Order
                                  /\ mine[s].price \in Levels /\ mine[s].left \in Nat \ {0}
           /\ mine[s].left = 0 => mine[s] = NoOrder
<1>1. mine[s] \in Order \/ mine[s] = NoOrder
    BY DEF TypeOK
<1> QED
    BY <1>1 DEF Order, NoOrder

LEMMA ShownTyped ==
    ASSUME NEW d \in Book, NEW m \in Order \cup {NoOrder}, NEW own,
           own = [p \in Levels |->
                    d.bid[p] + (IF m.left > 0 /\ m.price = p THEN 2 * m.left ELSE 0)],
           NEW b, b = [d EXCEPT !.bid = own]
    PROVE  b \in Book /\ b.ask = d.ask /\ b.fine = d.fine /\ b.bid = own
<1>1. d.bid \in [Levels -> Nat] /\ d.ask \in Nat /\ d.fine \in BOOLEAN
    BY DEF Book
<1>2. m.left \in Nat
    BY DEF Order, NoOrder
<1>3. own \in [Levels -> Nat]
    BY <1>1, <1>2
<1>4. b.bid = own /\ b.ask = d.ask /\ b.fine = d.fine
    BY DEF Book
<1>5. b \in Book
    BY <1>3 DEF Book
<1> QED
    BY <1>4, <1>5

LEMMA SeenTyped ==
    ASSUME TypeOK, NEW s \in Side
    PROVE  /\ Seen[s] \in Book
           /\ Seen[s].ask = depth[s].ask /\ Seen[s].fine = depth[s].fine
           /\ Seen[s].bid = [p \in Levels |-> depth[s].bid[p] +
                 (IF mine[s].left > 0 /\ mine[s].price = p THEN 2 * mine[s].left ELSE 0)]
<1> DEFINE own == [p \in Levels |-> depth[s].bid[p] +
                 (IF mine[s].left > 0 /\ mine[s].price = p THEN 2 * mine[s].left ELSE 0)]
<1>1. depth[s] \in Book /\ mine[s] \in Order \cup {NoOrder}
    BY WorldAssumption DEF TypeOK
<1>2. Seen[s] = [depth[s] EXCEPT !.bid = own]
    BY DEF Seen
<1>3. Seen[s] \in Book /\ Seen[s].ask = depth[s].ask /\ Seen[s].fine = depth[s].fine
      /\ Seen[s].bid = own
  <2>1. own = [p \in Levels |-> depth[s].bid[p] +
                 (IF mine[s].left > 0 /\ mine[s].price = p THEN 2 * mine[s].left ELSE 0)]
      OBVIOUS
  <2> HIDE DEF own
  <2> QED
      BY <1>1, <1>2, <2>1, ShownTyped
<1> QED
    BY <1>3

\* Each price a round may rest at is a bid of the book, in the reward band.
LEMMA PriceIsBid ==
    ASSUME NEW b \in Book, template \in Template, TwoSided(b), PriceOn(b) # 0
    PROVE  PriceOn(b) \in Bids(b) /\ InBand(b, pool.spread, PriceOn(b))
<1>1. CASE template.mode = "gap_single"
  <2> DEFINE worthy == Worthy(template, b, pool.spread)
  <2>1. PriceOn(b) = GapPrice(template, b, pool.spread)
      BY <1>1 DEF PriceOn
  <2>2. worthy # {} /\ PriceOn(b) = Max(worthy)
      BY <2>1 DEF GapPrice
  <2>3. worthy \in SUBSET Levels
      BY BidsAreLevels DEF Worthy
  <2>4. Max(worthy) \in worthy
      BY <2>2, <2>3, HighestLevel
  <2> QED
      BY <2>2, <2>4 DEF Worthy
<1>2. CASE template.mode # "gap_single"
  <2> DEFINE price == DetermineOrderPrice(template, b, pool.spread)
             hit == Hit(template, b, pool.spread)
  <2>1. PriceOn(b) = price
      BY <1>2 DEF PriceOn, LegacyPrice
  <2>2. Bids(b) # {}
      BY DEF TwoSided
  <2>3. price = Rest(b, pool.spread, Next1(b, hit))
      BY <2>1, <2>2, PriceIsBelowHit
  <2>4. price = Next1(b, hit) /\ price > 0 /\ InBand(b, pool.spread, price)
      BY <2>1, <2>3, RestFits
  <2>5. price \in Bids(b)
      BY <2>4, NextIsBelow
  <2> QED
      BY <2>1, <2>4, <2>5
<1> QED
    BY <1>1, <1>2

\* What money buys costs no more than the money.
LEMMA Affordable ==
    ASSUME NEW money \in Nat, NEW price \in Nat, price > 0, NEW n \in Nat, n <= money \div price
    PROVE  price * n \in Nat /\ price * n <= money
<1>1. money \div price \in Nat /\ price * (money \div price) <= money
    OBVIOUS
<1>2. price * n <= price * (money \div price)
    BY <1>1
<1>3. price * n \in Nat /\ price * (money \div price) \in Nat
    BY <1>1, NoProductIsNegative
<1> QED
    BY <1>1, <1>2, <1>3

LEMMA BudgetIsNat == ASSUME TypeOK PROVE Money \in Nat /\ SharesLeft \in Nat
<1>1. balance \in Nat /\ template \in Template
    BY WorldAssumption DEF TypeOK
<1>2. template.usd \in Nat /\ template.shares \in Nat
    BY <1>1 DEF Template
<1> DEFINE value == [s \in Side |-> held[s] * pool.price[s]]
<1>3. value \in [Side -> Nat]
  <2>1. ASSUME NEW s \in Side PROVE held[s] * pool.price[s] \in Nat
    <3>1. held[s] \in Nat /\ pool.price[s] \in Nat
        BY DEF TypeOK
    <3> QED
        BY <3>1, NoProductIsNegative
  <2> QED
      BY <2>1
<1>4. HeldValue \in Nat
  <2> HIDE DEF value
  <2>1. SumFunction(value) \in Nat
      BY <1>3, SideIsFinite, SumNat
  <2> QED
      BY <2>1 DEF HeldValue, value
<1>5. HeldShares \in Nat
  <2>1. held \in [Side -> Nat]
      BY DEF TypeOK
  <2> QED
      BY <2>1, SideIsFinite, SumNat DEF HeldShares
<1> QED
    BY <1>1, <1>2, <1>4, <1>5 DEF Money, SharesLeft, Min2, Max2

LEMMA LotIsNat == ASSUME TypeOK, NEW price \in Nat, price > 0 PROVE Lot(price) \in Nat
<1>1. balance \in Nat /\ template \in Template /\ MinSize \in Nat
    BY WorldAssumption, NumbersAssumption DEF TypeOK
<1>2. template.custom \in Nat /\ template.lot \in Nat
    BY <1>1 DEF Template
<1>3. \A cash \in Nat : cash \div price \in Nat
    OBVIOUS
<1>4. OrderSize(template, price, balance) \in Nat
    BY <1>1, <1>2, <1>3 DEF OrderSize, Min2
<1> QED
    BY <1>1, <1>2, <1>4 DEF Lot

\* A capped order fits the money and the shares, or there is none.
LEMMA CappedFits ==
    ASSUME TypeOK, NEW price \in Nat, NEW money \in Nat, NEW shares \in Nat,
           NEW c, c = Capped(price, money, shares)
    PROVE  /\ c.shares \in Nat /\ c.shares <= shares
           /\ c.price * c.shares \in Nat /\ c.price * c.shares <= money
           /\ c.price = 0 \/ c.price = price
           /\ c.price > 0 => c.shares >= MinSize
<1> DEFINE n == Min2(Lot(price), Min2(money \div price, shares))
<1>1. CASE price = 0 \/ n < MinSize
  <2>1. c = [price |-> 0, shares |-> 0]
      BY <1>1 DEF Capped, Unpriced
  <2> QED
      BY <2>1
<1>2. CASE price > 0 /\ ~(n < MinSize)
  <2>1. c = [price |-> price, shares |-> n]
      BY <1>2 DEF Capped
  <2>2. Lot(price) \in Nat /\ money \div price \in Nat
      BY <1>2, LotIsNat
  <2>3. n \in Nat /\ n <= shares /\ n <= money \div price
      BY <2>2 DEF Min2
  <2> HIDE DEF n
  <2>4. price * n \in Nat /\ price * n <= money
      BY <1>2, <2>3, Affordable
  <2> QED
      BY <1>2, <2>1, <2>3, <2>4, NumbersAssumption
<1> QED
    BY <1>1, <1>2

\* Both sides together fit.
LEMMA LaddersFit ==
    ASSUME TypeOK, NEW prices \in [Side -> Nat], NEW t, t = Ladders(prices)
    PROVE  /\ DOMAIN t = Side
           /\ \A s \in Side : /\ t[s].price = 0 \/ t[s].price = prices[s]
                              /\ t[s].price > 0 => t[s].shares >= MinSize
                              /\ t[s].shares \in Nat
                              /\ t[s].price * t[s].shares \in Nat
           /\ t["a"].shares + t["b"].shares <= SharesLeft
           /\ t["a"].price * t["a"].shares + t["b"].price * t["b"].shares <= Money
<1> DEFINE first == Capped(prices["a"], Money, SharesLeft)
           money == Money - first.price * first.shares
           left == SharesLeft - first.shares
           second == Capped(prices["b"], money, left)
<1>1. "a" \in Side /\ "b" \in Side /\ "a" # "b" /\ \A s \in Side : s = "a" \/ s = "b"
    BY DEF Side
<1>2. t = [s \in Side |-> IF s = "a" THEN first
                          ELSE Capped(prices[s], Money - first.price * first.shares,
                                      SharesLeft - first.shares)]
    BY DEF Ladders
<1>3. DOMAIN t = Side /\ t["a"] = first /\ t["b"] = second
    BY <1>1, <1>2
<1>4. prices["a"] \in Nat /\ prices["b"] \in Nat /\ Money \in Nat /\ SharesLeft \in Nat
    BY <1>1, BudgetIsNat
<1>5. /\ first.shares \in Nat /\ first.shares <= SharesLeft
      /\ first.price * first.shares \in Nat /\ first.price * first.shares <= Money
      /\ first.price = 0 \/ first.price = prices["a"]
      /\ first.price > 0 => first.shares >= MinSize
    BY <1>4, CappedFits
<1> HIDE DEF first
<1>6. money \in Nat /\ left \in Nat
    BY <1>4, <1>5
<1> HIDE DEF money, left
<1>7. /\ second.shares \in Nat /\ second.shares <= left
      /\ second.price * second.shares \in Nat
      /\ second.price * second.shares <= money
      /\ second.price = 0 \/ second.price = prices["b"]
      /\ second.price > 0 => second.shares >= MinSize
    BY <1>4, <1>6, CappedFits
<1> HIDE DEF second
<1> USE DEF money, left
<1>8. t["a"].shares + t["b"].shares <= SharesLeft
    BY <1>3, <1>4, <1>5, <1>7
<1>9. t["a"].price * t["a"].shares + t["b"].price * t["b"].shares <= Money
    BY <1>3, <1>4, <1>5, <1>7
<1> QED
    BY <1>1, <1>3, <1>5, <1>7, <1>8, <1>9

\* A buy that rests afterwards is at the target: a kept one or a new one.
LEMMA ConvergeTyped ==
    ASSUME TypeOK, NEW s \in Side, NEW target, NEW m, m = Converge(s, target),
           target.price = 0 \/ target.price \in Levels,
           target.shares \in Nat, target.price > 0 => target.shares >= MinSize
    PROVE  /\ m \in Order \cup {NoOrder}
           /\ m.left > 0 => /\ target.price > 0 /\ m.price = target.price /\ m.left \in Nat
                            /\ \/ m = mine[s] /\ Near(m.left, target.shares)
                               \/ m.left = target.shares
<1>1. \A p \in Levels : p \in Nat /\ p > 0
    BY NumbersAssumption
<1>2. CASE /\ mine[s].left > 0 /\ target.price > 0 /\ mine[s].price = target.price
           /\ Near(mine[s].left, target.shares)
  <2>1. m = mine[s]
      BY <1>2 DEF Converge
  <2>2. mine[s] \in Order /\ mine[s].left \in Nat
      BY <1>2, Resting
  <2> QED
      BY <1>2, <2>1, <2>2
<1>3. CASE ~ /\ mine[s].left > 0 /\ target.price > 0 /\ mine[s].price = target.price
             /\ Near(mine[s].left, target.shares)
  <2>1. CASE target.price = 0
    <3>1. m = NoOrder
        BY <1>3, <2>1 DEF Converge
    <3> QED
        BY <3>1 DEF NoOrder
  <2>2. CASE target.price # 0
    <3>1. m = [price |-> target.price, left |-> target.shares, hit |-> FALSE]
        BY <1>3, <2>2 DEF Converge
    <3>2. target.price \in Levels /\ target.price > 0
        BY <1>1, <2>2
    <3>3. target.shares \in Nat \ {0}
        BY <3>2, NumbersAssumption
    <3>4. m \in Order
        BY <3>1, <3>2, <3>3 DEF Order
    <3> QED
        BY <3>1, <3>2, <3>3, <3>4
  <2> QED
      BY <2>1, <2>2
<1> QED
    BY <1>2, <1>3

\* What a round does: targets for the sides it works, within the market's money
\* and shares, each at the price the book of its side gives.
IsTarget(t) ==
    /\ \A s \in Side : /\ t[s].shares \in Nat
                       /\ t[s].price * t[s].shares \in Nat
                       /\ t[s].price > 0 => t[s].shares >= MinSize
                       /\ t[s].price # 0 => /\ s \in round.listed /\ TwoSided(Seen[s])
                                            /\ t[s].price = PriceOn(Seen[s])
                                            /\ t[s].price \in Bids(Seen[s])
                                            /\ InBand(Seen[s], pool.spread, t[s].price)
    /\ t["a"].shares + t["b"].shares <= SharesLeft
    /\ t["a"].price * t["a"].shares + t["b"].price * t["b"].shares <= Money

LEMMA PlaceConverges ==
    ASSUME TypeOK, Place
    PROVE  \E t : /\ IsTarget(t) /\ settled' \subseteq Side
                  /\ mine' = [s \in Side |-> IF s \in settled' THEN Converge(s, t[s]) ELSE mine[s]]
<1> DEFINE sides == {s \in round.listed : TwoSided(Seen[s])}
           free == {s \in sides : held[s] = 0}
           prices == [s \in Side |-> IF s \in free THEN PriceOn(Seen[s]) ELSE 0]
           t == Ladders(prices)
<1>1. /\ mine' = [s \in Side |-> IF s \in settled' THEN Converge(s, t[s]) ELSE mine[s]]
      /\ settled' = IF Money > 0 /\ SharesLeft > 0 THEN sides ELSE sides \ free
    BY DEF Place
<1>2. round.listed \subseteq Side
    BY DEF TypeOK
<1>3. template \in Template
    BY WorldAssumption DEF TypeOK
<1>4. ASSUME NEW s \in Side, prices[s] # 0
      PROVE  /\ s \in round.listed /\ TwoSided(Seen[s]) /\ prices[s] = PriceOn(Seen[s])
             /\ prices[s] \in Bids(Seen[s]) /\ InBand(Seen[s], pool.spread, prices[s])
             /\ prices[s] \in Nat
  <2>1. s \in free /\ prices[s] = PriceOn(Seen[s])
      BY <1>4
  <2>2. TwoSided(Seen[s]) /\ Seen[s] \in Book /\ s \in round.listed
      BY <2>1, SeenTyped
  <2>3. PriceOn(Seen[s]) \in Bids(Seen[s]) /\ InBand(Seen[s], pool.spread, PriceOn(Seen[s]))
      BY <1>3, <1>4, <2>1, <2>2, PriceIsBid
  <2> QED
      BY <2>1, <2>2, <2>3, BidsAreLevels
<1>5. prices \in [Side -> Nat]
  <2>1. DOMAIN prices = Side /\ prices = [s \in Side |-> prices[s]]
      OBVIOUS
  <2> HIDE DEF prices
  <2> QED
      BY <1>4, <2>1
<1> HIDE DEF prices
<1>6. /\ \A s \in Side : /\ t[s].price = 0 \/ t[s].price = prices[s]
                         /\ t[s].price > 0 => t[s].shares >= MinSize
                         /\ t[s].shares \in Nat
                         /\ t[s].price * t[s].shares \in Nat
      /\ t["a"].shares + t["b"].shares <= SharesLeft
      /\ t["a"].price * t["a"].shares + t["b"].price * t["b"].shares <= Money
    BY <1>5, LaddersFit
<1> HIDE DEF t
<1>7. IsTarget(t)
    BY <1>4, <1>6 DEF IsTarget
<1>8. settled' \subseteq Side
    BY <1>1, <1>2
<1> QED
    BY <1>1, <1>7, <1>8

-----------------------------------------------------------------------------
\* Type correctness

LEMMA ListedIsNat == ASSUME NEW s PROVE Listed(s) \in Nat
BY BestIsHighest DEF Listed

LEMMA InitTypeOK == Init => TypeOK
<1> SUFFICES ASSUME Init PROVE TypeOK
    OBVIOUS
<1>1. live \in Rewards /\ live \in Reward /\ live.spread \in Nat /\ live.rate \in Nat
    BY WorldAssumption DEF Init, Reward
<1>2. pool \in [spread : Nat, rate : Nat, price : [Side -> Nat]]
    BY <1>1, ListedIsNat DEF Init
<1>3. mine \in [Side -> Order \cup {NoOrder}] /\ held \in [Side -> Nat]
    BY DEF Init
<1>4. round \in [at : {"idle", "filtered"}, listed : SUBSET Side, steady : SUBSET Side]
    BY DEF Init, Waiting
<1>5. churn \in 0..Changes + 1 /\ moves \in 0..MaxMoves
    BY NumbersAssumption DEF Init
<1>6. flapped \in BOOLEAN
    BY Zenon DEF Init
<1> QED
    BY <1>1, <1>2, <1>3, <1>4, <1>5, <1>6 DEF Init, TypeOK

\* The parts of the state that steps change.
RoundTyped == round \in [at : {"idle", "filtered"}, listed : SUBSET Side, steady : SUBSET Side]
PoolTyped == pool \in [spread : Nat, rate : Nat, price : [Side -> Nat]]
MineTyped == mine \in [Side -> Order \cup {NoOrder}]
HistoryTyped ==
    /\ settled \subseteq Side /\ stale \subseteq Side
    /\ churn \in 0..Changes + 1 /\ flapped \in BOOLEAN /\ moves \in 0..MaxMoves
OutsideTyped ==
    /\ depth \in [Side -> Books] /\ held \in [Side -> Nat]
    /\ balance \in Balances /\ template \in Templates /\ live \in Rewards

LEMMA TypeParts ==
    /\ TypeOK <=> RoundTyped /\ PoolTyped /\ MineTyped /\ HistoryTyped /\ OutsideTyped
    /\ (TypeOK <=> RoundTyped /\ PoolTyped /\ MineTyped /\ HistoryTyped /\ OutsideTyped)'
BY DEF TypeOK, RoundTyped, PoolTyped, MineTyped, HistoryTyped, OutsideTyped

LEMMA ChurnTyped == ASSUME TypeOK, Churned PROVE churn' \in 0..Changes + 1
BY NumbersAssumption DEF TypeOK, Churned, Min2

LEMMA MovedTyped ==
    ASSUME TypeOK, Moved
    PROVE  RoundTyped' /\ HistoryTyped'
<1>1. RoundTyped'
    BY DEF TypeOK, Moved, RoundTyped
<1>2. settled' \subseteq Side /\ stale' \subseteq Side /\ churn' \in 0..Changes + 1
      /\ moves' \in 0..MaxMoves
    BY NumbersAssumption DEF TypeOK, Moved
<1>3. flapped' \in BOOLEAN
    BY Zenon DEF Moved
<1> QED
    BY <1>1, <1>2, <1>3 DEF HistoryTyped

LEMMA NextTypeOK == TypeOK /\ [Next]_vars => TypeOK'
<1> SUFFICES ASSUME TypeOK, [Next]_vars PROVE TypeOK'
    OBVIOUS
<1>1. RoundTyped /\ PoolTyped /\ MineTyped /\ HistoryTyped /\ OutsideTyped
    BY TypeParts
<1>2. CASE Filter
  <2>1. RoundTyped'
      BY <1>1, <1>2 DEF Filter, RoundTyped
  <2>2. PoolTyped' /\ MineTyped' /\ HistoryTyped' /\ OutsideTyped'
      BY <1>1, <1>2 DEF Filter, PoolTyped, MineTyped, HistoryTyped, OutsideTyped
  <2> QED
      BY <2>1, <2>2, TypeParts
<1>3. CASE Dropout
  <2>1. RoundTyped' /\ MineTyped'
      BY <1>3 DEF Dropout, RoundTyped, MineTyped, Waiting
  <2>2. HistoryTyped'
      BY <1>1, <1>3, ChurnTyped DEF Dropout, HistoryTyped
  <2>3. PoolTyped' /\ OutsideTyped'
      BY <1>1, <1>3 DEF Dropout, PoolTyped, OutsideTyped
  <2> QED
      BY <2>1, <2>2, <2>3, TypeParts
<1>4. CASE Place
  <2>1. PICK t : /\ IsTarget(t) /\ settled' \subseteq Side
                 /\ mine' = [s \in Side |-> IF s \in settled' THEN Converge(s, t[s]) ELSE mine[s]]
      BY <1>4, PlaceConverges
  <2>2. ASSUME NEW s \in Side PROVE mine'[s] \in Order \cup {NoOrder}
    <3>1. CASE s \in settled'
      <4>1. t[s].price = 0 \/ t[s].price \in Levels
          BY <2>1, BidsAreLevels DEF IsTarget
      <4>2. t[s].shares \in Nat /\ (t[s].price > 0 => t[s].shares >= MinSize)
          BY <2>1 DEF IsTarget
      <4> QED
          BY <2>1, <3>1, <4>1, <4>2, ConvergeTyped
    <3>2. CASE s \notin settled'
        BY <1>1, <2>1, <3>2 DEF MineTyped
    <3> QED
        BY <3>1, <3>2
  <2>3. MineTyped'
      BY <2>1, <2>2 DEF MineTyped
  <2>4. HistoryTyped'
    <3>1. stale' \subseteq Side /\ moves' = moves /\ flapped' = flapped /\ Churned
        BY <1>4 DEF Place
    <3> QED
        BY <1>1, <2>1, <3>1, ChurnTyped DEF HistoryTyped
  <2>5. RoundTyped'
      BY <1>4 DEF Place, RoundTyped, Waiting
  <2>6. PoolTyped' /\ OutsideTyped'
      BY <1>1, <1>4 DEF Place, PoolTyped, OutsideTyped
  <2> QED
      BY <2>3, <2>4, <2>5, <2>6, TypeParts
<1>5. ASSUME NEW s \in Side, Comply(s) PROVE TypeOK'
  <2>1. PICK heard \in {live, Nothing}, verdict \in {"spread", "reward", "price", "band", "cliff", "gap"} :
            /\ verdict = "reward" => heard.rate >= 0
            /\ pool' = WritesBack(heard, verdict)
    <3>1. PICK heard \in {live, Nothing} :
              \E verdict \in {Verdict(Seen[s], mine[s].price, heard)} \ {"keep", "skip"} :
                 pool' = WritesBack(heard, verdict)
        BY <1>5 DEF Comply
    <3>2. Verdict(Seen[s], mine[s].price, heard)
            \in {"spread", "reward", "skip", "price", "band", "cliff", "gap", "keep"}
        BY DEF Verdict
    <3>3. Verdict(Seen[s], mine[s].price, heard) = "reward" => heard.rate >= 0
        BY DEF Verdict
    <3> QED
        BY <3>1, <3>2, <3>3
  <2>2. live.rate \in Nat /\ Nothing.rate = -1
      BY <1>1, WorldAssumption DEF OutsideTyped, Reward, Nothing
  <2>3. PoolTyped'
    <3>1. CASE verdict = "reward"
      <4>1. heard.rate \in Nat
          BY <2>1, <2>2, <3>1
      <4> QED
          BY <1>1, <2>1, <3>1, <4>1 DEF WritesBack, PoolTyped
    <3>2. CASE verdict # "reward"
        BY <1>1, <2>1, <3>2 DEF WritesBack, PoolTyped
    <3> QED
        BY <3>1, <3>2
  <2>4. MineTyped' /\ RoundTyped'
      BY <1>1, <1>5 DEF Comply, MineTyped, RoundTyped
  <2>5. HistoryTyped'
    <3>1. settled' \subseteq Side /\ stale' = stale /\ moves' = moves /\ Churned
        BY <1>1, <1>5 DEF Comply, HistoryTyped
    <3>2. \E b, v : flapped' = (flapped \/ (v \in {"price", "gap"} /\ Unasked(b, mine[s].price)))
        BY <1>5 DEF Comply
    <3>3. flapped' \in BOOLEAN
        BY <3>2, Zenon
    <3> QED
        BY <1>1, <3>1, <3>3, ChurnTyped DEF HistoryTyped
  <2>6. OutsideTyped'
      BY <1>1, <1>5 DEF Comply, OutsideTyped
  <2> QED
      BY <2>3, <2>4, <2>5, <2>6, TypeParts
<1>6. CASE Scan
  <2>1. PoolTyped'
    <3>1. live.spread \in Nat /\ live.rate \in Nat
        BY <1>1, WorldAssumption DEF OutsideTyped, Reward
    <3>2. [s \in Side |-> Listed(s)] \in [Side -> Nat]
        BY ListedIsNat
    <3> QED
        BY <1>6, <3>1, <3>2 DEF Scan, PoolTyped
  <2>2. RoundTyped' /\ MineTyped' /\ OutsideTyped'
      BY <1>1, <1>6 DEF Scan, RoundTyped, MineTyped, OutsideTyped
  <2>3. HistoryTyped'
    <3>1. settled' \subseteq Side /\ stale' \subseteq Side /\ churn' \in 0..Changes + 1
          /\ moves' \in 0..MaxMoves
        BY <1>1, <1>6, NumbersAssumption DEF Scan, HistoryTyped
    <3>2. flapped' \in BOOLEAN
        BY <1>6, Zenon DEF Scan
    <3> QED
        BY <3>1, <3>2 DEF HistoryTyped
  <2> QED
      BY <2>1, <2>2, <2>3, TypeParts
<1>7. CASE RewardMoves \/ BalanceMoves \/ EditTemplate \/ \E s \in Side : BookMoves(s) \/ Exit(s)
  <2>1. Moved
      BY <1>7 DEF RewardMoves, BalanceMoves, EditTemplate, BookMoves, Exit
  <2>2. PoolTyped' /\ MineTyped' /\ OutsideTyped'
    <3>1. CASE RewardMoves \/ BalanceMoves \/ EditTemplate
        BY <1>1, <3>1 DEF RewardMoves, BalanceMoves, EditTemplate, PoolTyped, MineTyped, OutsideTyped
    <3>2. CASE \E s \in Side : BookMoves(s) \/ Exit(s)
        BY <1>1, <3>2 DEF BookMoves, Exit, PoolTyped, MineTyped, OutsideTyped
    <3> QED
        BY <1>7, <3>1, <3>2
  <2> QED
      BY <2>1, <2>2, MovedTyped, TypeParts
<1>8. ASSUME NEW s \in Side, NEW n \in 1..mine[s].left, Fill(s, n) PROVE TypeOK'
  <2>1. Moved /\ pool' = pool
      BY <1>8 DEF Fill
  <2>2. mine[s] \in Order /\ mine[s].left \in Nat
      BY <1>8, Resting
  <2>3. MineTyped'
    <3>1. CASE mine[s].left = n
        BY <1>1, <1>8, <3>1 DEF Fill, MineTyped
    <3>2. CASE mine[s].left # n
      <4>1. mine[s].left - n \in Nat \ {0}
          BY <1>8, <2>2, <3>2
      <4> DEFINE filled == [mine[s] EXCEPT !.left = @ - n, !.hit = TRUE]
      <4>2. filled \in Order
          BY <2>2, <4>1 DEF Order
      <4>3. mine' = [mine EXCEPT ![s] = filled]
          BY <1>8, <3>2 DEF Fill
      <4> HIDE DEF filled
      <4> QED
          BY <1>1, <4>2, <4>3 DEF MineTyped
    <3> QED
        BY <3>1, <3>2
  <2>4. OutsideTyped'
    <3>1. held[s] + n \in Nat
        BY <1>1, <1>8, <2>2 DEF OutsideTyped
    <3> QED
        BY <1>1, <1>8, <3>1 DEF Fill, OutsideTyped
  <2>5. PoolTyped'
      BY <1>1, <2>1 DEF PoolTyped
  <2> QED
      BY <2>1, <2>3, <2>4, <2>5, MovedTyped, TypeParts
<1>9. CASE UNCHANGED vars
    BY <1>9 DEF vars, TypeOK
<1> QED
    BY <1>2, <1>3, <1>4, <1>5, <1>6, <1>7, <1>8, <1>9 DEF Next, World

\* TypeOK holds of every run: a price is always a level of the book or none at
\* all, and no size, share count or balance goes below zero.
THEOREM TypeCorrect == Spec => []TypeOK
BY InitTypeOK, NextTypeOK, PTL DEF Spec

-----------------------------------------------------------------------------
\* The reason recorded

LEMMA ReasonFromTypes == TypeOK => ReasonNamesWall
<1> SUFFICES ASSUME TypeOK, NEW s \in Side,
                    template.mode = "legacy_wall", TwoSided(Seen[s])
             PROVE  LET b == Seen[s]
                        hit == Hit(template, b, pool.spread)
                        price == DetermineOrderPrice(template, b, pool.spread)
                    IN  IF price > 0 THEN hit > price /\ Next1(b, hit) = price
                        ELSE hit > 0 => \/ Rest(b, pool.spread, Next1(b, hit)) = 0
                                        \/ Next1(b, hit) < Lowest(b, pool.spread)
    BY DEF ReasonNamesWall
<1> DEFINE b == Seen[s]
           hit == Hit(template, b, pool.spread)
           price == DetermineOrderPrice(template, b, pool.spread)
<1>1. template \in Template /\ b \in Book /\ Bids(b) # {}
    BY WorldAssumption, SeenTyped DEF TypeOK, TwoSided
<1>2. \/ price = 0 /\ \/ hit = 0
                      \/ Rest(b, pool.spread, Next1(b, hit)) = 0
                      \/ Next1(b, hit) < Lowest(b, pool.spread)
      \/ price = Rest(b, pool.spread, Next1(b, hit)) /\ hit \in Bids(b)
    BY <1>1, PriceIsBelowHit
<1>3. CASE price > 0
  <2>1. price = Rest(b, pool.spread, Next1(b, hit)) /\ price # 0 /\ hit \in Bids(b)
      BY <1>2, <1>3
  <2>2. price = Next1(b, hit)
      BY <2>1, RestFits
  <2>3. price < hit /\ price \in Bids(b)
      BY <2>1, <2>2, NextIsBelow
  <2>4. price \in Nat /\ hit \in Nat
      BY <2>1, <2>3, BidsAreLevels
  <2> QED
      BY <1>3, <2>2, <2>3, <2>4
<1>4. CASE ~(price > 0)
  <2>1. price = Rest(b, pool.spread, Next1(b, hit)) => price = 0
      BY <1>4, RestFits
  <2>2. \/ ~(hit > 0)
        \/ Rest(b, pool.spread, Next1(b, hit)) = 0
        \/ Next1(b, hit) < Lowest(b, pool.spread)
    <3> HIDE DEF price, hit, b
    <3> QED
        BY <1>2, <2>1
  <2> QED
      BY <1>4, <2>2
<1> QED
    BY <1>3, <1>4

\* The level an outcome of legacy_wall is recorded with is the wall its price was
\* put under, whatever the book, the own buy in it, and the settings.
THEOREM ReasonIsTheWall == Spec => []ReasonNamesWall
BY TypeCorrect, ReasonFromTypes, PTL

-----------------------------------------------------------------------------
\* The market's budget

Slack(s) == Max2(1, (Tolerance * mine[s].left) \div 90)

LEMMA ToleranceIs == Tolerance = 1 \/ Tolerance = 10
BY DEF Tolerance

\* What is kept is above its target by no more than the slack.
LEMMA KeptIsNear ==
    ASSUME NEW left \in Nat, NEW n \in Nat, left = n \/ Near(left, n)
    PROVE  left - Max2(1, (Tolerance * left) \div 90) <= n
<1>1. CASE left <= n
  <2>1. (Tolerance * left) \div 90 \in Int
    <3>1. CASE Tolerance = 1
        BY <3>1
    <3>2. CASE Tolerance = 10
        BY <3>2
    <3> QED
        BY <3>1, <3>2, ToleranceIs
  <2> QED
      BY <1>1, <2>1 DEF Max2
<1>2. CASE left > n
  <2>1. 100 * (left - n) <= Max2(100, Tolerance * n)
      BY <1>2, ToleranceIs DEF Near, Max2
  <2>2. CASE Tolerance = 1
    <3>1. left - n <= 1 \/ 100 * (left - n) <= n
        BY <1>2, <2>1, <2>2 DEF Max2
    <3>2. left - n <= 1 \/ left - n <= left \div 90
        BY <1>2, <3>1
    <3> QED
        BY <2>2, <3>2 DEF Max2
  <2>3. CASE Tolerance = 10
    <3>1. left - n <= 1 \/ 100 * (left - n) <= 10 * n
        BY <1>2, <2>1, <2>3 DEF Max2
    <3>2. left - n <= 1 \/ left - n <= (10 * left) \div 90
        BY <1>2, <3>1
    <3> QED
        BY <2>3, <3>2 DEF Max2
  <2> QED
      BY <2>2, <2>3, ToleranceIs
<1> QED
    BY <1>1, <1>2

\* A sum over some of the two sides.
LEMMA SumOfSides ==
    ASSUME NEW K \in SUBSET Side, NEW f \in [K -> Int], NEW x \in Nat, NEW y \in Nat,
           "a" \in K => f["a"] <= x, "b" \in K => f["b"] <= y
    PROVE  SumFunction(f) \in Int /\ SumFunction(f) <= x + y
<1> DEFINE g == [s \in Side |-> IF s = "a" THEN x ELSE y]
<1>1. g \in [Side -> Int] /\ g \in [Side -> Nat] /\ g["a"] = x /\ g["b"] = y
    BY DEF Side
<1>2. \A s \in K : f[s] <= g[s]
    BY DEF Side
<1> HIDE DEF g
<1> DEFINE k == [s \in K |-> g[s]]
<1>3. k \in [K -> Int] /\ \A s \in K : f[s] <= k[s]
    BY <1>1, <1>2
<1>4. IsFiniteSet(K)
    BY SideIsFinite, FS_Subset
<1>5. SumOn(g, K) \in Nat /\ SumOn(g, K) <= SumFunction(g)
    BY <1>1, SideIsFinite, SumPart
<1>6. SumFunction(f) <= SumFunction(k) /\ SumFunction(f) \in Int
  <2> HIDE DEF k
  <2> QED
      BY <1>3, <1>4, SumLeq, SumInt
<1>7. SumFunction(g) = x + y
  <2>1. {} \in SUBSET Side /\ {"a"} \in SUBSET Side /\ "b" \notin {"a"} /\ "a" \notin {}
      BY DEF Side
  <2>2. SumOn(g, {} \union {"a"}) = g["a"] + SumOn(g, {})
      BY <1>1, <2>1, SideIsFinite, SumInsert
  <2>3. SumOn(g, {"a"} \union {"b"}) = g["b"] + SumOn(g, {"a"})
      BY <1>1, <2>1, SideIsFinite, SumInsert
  <2>4. {} \union {"a"} = {"a"} /\ {"a"} \union {"b"} = Side
      BY DEF Side
  <2>5. SumOn(g, Side) = SumFunction(g) /\ SumOn(g, {}) = 0
      BY <1>1, SumAll, SumOnEmpty
  <2> QED
      BY <1>1, <2>2, <2>3, <2>4, <2>5
<1>8. SumFunction(k) \in Int /\ SumFunction(k) = SumOn(g, K)
    BY <1>5 DEF SumOn
<1> QED
    BY <1>5, <1>6, <1>7, <1>8

\* A round that has reconciled both sides leaves what their targets allow.
LEMMA PlaceWithinBudget == TypeOK /\ Place => WithinBudget'
<1> SUFFICES ASSUME TypeOK, Place, settled' = Side
             PROVE  LET kept == {s \in Side : mine'[s].left > 0}
                    IN  /\ SumFunction([s \in kept |-> mine'[s].left - Slack(s)']) <= SharesLeft'
                        /\ SumFunction([s \in kept |-> mine'[s].price * (mine'[s].left - Slack(s)')])
                              <= Money'
    BY DEF WithinBudget, Slack
<1>1. PICK t : /\ IsTarget(t)
               /\ mine' = [s \in Side |-> IF s \in settled' THEN Converge(s, t[s]) ELSE mine[s]]
    BY PlaceConverges
<1>2. Money' = Money /\ SharesLeft' = SharesLeft /\ Tolerance' = Tolerance
    BY DEF Place, Money, SharesLeft, HeldValue, HeldShares, Tolerance
<1> DEFINE kept == {s \in Side : mine'[s].left > 0}
<1>3. ASSUME NEW s \in kept
      PROVE  /\ mine'[s].left - Slack(s)' \in Int /\ mine'[s].left - Slack(s)' <= t[s].shares
             /\ mine'[s].price * (mine'[s].left - Slack(s)') \in Int
             /\ mine'[s].price * (mine'[s].left - Slack(s)') <= t[s].price * t[s].shares
  <2>1. /\ t[s].price = 0 \/ t[s].price \in Levels
        /\ t[s].shares \in Nat /\ (t[s].price > 0 => t[s].shares >= MinSize)
      BY <1>1, BidsAreLevels DEF IsTarget
  <2>2. mine'[s] = Converge(s, t[s])
      BY <1>1
  <2>3. /\ mine'[s].price = t[s].price /\ t[s].price > 0 /\ mine'[s].left \in Nat
        /\ Near(mine'[s].left, t[s].shares) \/ mine'[s].left = t[s].shares
      BY <2>1, <2>2, ConvergeTyped
  <2>4. mine'[s].left - Max2(1, (Tolerance * mine'[s].left) \div 90) <= t[s].shares
      BY <2>1, <2>3, KeptIsNear
  <2>5. Slack(s)' = Max2(1, (Tolerance * mine'[s].left) \div 90)
      BY <1>2 DEF Slack, Max2
  <2>6. (Tolerance * mine'[s].left) \div 90 \in Int
    <3>1. CASE Tolerance = 1
        BY <2>3, <3>1
    <3>2. CASE Tolerance = 10
        BY <2>3, <3>2
    <3> QED
        BY <3>1, <3>2, ToleranceIs
  <2>7. Slack(s)' \in Int
      BY <2>5, <2>6 DEF Max2
  <2> DEFINE d == mine'[s].left - Slack(s)'
  <2>8. d \in Int /\ d <= t[s].shares
      BY <2>3, <2>4, <2>5, <2>7
  <2> HIDE DEF d
  <2>9. t[s].price \in Nat
      BY <2>1, BidsAreLevels
  <2>10. t[s].price * d \in Int /\ t[s].price * d <= t[s].price * t[s].shares
      BY <2>1, <2>8, <2>9
  <2> QED
      BY <2>3, <2>8, <2>10 DEF d
<1> DEFINE shares == [s \in kept |-> mine'[s].left - Slack(s)']
           costs == [s \in kept |-> mine'[s].price * (mine'[s].left - Slack(s)')]
<1>4. /\ \A s \in Side : t[s].shares \in Nat /\ t[s].price * t[s].shares \in Nat
      /\ t["a"].shares + t["b"].shares <= SharesLeft
      /\ t["a"].price * t["a"].shares + t["b"].price * t["b"].shares <= Money
    BY <1>1 DEF IsTarget
<1>5. kept \in SUBSET Side /\ "a" \in Side /\ "b" \in Side
    BY SideIsFinite
<1>6. /\ shares \in [kept -> Int] /\ \A s \in kept : shares[s] <= t[s].shares
      /\ costs \in [kept -> Int] /\ \A s \in kept : costs[s] <= t[s].price * t[s].shares
    BY <1>3
<1>7. Money \in Nat /\ SharesLeft \in Nat
    BY BudgetIsNat
<1> HIDE DEF shares, costs, kept
<1>8. SumFunction(shares) <= SharesLeft
  <2>1. SumFunction(shares) \in Int /\ SumFunction(shares) <= t["a"].shares + t["b"].shares
      BY <1>4, <1>5, <1>6, SumOfSides
  <2> QED
      BY <1>4, <1>5, <1>7, <2>1
<1>9. SumFunction(costs) <= Money
  <2>1. /\ SumFunction(costs) \in Int
        /\ SumFunction(costs) <= t["a"].price * t["a"].shares + t["b"].price * t["b"].shares
      BY <1>4, <1>5, <1>6, SumOfSides
  <2>2. t["a"].price * t["a"].shares \in Nat /\ t["b"].price * t["b"].shares \in Nat
      BY <1>4, <1>5
  <2> QED
      BY <1>4, <1>7, <2>1, <2>2
<1> QED
    BY <1>2, <1>8, <1>9 DEF shares, costs, kept

\* Other steps leave the two sides and the budget alone, or the round is history.
LEMMA NextWithinBudget == TypeOK /\ WithinBudget /\ [Next]_vars => WithinBudget'
<1> SUFFICES ASSUME TypeOK, WithinBudget, [Next]_vars PROVE WithinBudget'
    OBVIOUS
<1>1. CASE Place
    BY <1>1, PlaceWithinBudget
<1>2. CASE Dropout \/ Scan \/ World
  <2>1. settled' = {}
      BY <1>2 DEF Dropout, Scan, World, RewardMoves, BalanceMoves, EditTemplate, BookMoves, Exit,
                  Fill, Moved
  <2>2. settled' # Side
      BY <2>1, SideIsFinite
  <2> QED
      BY <2>2 DEF WithinBudget
<1>3. ASSUME NEW s \in Side, Comply(s) PROVE WithinBudget'
  <2>1. s \notin settled'
      BY <1>3 DEF Comply
  <2> QED
      BY <2>1 DEF WithinBudget
<1>4. CASE Filter \/ UNCHANGED vars
  <2>1. /\ mine' = mine /\ settled' = settled /\ held' = held /\ balance' = balance
        /\ template' = template /\ pool' = pool
      BY <1>4 DEF Filter, vars
  <2>2. Money' = Money /\ SharesLeft' = SharesLeft /\ Tolerance' = Tolerance
      BY <2>1 DEF Money, SharesLeft, HeldValue, HeldShares, Tolerance
  <2> QED
      BY <2>1, <2>2 DEF WithinBudget
<1> QED
    BY <1>1, <1>2, <1>3, <1>4 DEF Next

LEMMA InitWithinBudget == Init => WithinBudget
BY SideIsFinite DEF Init, WithinBudget

\* After a round on both sides, and until something moves, the resting buys cost no
\* more than the market's money less what is held, and hold no more shares, but for
\* the tolerance of a kept buy: the second side is never given the first one's share.
THEOREM BudgetHolds == Spec => []WithinBudget
BY TypeCorrect, InitWithinBudget, NextWithinBudget, PTL DEF Spec

-----------------------------------------------------------------------------
\* The two judges

\* A side that is still listed by its round, in a book that has not moved since, is
\* as eligible when the round prices it as when the round filtered it.
FilterHolds ==
    round.at = "filtered" => \A s \in round.listed \cap round.steady : Eligible(Seen[s], s)

\* What the judges read of a book: its bids, the best of them and the best ask.
LEMMA SameBook ==
    ASSUME NEW b, NEW c, Bids(c) = Bids(b), c.ask = b.ask
    PROVE  /\ Best(c) = Best(b) /\ TwoSided(c) = TwoSided(b)
           /\ \A spread, p : InBand(c, spread, p) = InBand(b, spread, p)
           /\ \A spread, cents : CliffBelow(c, spread, cents) = CliffBelow(b, spread, cents)
           /\ \A t : Vetoed(t, c) = Vetoed(t, b)
<1>1. Best(c) = Best(b) /\ TwoSided(c) = TwoSided(b)
    BY DEF Best, TwoSided
<1>2. \A spread, p : InBand(c, spread, p) = InBand(b, spread, p)
    BY <1>1 DEF InBand
<1>3. \A spread, cents : CliffBelow(c, spread, cents) = CliffBelow(b, spread, cents)
    BY <1>1 DEF CliffBelow
<1>4. \A p : Gap(c, p) = Gap(b, p)
    BY DEF Gap, Next1, Below
<1>5. MaxGap(c) = MaxGap(b)
    BY <1>4 DEF MaxGap
<1>6. \A t : Vetoed(t, c) = Vetoed(t, b)
    BY <1>5 DEF Vetoed
<1> QED
    BY <1>1, <1>2, <1>3, <1>6

\* A buy at a price that is bid already leaves them as they are.
LEMMA BuyAtABid ==
    ASSUME TypeOK, TypeOK', NEW s \in Side, depth' = depth,
           mine'[s] = mine[s] \/ /\ mine[s].left = 0
                                 /\ mine'[s].left > 0 => mine'[s].price \in Bids(Seen[s])
    PROVE  Bids(Seen'[s]) = Bids(Seen[s]) /\ Seen'[s].ask = Seen[s].ask
<1> DEFINE own(m, p) == IF m.left > 0 /\ m.price = p THEN 2 * m.left ELSE 0
<1>1. /\ Seen[s].ask = depth[s].ask
      /\ \A p \in Levels : Seen[s].bid[p] = depth[s].bid[p] + own(mine[s], p)
    BY SeenTyped
<1>2. /\ Seen'[s].ask = depth'[s].ask
      /\ \A p \in Levels : Seen'[s].bid[p] = depth'[s].bid[p] + own(mine'[s], p)
  <2> DEFINE shown == [p \in Levels |-> depth'[s].bid[p] +
                 (IF mine'[s].left > 0 /\ mine'[s].price = p THEN 2 * mine'[s].left ELSE 0)]
  <2>1. depth'[s] \in Book /\ mine'[s] \in Order \cup {NoOrder}
      BY WorldAssumption DEF TypeOK
  <2>2. Seen'[s] = [depth'[s] EXCEPT !.bid = shown]
      BY DEF Seen
  <2>3. Seen'[s].ask = depth'[s].ask /\ Seen'[s].bid = shown
    <3>1. shown = [p \in Levels |-> depth'[s].bid[p] +
                 (IF mine'[s].left > 0 /\ mine'[s].price = p THEN 2 * mine'[s].left ELSE 0)]
        OBVIOUS
    <3> HIDE DEF shown
    <3> QED
        BY <2>1, <2>2, <3>1, ShownTyped
  <2> QED
      BY <2>3
<1>3. \A p \in Levels : depth[s].bid[p] \in Nat
    BY WorldAssumption DEF TypeOK, Book
<1>4. ASSUME NEW p \in Levels PROVE Seen'[s].bid[p] > 0 <=> Seen[s].bid[p] > 0
  <2>1. CASE mine'[s] = mine[s]
      BY <1>1, <1>2, <2>1
  <2>2. CASE /\ mine[s].left = 0
             /\ mine'[s].left > 0 => mine'[s].price \in Bids(Seen[s])
    <3>1. Seen[s].bid[p] = depth[s].bid[p]
        BY <1>1, <1>3, <2>2
    <3>2. CASE mine'[s].left > 0 /\ mine'[s].price = p
      <4>1. Seen[s].bid[p] > 0
          BY <2>2, <3>2 DEF Bids
      <4>2. Seen'[s].bid[p] = depth[s].bid[p] + 2 * mine'[s].left /\ mine'[s].left \in Nat
        <5>1. mine'[s] \in Order \cup {NoOrder}
            BY DEF TypeOK
        <5> QED
            BY <1>2, <3>2, <5>1 DEF Order, NoOrder
      <4> QED
          BY <1>3, <3>1, <4>1, <4>2
    <3>3. CASE ~(mine'[s].left > 0 /\ mine'[s].price = p)
        BY <1>2, <1>3, <3>1, <3>3
    <3> QED
        BY <3>2, <3>3
  <2> QED
      BY <2>1, <2>2
<1>5. Bids(Seen'[s]) = Bids(Seen[s])
    BY <1>4 DEF Bids
<1> QED
    BY <1>1, <1>2, <1>5

\* Step 3 finds nothing to object to in a buy at the price of an eligible book, but
\* what rounds do not ask.
LEMMA RoundsAgree ==
    ASSUME TypeOK, NEW s \in Side, Eligible(Seen[s], s),
           NEW b, Bids(b) = Bids(Seen[s]), b.ask = Seen[s].ask,
           NEW price, price = PriceOn(Seen[s]), price # 0,
           NEW heard, heard.spread = pool.spread, heard.rate = pool.rate
    PROVE  \/ Verdict(b, price, heard) \in {"keep", "skip"}
           \/ Verdict(b, price, heard) \in {"price", "gap"} /\ Unasked(b, price)
<1> DEFINE seen == Seen[s]
<1>1. /\ pool.rate >= template.reward /\ TwoSided(seen)
      /\ Max2(0, seen.ask - Best(seen)) < template.spread * PerCent
      /\ Best(seen) <= template.high * PerCent
    BY DEF Eligible, Wanted, Priced
<1>2. seen \in Book /\ template \in Template /\ pool.rate \in Nat
    BY WorldAssumption, SeenTyped DEF TypeOK
<1>3. price \in Bids(seen) /\ InBand(seen, pool.spread, price)
    BY <1>1, <1>2, PriceIsBid
<1>4. /\ Best(b) = Best(seen) /\ TwoSided(b) /\ b.ask = seen.ask
      /\ InBand(b, pool.spread, price)
      /\ CliffBelow(b, pool.spread, template.cliff) = CliffBelow(seen, pool.spread, template.cliff)
      /\ Vetoed(template, b) = Vetoed(template, seen)
    BY <1>1, <1>3, SameBook
<1>5. /\ Best(seen) \in Nat /\ seen.ask \in Nat /\ template.spread \in Nat /\ template.reward \in Nat
      /\ template.low \in Nat /\ template.high \in Nat /\ price \in Nat /\ price <= Best(seen)
  <2>1. Best(seen) \in Nat /\ price <= Best(seen)
      BY <1>3, BestIsHighest
  <2>2. price \in Nat
      BY <1>3, BidsAreLevels
  <2> QED
      BY <1>2, <2>1, <2>2 DEF Book, Template
<1>6. ~(b.ask - Best(b) >= template.spread * PerCent)
    BY <1>1, <1>4, <1>5 DEF Max2, PerCent
<1>7. ~(heard.rate < template.reward)
    BY <1>1, <1>2, <1>5
<1>8. Priced(price) \/ price < template.low * PerCent
  <2>1. price <= template.high * PerCent
      BY <1>1, <1>5 DEF PerCent
  <2> QED
      BY <1>5, <2>1 DEF Priced, PerCent
<1>9. ~CliffBelow(b, pool.spread, template.cliff)
  <2>1. CASE template.mode = "gap_single"
      BY <1>4, <2>1 DEF PriceOn, GapPrice
  <2>2. CASE template.mode # "gap_single"
      BY <1>4, <2>2 DEF PriceOn, LegacyPrice
  <2> QED
      BY <2>1, <2>2
<1>10. ~Vetoed(template, b) \/ template.mode = "legacy_wall"
  <2>1. CASE template.mode = "gap_single"
      BY <1>4, <2>1 DEF PriceOn, GapPrice
  <2> QED
      BY <1>2, <2>1 DEF Template
<1>11. CASE price < template.low * PerCent
  <2>1. Unasked(b, price)
      BY <1>11 DEF Unasked
  <2>2. Verdict(b, price, heard) \in {"price", "skip"}
    <3>1. ~Priced(price)
        BY <1>5, <1>11 DEF Priced, PerCent
    <3> QED
        BY <1>6, <1>7, <3>1 DEF Verdict
  <2> QED
      BY <2>1, <2>2
<1>12. CASE Priced(price) /\ Vetoed(template, b) /\ template.mode = "legacy_wall"
  <2>1. Unasked(b, price)
      BY <1>12 DEF Unasked
  <2>2. Verdict(b, price, heard) \in {"gap", "skip"}
      BY <1>4, <1>6, <1>7, <1>9, <1>12 DEF Verdict
  <2> QED
      BY <2>1, <2>2
<1>13. CASE Priced(price) /\ ~Vetoed(template, b)
    BY <1>4, <1>6, <1>7, <1>9, <1>13 DEF Verdict
<1> QED
    BY <1>8, <1>10, <1>11, <1>12, <1>13

AgreesOn(s) ==
      /\ mine[s].left > 0 /\ ~mine[s].hit
      /\ pool.spread = live.spread /\ pool.rate = live.rate
      /\ ~Unasked(Seen[s], mine[s].price)
    => Verdict(Seen[s], mine[s].price, live) \in {"keep", "skip"}

LEMMA AgreementParts ==
    /\ SameVerdict <=> \A s \in settled \ stale : AgreesOn(s)
    /\ SameVerdict' <=> \A s \in settled' \ stale' : AgreesOn(s)'
BY DEF SameVerdict, AgreesOn

LEMMA PlaceAgrees == TypeOK /\ TypeOK' /\ FilterHolds /\ Place => SameVerdict'
<1> SUFFICES ASSUME TypeOK, TypeOK', FilterHolds, Place, NEW s \in settled' \ stale'
             PROVE  AgreesOn(s)'
    BY AgreementParts
<1> SUFFICES ASSUME mine'[s].left > 0, pool'.spread = live'.spread, pool'.rate = live'.rate,
                    ~Unasked(Seen[s], mine[s].price)'
             PROVE  Verdict(Seen[s], mine[s].price, live)' \in {"keep", "skip"}
    BY DEF AgreesOn
<1>1. PICK t : /\ IsTarget(t) /\ settled' \subseteq Side
               /\ mine' = [z \in Side |-> IF z \in settled' THEN Converge(z, t[z]) ELSE mine[z]]
    BY PlaceConverges
<1>2. s \in Side /\ depth' = depth /\ template' = template /\ pool' = pool /\ live' = live
    BY <1>1 DEF Place
<1>3. s \in round.steady /\ (~(mine[s].left > 0) \/ mine'[s] = mine[s]) /\ round.at = "filtered"
    BY <1>2 DEF Place
<1>4. mine'[s].price = t[s].price /\ t[s].price > 0
  <2>1. /\ t[s].price = 0 \/ t[s].price \in Levels
        /\ t[s].shares \in Nat /\ (t[s].price > 0 => t[s].shares >= MinSize)
      BY <1>1, <1>2, BidsAreLevels DEF IsTarget
  <2>2. mine'[s] = Converge(s, t[s])
      BY <1>1, <1>2
  <2> QED
      BY <1>2, <2>1, <2>2, ConvergeTyped
<1>5. /\ s \in round.listed /\ t[s].price = PriceOn(Seen[s]) /\ t[s].price \in Bids(Seen[s])
    BY <1>1, <1>2, <1>4 DEF IsTarget
<1>6. Eligible(Seen[s], s)
    BY <1>3, <1>5 DEF FilterHolds
<1>7. mine'[s] = mine[s] \/ /\ mine[s].left = 0
                            /\ mine'[s].left > 0 => mine'[s].price \in Bids(Seen[s])
  <2>1. mine[s].left \in Nat
      BY <1>2, Resting
  <2> QED
      BY <1>3, <1>4, <1>5, <2>1
<1>8. Bids(Seen'[s]) = Bids(Seen[s]) /\ Seen'[s].ask = Seen[s].ask
    BY <1>2, <1>7, BuyAtABid
<1>9. ~Unasked(Seen'[s], t[s].price)
    BY <1>2, <1>4 DEF Unasked, Vetoed, MaxGap, Gap, Next1, Below, Bids
<1>10. Verdict(Seen'[s], t[s].price, live) \in {"keep", "skip"}
    BY <1>2, <1>4, <1>5, <1>6, <1>8, <1>9, RoundsAgree
<1>11. Verdict(Seen[s], mine[s].price, live)' = Verdict(Seen'[s], t[s].price, live)
    BY <1>2, <1>4 DEF Verdict, Priced, Vetoed
<1> QED
    BY <1>10, <1>11

\* Step 3's cancel on one side leaves the other side's book alone.
LEMMA OtherSide ==
    ASSUME NEW s \in Side, NEW z \in Side, z # s, Comply(s), mine \in [Side -> Order \cup {NoOrder}]
    PROVE  mine'[z] = mine[z] /\ Seen'[z] = Seen[z]
<1>1. mine'[z] = mine[z] /\ depth' = depth
    BY DEF Comply
<1> QED
    BY <1>1 DEF Seen

LEMMA NextFilterHolds == TypeOK /\ FilterHolds /\ [Next]_vars => FilterHolds'
<1> SUFFICES ASSUME TypeOK, FilterHolds, [Next]_vars PROVE FilterHolds'
    OBVIOUS
<1>1. CASE Filter
  <2>1. Seen' = Seen /\ template' = template /\ pool' = pool
      BY <1>1 DEF Filter, Seen
  <2>2. round'.listed = {s \in Side : Eligible(Seen[s], s)}
      BY <1>1 DEF Filter
  <2>3. \A s : Eligible(Seen[s], s)' <=> Eligible(Seen[s], s)
      BY <2>1 DEF Eligible, Wanted, Priced
  <2> QED
      BY <2>2, <2>3 DEF FilterHolds
<1>2. CASE Dropout \/ Place
  <2>1. round' = Waiting
      BY <1>2 DEF Dropout, Place
  <2> QED
      BY <2>1 DEF FilterHolds, Waiting
<1>3. CASE Scan \/ World
  <2>1. round'.steady = {}
    <3>1. round' = [round EXCEPT !.steady = {}]
        BY <1>3 DEF Scan, World, RewardMoves, BalanceMoves, EditTemplate, BookMoves, Exit, Fill, Moved
    <3> QED
        BY <3>1 DEF TypeOK
  <2> QED
      BY <2>1 DEF FilterHolds
<1>4. ASSUME NEW s \in Side, Comply(s) PROVE FilterHolds'
  <2>1. CASE pool' = pool
    <3>1. round' = [round EXCEPT !.steady = round.steady \ {s}] /\ template' = template
        BY <1>4, <2>1 DEF Comply
    <3>2. /\ round'.listed = round.listed /\ round'.steady = round.steady \ {s}
          /\ round'.at = round.at
        BY <3>1 DEF TypeOK
    <3>3. ASSUME NEW z \in round.listed \cap (round.steady \ {s}), round.at = "filtered"
          PROVE  Eligible(Seen[z], z)'
      <4>1. z \in Side /\ z # s
          BY <3>3 DEF TypeOK
      <4>2. Eligible(Seen[z], z)
          BY <3>3 DEF FilterHolds
      <4>3. Seen'[z] = Seen[z]
          BY <1>4, <4>1, OtherSide DEF TypeOK
      <4> QED
          BY <2>1, <3>1, <4>2, <4>3 DEF Eligible, Wanted, Priced
    <3> QED
        BY <3>2, <3>3 DEF FilterHolds
  <2>2. CASE pool' # pool
    <3>1. round'.steady = {}
        BY <1>4, <2>2 DEF Comply, TypeOK
    <3> QED
        BY <3>1 DEF FilterHolds
  <2> QED
      BY <2>1, <2>2
<1>5. CASE UNCHANGED vars
    BY <1>5 DEF vars, FilterHolds, Eligible, Wanted, Priced, Seen
<1> QED
    BY <1>1, <1>2, <1>3, <1>4, <1>5 DEF Next

LEMMA NextSameVerdict ==
    TypeOK /\ TypeOK' /\ FilterHolds /\ SameVerdict /\ [Next]_vars => SameVerdict'
<1> SUFFICES ASSUME TypeOK, TypeOK', FilterHolds, SameVerdict, [Next]_vars PROVE SameVerdict'
    OBVIOUS
<1>1. CASE Place
    BY <1>1, PlaceAgrees
<1>2. CASE Dropout \/ Scan \/ World
  <2>1. settled' = {}
      BY <1>2 DEF Dropout, Scan, World, RewardMoves, BalanceMoves, EditTemplate, BookMoves, Exit,
                  Fill, Moved
  <2> QED
      BY <2>1, AgreementParts
<1>3. ASSUME NEW s \in Side, Comply(s) PROVE SameVerdict'
  <2>1. CASE pool' = pool
    <3>1. settled' = settled \ {s} /\ stale' = stale /\ template' = template /\ live' = live
        BY <1>3, <2>1 DEF Comply
    <3>2. ASSUME NEW z \in settled' \ stale' PROVE AgreesOn(z)'
      <4>1. z \in Side /\ z # s /\ z \in settled \ stale
          BY <3>1 DEF TypeOK
      <4>2. mine'[z] = mine[z] /\ Seen'[z] = Seen[z]
          BY <1>3, <4>1, OtherSide DEF TypeOK
      <4>3. AgreesOn(z)
          BY <4>1, AgreementParts
      <4> QED
          BY <2>1, <3>1, <4>2, <4>3 DEF AgreesOn, Unasked, Verdict, Priced, Vetoed
    <3> QED
        BY <3>2, AgreementParts
  <2>2. CASE pool' # pool
    <3>1. settled' = {}
        BY <1>3, <2>2 DEF Comply
    <3> QED
        BY <3>1, AgreementParts
  <2> QED
      BY <2>1, <2>2
<1>4. CASE Filter \/ UNCHANGED vars
  <2>1. /\ depth' = depth /\ mine' = mine /\ template' = template /\ pool' = pool
        /\ live' = live /\ settled' = settled /\ stale' = stale
      BY <1>4 DEF Filter, vars
  <2>2. Seen' = Seen
      BY <2>1 DEF Seen
  <2>3. \A s : AgreesOn(s) => AgreesOn(s)'
      BY <2>1, <2>2 DEF AgreesOn, Unasked, Verdict, Priced, Vetoed
  <2> QED
      BY <2>1, <2>3, AgreementParts
<1> QED
    BY <1>1, <1>2, <1>3, <1>4 DEF Next

LEMMA InitSameVerdict == Init => FilterHolds /\ SameVerdict
BY AgreementParts DEF Init, Waiting, FilterHolds

\* Step 3 finds nothing to cancel in a buy that a round has just placed or kept, for
\* any books, rewards and settings, as long as the book is the one the round saw and
\* nothing speaks against the buy that rounds do not ask.
THEOREM JudgesAgree == Spec => []SameVerdict
<1>1. Init => TypeOK /\ FilterHolds /\ SameVerdict
    BY InitTypeOK, InitSameVerdict
<1>2. /\ TypeOK /\ FilterHolds /\ SameVerdict /\ [Next]_vars
      => (TypeOK /\ FilterHolds /\ SameVerdict)'
    BY NextTypeOK, NextFilterHolds, NextSameVerdict
<1> QED
    BY <1>1, <1>2, PTL DEF Spec

-----------------------------------------------------------------------------
\* How an own buy bears on the price of its side

\* Book b is book d with more bid at level p, where something was bid already.
Bumped(b, d, p) ==
    /\ b \in Book /\ d \in Book
    /\ Bids(b) = Bids(d) /\ b.ask = d.ask /\ b.fine = d.fine
    /\ \A q \in Levels : q # p => b.bid[q] = d.bid[q]
    /\ \A q \in Levels : b.bid[q] >= d.bid[q]

LEMMA DivGrows ==
    ASSUME NEW x \in Nat, NEW y \in Nat, x <= y, NEW k \in Nat, k > 0
    PROVE  x \div k \in Nat /\ y \div k \in Nat /\ x \div k <= y \div k
<1>1. x \div k \in Nat /\ k * (x \div k) <= x
    OBVIOUS
<1>2. y \div k \in Nat /\ y < k * ((y \div k) + 1)
    OBVIOUS
<1> DEFINE u == x \div k
           v == y \div k
<1> HIDE DEF u, v
<1>3. u \in Nat /\ v \in Nat /\ k * u <= x /\ y < k * (v + 1)
    BY <1>1, <1>2 DEF u, v
<1>4. ASSUME v + 1 <= u PROVE FALSE
  <2>1. k * (v + 1) <= k * u
      BY <1>3, <1>4
  <2> QED
      BY <1>3, <2>1
<1> QED
    BY <1>3, <1>4 DEF u, v

LEMMA TimesGrows ==
    ASSUME NEW x \in Nat, NEW y \in Nat, x <= y, NEW k \in Nat
    PROVE  x * k \in Nat /\ y * k \in Nat /\ x * k <= y * k
OBVIOUS

LEMMA AmountIsNat == ASSUME NEW t \in Template, NEW p PROVE AmountValue(t, p) \in Nat
<1> DEFINE rows == {r \in t.table : p <= r.upper}
<1>1. CASE rows = {}
    BY <1>1 DEF AmountValue
<1>2. CASE rows # {}
  <2>1. t.table \in SUBSET [upper : Nat, value : Nat]
      BY DEF Template
  <2>2. {r.upper : r \in rows} \in SUBSET Nat /\ {r.upper : r \in rows} # {}
      BY <1>2, <2>1
  <2>3. PICK n \in {r.upper : r \in rows} : \A m \in {r.upper : r \in rows} : n <= m
      BY <2>2, LeastNatural
  <2>4. \E r \in rows : \A q \in rows : r.upper <= q.upper
      BY <2>3
  <2> DEFINE least == CHOOSE r \in rows : \A q \in rows : r.upper <= q.upper
  <2>5. least \in rows
      BY <2>4
  <2>6. AmountValue(t, p) = least.value
      BY <1>2 DEF AmountValue
  <2> HIDE DEF least
  <2> QED
      BY <2>1, <2>5, <2>6
<1> QED
    BY <1>1, <1>2

\* A level's coefficient grows with what is bid there, and on nothing else of the book.
LEMMA CoeffGrows ==
    ASSUME NEW t \in Template, NEW b \in Book, NEW d \in Book, NEW q \in Levels,
           b.bid[q] >= d.bid[q]
    PROVE  /\ Coeff(t, b, q) \in Nat /\ Coeff(t, d, q) \in Nat
           /\ Coeff(t, b, q) >= Coeff(t, d, q)
           /\ b.bid[q] = d.bid[q] => Coeff(t, b, q) = Coeff(t, d, q)
<1> DEFINE v == AmountValue(t, q)
           k == 2 * MinSize * v
<1>1. v \in Nat /\ MinSize \in Nat \ {0} /\ Scale \in Nat
    BY AmountIsNat, NumbersAssumption
<1>2. b.bid[q] \in Nat /\ d.bid[q] \in Nat
    BY DEF Book
<1>3. CASE v = 0
    BY <1>3 DEF Coeff
<1>4. CASE v # 0
  <2>1. /\ Coeff(t, b, q) = (b.bid[q] * Scale) \div k
        /\ Coeff(t, d, q) = (d.bid[q] * Scale) \div k
      BY <1>4 DEF Coeff
  <2> HIDE DEF v
  <2>2. k \in Nat /\ k > 0
      BY <1>1, <1>4
  <2> HIDE DEF k
  <2>3. /\ b.bid[q] * Scale \in Nat /\ d.bid[q] * Scale \in Nat
        /\ d.bid[q] * Scale <= b.bid[q] * Scale
      BY <1>1, <1>2, TimesGrows
  <2> QED
      BY <2>1, <2>2, <2>3, DivGrows
<1> QED
    BY <1>3, <1>4

\* The highest of a set that has grown by p alone is p or the one it was.
LEMMA HighestOfMore ==
    ASSUME NEW S \in SUBSET Levels, NEW T \in SUBSET Levels, NEW p,
           S \subseteq T, T \subseteq S \cup {p}, T # {}
    PROVE  Max(T) = p \/ (S # {} /\ Max(T) = Max(S))
<1>1. Max(T) \in T /\ \A q \in T : q <= Max(T)
    BY HighestLevel
<1>2. CASE Max(T) \in S
  <2>1. Max(S) \in S /\ \A q \in S : q <= Max(S)
      BY <1>2, HighestLevel
  <2>2. Max(S) \in Nat /\ Max(T) \in Nat
      BY <1>2, <2>1, NumbersAssumption
  <2> QED
      BY <1>1, <1>2, <2>1, <2>2
<1> QED
    BY <1>1, <1>2

\* The shape of the book, that is all but the sizes, is the same with and without it.
LEMMA SameShape ==
    ASSUME NEW b, NEW d, Bids(b) = Bids(d), b.ask = d.ask, b.fine = d.fine
    PROVE  /\ \A p : Next1(b, p) = Next1(d, p)
           /\ Split(b) = Split(d) /\ \A t : Rule(t, b) = Rule(t, d)
           /\ \A spread : Lowest(b, spread) = Lowest(d, spread)
           /\ \A spread, p : Rest(b, spread, p) = Rest(d, spread, p)
<1>1. \A p : Below(b, p) = Below(d, p)
    BY DEF Below
<1>2. \A p : Next1(b, p) = Next1(d, p)
    BY <1>1 DEF Next1
<1>3. \A p : Gap(b, p) = Gap(d, p)
    BY <1>1, <1>2 DEF Gap
<1>4. MaxGap(b) = MaxGap(d)
    BY <1>3 DEF MaxGap
<1>5. {p \in Bids(b) : Gap(b, p) = MaxGap(b)} = {p \in Bids(d) : Gap(d, p) = MaxGap(d)}
    BY <1>3, <1>4
<1>6. Split(b) = Split(d)
    BY <1>4, <1>5 DEF Split
<1>7. \A t : Rule(t, b) = Rule(t, d)
    BY <1>4 DEF Rule
<1>8. \A spread : Lowest(b, spread) = Lowest(d, spread)
    BY SameBook DEF Lowest
<1>9. \A spread, p : Rest(b, spread, p) = Rest(d, spread, p)
    BY SameBook DEF Rest
<1> QED
    BY <1>2, <1>6, <1>7, <1>8, <1>9

LEMMA HighSumGrows ==
    ASSUME NEW t \in Template, NEW b, NEW d, NEW p, Bumped(b, d, p)
    PROVE  HighSum(t, b) \in Int /\ HighSum(t, d) \in Int /\ HighSum(t, d) <= HighSum(t, b)
<1> DEFINE S == {q \in Bids(d) : q >= Split(d)}
           f == [q \in S |-> Coeff(t, b, q)]
           g == [q \in S |-> Coeff(t, d, q)]
<1>1. Bids(b) = Bids(d) /\ Split(b) = Split(d)
    BY SameShape DEF Bumped
<1>2. HighSum(t, b) = SumFunction(f) /\ HighSum(t, d) = SumFunction(g)
    BY <1>1 DEF HighSum
<1>3. S \in SUBSET Levels
    BY BidsAreLevels
<1>4. IsFiniteSet(S)
    BY <1>3, NumbersAssumption, FS_Subset
<1> HIDE DEF S
<1>5. \A q \in S : f[q] \in Nat /\ g[q] \in Nat /\ g[q] <= f[q]
    BY <1>3, CoeffGrows DEF Bumped
<1>6. f \in [S -> Int] /\ g \in [S -> Int]
  <2>1. \A q \in S : Coeff(t, b, q) \in Int /\ Coeff(t, d, q) \in Int
      BY <1>5
  <2> QED
      BY <2>1
<1> HIDE DEF f, g
<1>7. SumFunction(f) \in Int /\ SumFunction(g) \in Int
    BY <1>4, <1>6, SumInt
<1>8. SumFunction(g) <= SumFunction(f)
    BY <1>4, <1>5, <1>6, SumLeq
<1> QED
    BY <1>2, <1>7, <1>8

\* gap_single: the price is the own one or the one it would be anyway, if any.
BareWorth(t, d, spread) ==
    IF Worthy(t, d, spread) = {} THEN 0 ELSE Max(Worthy(t, d, spread))

LEMMA GapShape ==
    ASSUME NEW t \in Template, NEW b, NEW d, NEW p, NEW spread, Bumped(b, d, p)
    PROVE  /\ GapPrice(t, d, spread) \in {0, BareWorth(t, d, spread)}
           /\ GapPrice(t, b, spread) \in {0, p, BareWorth(t, d, spread)}
           /\ GapPrice(t, d, spread) # 0 => GapPrice(t, b, spread) # 0
<1> DEFINE W == Worthy(t, b, spread)
           V == Worthy(t, d, spread)
           shut(c) == \/ \A q \in Bids(c) : ~InBand(c, spread, q)
                      \/ CliffBelow(c, spread, t.cliff)
                      \/ Vetoed(t, c)
           low(c) == HighSum(t, c) < t.gate[Rule(t, c)]
<1>1. /\ GapPrice(t, b, spread) = IF shut(b) \/ low(b) \/ W = {} THEN 0 ELSE Max(W)
      /\ GapPrice(t, d, spread) = IF shut(d) \/ low(d) \/ V = {} THEN 0 ELSE Max(V)
    BY DEF GapPrice
<1>2. /\ Bids(b) = Bids(d) /\ b.ask = d.ask /\ b.fine = d.fine
      /\ b \in Book /\ d \in Book
    BY DEF Bumped
<1>3. shut(b) <=> shut(d)
    BY <1>2, SameBook
<1>4. Rule(t, b) = Rule(t, d) /\ Rule(t, d) \in 1..3
    BY <1>2, SameShape DEF Rule
<1>5. low(b) => low(d)
  <2>1. t.gate[Rule(t, d)] \in Int
      BY <1>4 DEF Template
  <2> QED
      BY <1>4, <2>1, HighSumGrows
<1>6. t.coeff[Rule(t, d)] \in Int
    BY <1>4 DEF Template
<1>7. V \subseteq W /\ W \subseteq V \cup {p}
  <2>1. ASSUME NEW q \in Bids(b) PROVE (q \in V => q \in W) /\ (q \in W => q \in V \cup {p})
    <3>1. q \in Levels /\ q \in Bids(d)
        BY <1>2, BidsAreLevels
    <3>2. /\ Coeff(t, b, q) \in Nat /\ Coeff(t, d, q) \in Nat
          /\ Coeff(t, b, q) >= Coeff(t, d, q)
          /\ q # p => Coeff(t, b, q) = Coeff(t, d, q)
        BY <3>1, CoeffGrows DEF Bumped
    <3>3. InBand(b, spread, q) <=> InBand(d, spread, q)
        BY <1>2, SameBook
    <3> QED
        BY <1>4, <1>6, <3>1, <3>2, <3>3 DEF Worthy
  <2>2. V \subseteq Bids(b) /\ W \subseteq Bids(b)
      BY <1>2 DEF Worthy
  <2> HIDE DEF V, W
  <2> QED
      BY <2>1, <2>2
<1>8. W \in SUBSET Levels /\ V \in SUBSET Levels
    BY BidsAreLevels DEF Worthy
<1>9. BareWorth(t, d, spread) = IF V = {} THEN 0 ELSE Max(V)
    BY DEF BareWorth
<1> HIDE DEF W, V, shut, low
<1>10. W # {} => Max(W) = p \/ (V # {} /\ Max(W) = Max(V))
    BY <1>7, <1>8, HighestOfMore
<1>11. W # {} => Max(W) \in Levels
    BY <1>8, HighestLevel
<1>12. W # {} => Max(W) # 0
    BY <1>11, NumbersAssumption
<1> QED
    BY <1>1, <1>3, <1>5, <1>7, <1>9, <1>10, <1>12

\* legacy_wall: the price is the one below the highest wall, when that is fit.
Under(b, spread, h) ==
    IF ~b.fine /\ spread \div 2 # 2 /\ Next1(b, h) < Lowest(b, spread) THEN 0
    ELSE Rest(b, spread, Next1(b, h))

LEMMA PriceIsUnderWall ==
    ASSUME NEW t \in Template, NEW b \in Book, NEW spread, Bids(b) # {}
    PROVE  DetermineOrderPrice(t, b, spread)
             = IF Walls(t, b, spread) = {} THEN 0 ELSE Under(b, spread, Max(Walls(t, b, spread)))
<1> DEFINE walls == Walls(t, b, spread)
           price == DetermineOrderPrice(t, b, spread)
<1>1. CASE b.fine
  <2>1. walls = {p \in Bids(b) : Thickness(b, p) > t.cumulative}
      BY <1>1 DEF Walls
  <2>2. price = IF walls = {} THEN 0 ELSE Rest(b, spread, Next1(b, Max(walls)))
      BY <1>1, <2>1 DEF DetermineOrderPrice, Cumulative
  <2> HIDE DEF walls, price
  <2> QED
      BY <1>1, <2>2 DEF Under, walls, price
<1>2. CASE ~b.fine /\ spread \div 2 = 2
  <2>1. Best(b) \in Bids(b)
      BY BestIsHighest
  <2>2. Whole(b, Best(b)) \in Int /\ t.wall \in Int
    <3>1. b.bid[Best(b)] \in Nat /\ t.wall \in Nat
        BY <2>1, BidsAreLevels DEF Book, Template
    <3> QED
        BY <3>1 DEF Whole
  <2>3. walls = IF Whole(b, Best(b)) > t.wall THEN {Best(b)} ELSE {}
      BY <1>2, <2>1 DEF Walls
  <2>4. Max({Best(b)}) = Best(b)
    <3>1. Max({Best(b)}) \in {Best(b)}
        BY <2>1, BidsAreLevels, HighestLevel
    <3> QED
        BY <3>1
  <2>5. price = IF Whole(b, Best(b)) > t.wall THEN Rest(b, spread, Next1(b, Best(b))) ELSE 0
      BY <1>2, <2>2 DEF DetermineOrderPrice, Spread2Coarse
  <2>6. \A h : Under(b, spread, h) = Rest(b, spread, Next1(b, h))
      BY <1>2 DEF Under
  <2> HIDE DEF walls, price
  <2>7. CASE Whole(b, Best(b)) > t.wall
    <3>1. walls = {Best(b)} /\ walls # {}
        BY <2>3, <2>7
    <3> QED
        BY <2>4, <2>5, <2>6, <2>7, <3>1 DEF walls, price
  <2>8. CASE ~(Whole(b, Best(b)) > t.wall)
      BY <2>3, <2>5, <2>8 DEF walls, price
  <2> QED
      BY <2>7, <2>8
<1>3. CASE ~b.fine /\ spread \div 2 # 2
  <2>1. walls = {p \in Bids(b) : p >= Lowest(b, spread) /\ Whole(b, p) > t.wall}
      BY <1>3 DEF Walls
  <2>2. price = IF walls = {} \/ Next1(b, Max(walls)) < Lowest(b, spread) THEN 0
                ELSE Rest(b, spread, Next1(b, Max(walls)))
      BY <1>3, <2>1 DEF DetermineOrderPrice, SpreadGe3Coarse
  <2> HIDE DEF walls, price
  <2> QED
      BY <1>3, <2>2 DEF Under, walls, price
<1> QED
    BY <1>1, <1>2, <1>3

LEMMA UnderIsBelow ==
    ASSUME NEW b, NEW spread, NEW h
    PROVE  /\ Under(b, spread, h) = 0 \/ Under(b, spread, h) < h
           /\ Under(b, spread, h) \in Nat
<1>1. /\ Next1(b, h) = 0 \/ Next1(b, h) < h
      /\ Next1(b, h) \in Nat
    BY NextIsBelow, BidsAreLevels
<1>2. Under(b, spread, h) = 0 \/ Under(b, spread, h) = Next1(b, h)
    BY DEF Rest, Under
<1> QED
    BY <1>1, <1>2

\* What is bid from a level up grows with an own buy, and only from its price down.
LEMMA ThicknessGrows ==
    ASSUME NEW b, NEW d, NEW p \in Levels, Bumped(b, d, p), NEW q \in Levels
    PROVE  /\ Whole(b, q) \in Int /\ Whole(d, q) \in Int /\ Whole(b, q) >= Whole(d, q)
           /\ Thickness(b, q) \in Int /\ Thickness(d, q) \in Int
           /\ Thickness(b, q) >= Thickness(d, q)
           /\ q > p => Whole(b, q) = Whole(d, q) /\ Thickness(b, q) = Thickness(d, q)
<1> DEFINE S == {r \in Bids(d) : r >= q}
           f == [r \in S |-> Whole(b, r)]
           g == [r \in S |-> Whole(d, r)]
<1>1. /\ Bids(b) = Bids(d) /\ b \in Book /\ d \in Book
      /\ \A r \in Levels : r # p => b.bid[r] = d.bid[r]
      /\ \A r \in Levels : b.bid[r] >= d.bid[r]
    BY DEF Bumped
<1>2. ASSUME NEW r \in Levels
      PROVE  /\ Whole(b, r) \in Int /\ Whole(d, r) \in Int /\ Whole(b, r) >= Whole(d, r)
             /\ r # p => Whole(b, r) = Whole(d, r)
  <2>1. b.bid[r] \in Nat /\ d.bid[r] \in Nat
      BY <1>1 DEF Book
  <2>2. b.bid[r] >= d.bid[r] /\ (r # p => b.bid[r] = d.bid[r])
      BY <1>1
  <2> QED
      BY <2>1, <2>2 DEF Whole
<1>3. Thickness(b, q) = SumFunction(f) /\ Thickness(d, q) = SumFunction(g)
    BY <1>1 DEF Thickness
<1>4. S \in SUBSET Levels /\ IsFiniteSet(S) /\ \A r \in S : r >= q
    BY BidsAreLevels, NumbersAssumption, FS_Subset
<1> HIDE DEF S
<1>5. f \in [S -> Int] /\ g \in [S -> Int] /\ \A r \in S : g[r] <= f[r]
    BY <1>2, <1>4
<1>6. q > p => f = g
  <2>1. q > p => \A r \in S : Whole(b, r) = Whole(d, r)
      BY <1>2, <1>4, NumbersAssumption
  <2> QED
      BY <2>1
<1> HIDE DEF f, g
<1>7. SumFunction(f) \in Int /\ SumFunction(g) \in Int /\ SumFunction(g) <= SumFunction(f)
    BY <1>4, <1>5, SumInt, SumLeq
<1>8. q > p => q # p
    BY NumbersAssumption
<1> QED
    BY <1>2, <1>3, <1>6, <1>7, <1>8

LEMMA WallsGrow ==
    ASSUME NEW t \in Template, NEW b, NEW d, NEW p \in Levels, NEW spread, Bumped(b, d, p)
    PROVE  /\ Walls(t, d, spread) \subseteq Walls(t, b, spread)
           /\ \A q \in Walls(t, b, spread) : q \in Walls(t, d, spread) \/ q <= p
<1>1. /\ Bids(b) = Bids(d) /\ b.ask = d.ask /\ b.fine = d.fine
    BY DEF Bumped
<1>2. Lowest(b, spread) = Lowest(d, spread) /\ Best(b) = Best(d)
    BY <1>1, SameShape, SameBook
<1>3. t.wall \in Int /\ t.cumulative \in Int
    BY DEF Template
<1>4. ASSUME NEW q \in Bids(d)
      PROVE  /\ q \in Walls(t, d, spread) => q \in Walls(t, b, spread)
             /\ q \in Walls(t, b, spread) => q \in Walls(t, d, spread) \/ q <= p
  <2>1. q \in Levels /\ q \in Nat /\ p \in Nat
      BY BidsAreLevels
  <2>2. /\ Whole(b, q) \in Int /\ Whole(d, q) \in Int /\ Whole(b, q) >= Whole(d, q)
        /\ Thickness(b, q) \in Int /\ Thickness(d, q) \in Int
        /\ Thickness(b, q) >= Thickness(d, q)
        /\ q > p => Whole(b, q) = Whole(d, q) /\ Thickness(b, q) = Thickness(d, q)
      BY <2>1, ThicknessGrows
  <2> QED
      BY <1>1, <1>2, <1>3, <2>1, <2>2 DEF Walls
<1>5. Walls(t, d, spread) \subseteq Bids(d) /\ Walls(t, b, spread) \subseteq Bids(d)
    BY <1>1 DEF Walls
<1> QED
    BY <1>4, <1>5

\* legacy_wall: an own buy moves the price only to below itself, and not at all
\* when it rests at the price there would be without it.
LEMMA WallShape ==
    ASSUME NEW t \in Template, NEW b, NEW d, NEW p \in Levels, NEW spread,
           Bumped(b, d, p), Bids(d) # {},
           NEW x, x = DetermineOrderPrice(t, b, spread),
           NEW y, y = DetermineOrderPrice(t, d, spread)
    PROVE  (x = y \/ x < p) /\ (y = p => x = y)
<1> DEFINE W == Walls(t, b, spread)
           V == Walls(t, d, spread)
<1>1. /\ b \in Book /\ d \in Book /\ Bids(b) = Bids(d) /\ b.ask = d.ask /\ b.fine = d.fine
    BY DEF Bumped
<1>2. \A h : Under(b, spread, h) = Under(d, spread, h)
    BY <1>1, SameShape DEF Under
<1>3. /\ x = IF W = {} THEN 0 ELSE Under(d, spread, Max(W))
      /\ y = IF V = {} THEN 0 ELSE Under(d, spread, Max(V))
    BY <1>1, <1>2, PriceIsUnderWall
<1>4. V \subseteq W /\ \A q \in W : q \in V \/ q <= p
    BY WallsGrow
<1>5. W \in SUBSET Levels /\ V \in SUBSET Levels
    BY BidsAreLevels DEF Walls
<1> HIDE DEF W, V
<1>6. CASE W = {}
  <2>1. V = {}
      BY <1>4, <1>6
  <2> QED
      BY <1>3, <1>6, <2>1
<1>7. CASE W # {}
  <2>1. Max(W) \in W /\ \A q \in W : q <= Max(W)
      BY <1>5, <1>7, HighestLevel
  <2>2. Max(W) \in Nat /\ p \in Nat /\ p > 0
    <3>1. Max(W) \in Levels
        BY <1>5, <2>1
    <3> QED
        BY <3>1, BidsAreLevels
  <2>3. x = Under(d, spread, Max(W)) /\ (x = 0 \/ x < Max(W)) /\ x \in Nat
      BY <1>3, <1>7, UnderIsBelow
  <2>4. CASE Max(W) \in V
    <3>1. Max(V) \in V /\ \A q \in V : q <= Max(V)
        BY <1>5, <2>4, HighestLevel
    <3>2. Max(V) \in Nat
        BY <1>5, <3>1, NumbersAssumption
    <3>3. Max(V) = Max(W)
        BY <1>4, <2>1, <2>2, <2>4, <3>1, <3>2
    <3> QED
        BY <1>3, <2>3, <2>4, <3>3
  <2>5. CASE Max(W) \notin V
    <3>1. Max(W) <= p
        BY <1>4, <2>1, <2>5
    <3>2. x < p
        BY <2>2, <2>3, <3>1
    <3>3. y # p
      <4>1. CASE V = {}
          BY <1>3, <2>2, <4>1
      <4>2. CASE V # {}
        <5>1. Max(V) \in V
            BY <1>5, <4>2, HighestLevel
        <5>2. Max(V) <= p /\ Max(V) \in Nat
          <6>1. Max(V) \in Levels /\ Max(V) <= Max(W)
              BY <1>4, <1>5, <2>1, <5>1
          <6>2. Max(V) \in Nat
              BY <6>1, BidsAreLevels
          <6> QED
              BY <2>2, <3>1, <6>1, <6>2
        <5>3. y \in Nat /\ (y = 0 \/ y < Max(V))
            BY <1>3, <4>2, UnderIsBelow
        <5> QED
            BY <2>2, <5>2, <5>3
      <4> QED
          BY <4>1, <4>2
    <3> QED
        BY <3>2, <3>3
  <2> QED
      BY <2>4, <2>5
<1> QED
    BY <1>6, <1>7

\* The book with and without the own buy.
LEMMA SeenIsDepth == ASSUME TypeOK, NEW s \in Side, mine[s].left = 0 PROVE Seen[s] = depth[s]
<1>1. depth[s] \in Book
    BY WorldAssumption DEF TypeOK
<1>2. \A p \in Levels : depth[s].bid[p] \in Nat
    BY <1>1 DEF Book
<1>3. Seen[s].bid = depth[s].bid
  <2>1. Seen[s].bid = [p \in Levels |-> depth[s].bid[p]]
      BY <1>2, SeenTyped
  <2> QED
      BY <1>1, <2>1 DEF Book
<1> QED
    BY <1>1, <1>3, SeenTyped DEF Book

LEMMA SeenIsBumped ==
    ASSUME TypeOK, NEW s \in Side, mine[s].left > 0, mine[s].price \in Bids(depth[s])
    PROVE  Bumped(Seen[s], depth[s], mine[s].price)
<1> DEFINE own(p) == IF mine[s].left > 0 /\ mine[s].price = p THEN 2 * mine[s].left ELSE 0
<1>1. depth[s] \in Book /\ \A p \in Levels : depth[s].bid[p] \in Nat
    BY WorldAssumption DEF TypeOK, Book
<1>2. \A p \in Levels : own(p) \in Nat /\ (p # mine[s].price => own(p) = 0)
    BY Resting
<1>3. \A p \in Levels : Seen[s].bid[p] = depth[s].bid[p] + own(p)
    BY SeenTyped
<1> HIDE DEF own
<1>4. \A p \in Levels : /\ Seen[s].bid[p] >= depth[s].bid[p]
                        /\ p # mine[s].price => Seen[s].bid[p] = depth[s].bid[p]
    BY <1>1, <1>2, <1>3
<1>5. \A p \in Levels : Seen[s].bid[p] > 0 <=> depth[s].bid[p] > 0
  <2> SUFFICES ASSUME NEW p \in Levels PROVE Seen[s].bid[p] > 0 <=> depth[s].bid[p] > 0
      OBVIOUS
  <2>1. CASE p = mine[s].price
    <3>1. depth[s].bid[p] > 0
        BY <2>1 DEF Bids
    <3> QED
        BY <1>1, <1>2, <1>3, <3>1
  <2>2. CASE p # mine[s].price
      BY <1>4, <2>2
  <2> QED
      BY <2>1, <2>2
<1>6. Bids(Seen[s]) = Bids(depth[s])
    BY <1>5 DEF Bids
<1> QED
    BY <1>1, <1>4, <1>6, SeenTyped DEF Bumped

\* The price a side would get without the own buy, and the price that an own buy
\* can bring about: in gap_single the book may be too thin without it.
BarePrice(s) == IF TwoSided(depth[s]) THEN PriceOn(depth[s]) ELSE 0
Root(s) ==
    IF TwoSided(depth[s]) /\ template.mode = "gap_single"
    THEN BareWorth(template, depth[s], pool.spread) ELSE BarePrice(s)

\* The prices a buy may be moved to: none, where it is, the root, or further down.
LEMMA PriceShape ==
    ASSUME TypeOK, NEW s \in Side, TwoSided(Seen[s]), NEW x, x = PriceOn(Seen[s])
    PROVE  /\ mine[s].left = 0 => x = BarePrice(s)
           /\ mine[s].left > 0 /\ mine[s].price \in Bids(depth[s]) =>
                /\ x = 0 \/ x = mine[s].price \/ x = Root(s) \/ x < mine[s].price
                /\ mine[s].price = Root(s) => x = 0 \/ x = mine[s].price
                /\ mine[s].price = Root(s) /\ mine[s].price = BarePrice(s)
                      => x = mine[s].price
<1>1. mine[s].left = 0 => x = BarePrice(s)
    BY SeenIsDepth DEF BarePrice
<1>2. ASSUME mine[s].left > 0, mine[s].price \in Bids(depth[s])
      PROVE  /\ x = 0 \/ x = mine[s].price \/ x = Root(s) \/ x < mine[s].price
             /\ mine[s].price = Root(s) => x = 0 \/ x = mine[s].price
             /\ mine[s].price = Root(s) /\ mine[s].price = BarePrice(s)
                   => x = mine[s].price
  <2> DEFINE p == mine[s].price
             b == Seen[s]
             d == depth[s]
  <2>1. Bumped(b, d, p) /\ p \in Levels /\ p # 0
      BY <1>2, SeenIsBumped, BidsAreLevels
  <2>2. Bids(b) = Bids(d) /\ b.ask = d.ask
      BY <2>1 DEF Bumped
  <2>3. TwoSided(d) /\ Bids(d) # {}
      BY <2>2 DEF TwoSided
  <2>4. template \in Template
      BY WorldAssumption DEF TypeOK
  <2>5. BarePrice(s) = PriceOn(d)
      BY <2>3 DEF BarePrice
  <2>6. CASE template.mode = "gap_single"
    <3>1. x = GapPrice(template, b, pool.spread) /\ PriceOn(d) = GapPrice(template, d, pool.spread)
        BY <2>6 DEF PriceOn
    <3>2. Root(s) = BareWorth(template, d, pool.spread)
        BY <2>3, <2>6 DEF Root
    <3>3. /\ x \in {0, p, Root(s)}
          /\ PriceOn(d) # 0 => x # 0
        BY <2>1, <2>4, <3>1, <3>2, GapShape
    <3> QED
        BY <2>1, <2>5, <3>3
  <2>7. CASE template.mode # "gap_single"
    <3> DEFINE u == DetermineOrderPrice(template, b, pool.spread)
               v == DetermineOrderPrice(template, d, pool.spread)
               cliff == CliffBelow(d, pool.spread, template.cliff)
    <3>1. x = IF cliff THEN 0 ELSE u
        BY <2>2, <2>7, SameBook DEF PriceOn, LegacyPrice
    <3>2. PriceOn(d) = IF cliff THEN 0 ELSE v
        BY <2>7 DEF PriceOn, LegacyPrice
    <3>3. Root(s) = PriceOn(d)
        BY <2>5, <2>7 DEF Root
    <3>4. (u = v \/ u < p) /\ (v = p => u = v)
        BY <2>1, <2>3, <2>4, WallShape
    <3> HIDE DEF u, v, cliff
    <3> QED
        BY <2>1, <2>5, <3>1, <3>2, <3>3, <3>4
  <2> QED
      BY <2>6, <2>7
<1> QED
    BY <1>1, <1>2

-----------------------------------------------------------------------------
\* How far the buys are from rest while the world stands still

One(c) == IF c THEN 1 ELSE 0
Height(p) == Cardinality({q \in Levels : q < p})
Top == Cardinality(Levels) + 2

\* What is left to happen to the buy m of a side: it is taken back, moved to the
\* root, or moved down step by step, and sized once more wherever it is.  base: a
\* buy would be placed without it; ok: the prices and sizes that are kept.
DueAt(root, base, ok, m) ==
    IF m.left = 0 THEN One(base)
    ELSE (IF m.price = root THEN One(~base) ELSE 2 + Height(m.price))
           + One(<<m.price, m.left>> \notin ok)

LEMMA HeightIsNat ==
    ASSUME NEW p \in Levels
    PROVE  /\ Height(p) \in Nat /\ Height(p) < Cardinality(Levels) /\ Cardinality(Levels) \in Nat
<1> DEFINE S == {q \in Levels : q < p}
<1>1. S \in SUBSET Levels /\ p \notin S /\ IsFiniteSet(Levels)
    BY NumbersAssumption
<1> HIDE DEF S
<1>2. IsFiniteSet(S) /\ Cardinality(S) <= Cardinality(Levels)
    BY <1>1, FS_Subset
<1>3. Cardinality(S) = Cardinality(Levels) => S = Levels
    BY <1>1, FS_Subset
<1>4. Cardinality(S) \in Nat /\ Cardinality(Levels) \in Nat
    BY <1>1, <1>2, FS_CardinalityType
<1>5. Height(p) = Cardinality(S)
    BY DEF Height, S
<1> QED
    BY <1>1, <1>2, <1>3, <1>4, <1>5

LEMMA HeightGrows ==
    ASSUME NEW p \in Levels, NEW q \in Levels, p < q
    PROVE  Height(p) < Height(q)
<1> DEFINE S == {r \in Levels : r < p}
           T == {r \in Levels : r < q}
<1>0. \A r \in Levels : r \in Nat
    BY NumbersAssumption
<1>1. S \in SUBSET T /\ p \in T /\ p \notin S /\ T \in SUBSET Levels
    BY <1>0
<1>2. Height(p) = Cardinality(S) /\ Height(q) = Cardinality(T)
    BY DEF Height
<1> HIDE DEF S, T
<1>3. IsFiniteSet(T)
    BY <1>1, NumbersAssumption, FS_Subset
<1>4. Cardinality(S) <= Cardinality(T) /\ (Cardinality(S) = Cardinality(T) => S = T)
    BY <1>1, <1>3, FS_Subset
<1> QED
    BY <1>1, <1>2, <1>4, HeightIsNat

LEMMA DueIsBounded ==
    ASSUME NEW root, NEW base, NEW ok, NEW m \in Order \cup {NoOrder}
    PROVE  DueAt(root, base, ok, m) \in Nat /\ DueAt(root, base, ok, m) <= Top /\ Top \in Nat
<1>1. Cardinality(Levels) \in Nat
    BY NumbersAssumption, FS_CardinalityType
<1>2. CASE m.left = 0
    BY <1>1, <1>2 DEF DueAt, One, Top
<1>3. CASE m.left # 0
  <2>1. m.price \in Levels
      BY <1>3 DEF Order, NoOrder
  <2> QED
      BY <1>1, <1>3, <2>1, HeightIsNat DEF DueAt, One, Top
<1> QED
    BY <1>2, <1>3

\* Another buy of the side leaves less to happen, if it is nearer to what is kept.
LEMMA DueDrops ==
    ASSUME NEW root, NEW base \in BOOLEAN, NEW ok,
           NEW m \in Order \cup {NoOrder}, NEW n \in Order \cup {NoOrder},
           n.left # 0 => <<n.price, n.left>> \in ok,
           \/ n.left = 0 /\ m.left # 0 /\ (m.price = root => ~base)
           \/ n.left # 0 /\ m.left = 0 /\ n.price = root /\ base
           \/ n.left # 0 /\ m.left # 0 /\ n.price = m.price /\ <<m.price, m.left>> \notin ok
           \/ n.left # 0 /\ m.left # 0 /\ m.price # root /\ (n.price = root \/ n.price < m.price)
    PROVE  DueAt(root, base, ok, n) < DueAt(root, base, ok, m)
<1>1. m.left # 0 => m.price \in Levels
    BY DEF Order, NoOrder
<1>2. n.left # 0 => n.price \in Levels
    BY DEF Order, NoOrder
<1>3. CASE n.left = 0 /\ m.left # 0 /\ (m.price = root => ~base)
    BY <1>1, <1>3, HeightIsNat DEF DueAt, One
<1>4. CASE n.left # 0 /\ m.left = 0 /\ n.price = root /\ base
    BY <1>4 DEF DueAt, One
<1>5. CASE n.left # 0 /\ m.left # 0 /\ n.price = m.price /\ <<m.price, m.left>> \notin ok
    BY <1>1, <1>5, HeightIsNat DEF DueAt, One
<1>6. CASE n.left # 0 /\ m.left # 0 /\ m.price # root /\ (n.price = root \/ n.price < m.price)
  <2>1. Height(m.price) \in Nat
      BY <1>1, <1>6, HeightIsNat
  <2>2. DueAt(root, base, ok, m) >= 2 + Height(m.price)
      BY <1>6, <2>1 DEF DueAt, One
  <2>3. CASE n.price = root
      BY <1>6, <2>1, <2>2, <2>3 DEF DueAt, One
  <2>4. CASE n.price # root
    <3>1. Height(n.price) \in Nat /\ Height(n.price) < Height(m.price)
        BY <1>1, <1>2, <1>6, <2>4, HeightIsNat, HeightGrows
    <3>2. DueAt(root, base, ok, n) = 2 + Height(n.price)
        BY <1>6, <2>4, <3>1 DEF DueAt, One
    <3>3. DueAt(root, base, ok, m) \in Nat
        BY DueIsBounded
    <3> QED
        BY <2>1, <2>2, <3>1, <3>2, <3>3
  <2> QED
      BY <2>3, <2>4
<1> QED
    BY <1>3, <1>4, <1>5, <1>6

\* The sides a round on the books as they are works, and those it puts a buy on.
Suitable == {s \in Side : Eligible(Seen[s], s)}
Quoted(s) == s \in Suitable /\ held[s] = 0 /\ Money > 0 /\ SharesLeft > 0

\* The target of "a", and what a round has left for each side.
First == IF Quoted("a") THEN Capped(PriceOn(Seen["a"]), Money, SharesLeft) ELSE Unpriced
Sized(s, p) ==
    IF s = "a" THEN Capped(p, Money, SharesLeft)
    ELSE Capped(p, Money - First.price * First.shares, SharesLeft - First.shares)

Base(s) == Sized(s, BarePrice(s)).price # 0
Kept(s) == {x \in Levels \X Nat : Near(x[2], Sized(s, x[1]).shares)}
Due(s) == IF Quoted(s) THEN DueAt(Root(s), Base(s), Kept(s), mine[s]) ELSE One(mine[s].left > 0)

\* An own buy where nobody else bids makes a level of its own, until it goes.
Foreign(s) == mine[s].left > 0 /\ mine[s].price \notin Bids(depth[s])
\* A daily reward that fell is not in the pool yet.
Outdated == pool.rate # live.rate /\ live.rate < template.reward
Upset == One(Foreign("a")) + One(Foreign("b")) + One(Outdated)
\* A round that was filtered before the sides were as they are.
Late == round.at = "filtered" /\ round.listed # Suitable

\* Due("a"), then Due("b"); before them the late round, and before it what upsets.
Within == Due("a") * (Top + 1) + Due("b")
Left == (2 * Upset + One(Late)) * ((Top + 1) * (Top + 1)) + Within

\* The buys rest after so many changes.
Enough == 8 * (Top + 1) * (Top + 1)

LEMMA TopIsNat == Top \in Nat /\ Top >= 2
BY NumbersAssumption, FS_CardinalityType DEF Top

LEMMA DueIsNat == TypeOK => \A s \in Side : Due(s) \in Nat /\ Due(s) <= Top
<1> SUFFICES ASSUME TypeOK, NEW s \in Side PROVE Due(s) \in Nat /\ Due(s) <= Top
    OBVIOUS
<1>1. mine[s] \in Order \cup {NoOrder}
    BY DEF TypeOK
<1>2. CASE Quoted(s)
    BY <1>1, <1>2, DueIsBounded DEF Due
<1>3. CASE ~Quoted(s)
    BY <1>3, TopIsNat DEF Due, One
<1> QED
    BY <1>2, <1>3

\* The first of two counters counts before the second one, which is at most k.
LEMMA CountersDrop ==
    ASSUME NEW k \in Nat, NEW x \in Nat, NEW u \in Nat, u < x, NEW y \in Nat,
           NEW v \in Nat, v <= k
    PROVE  u * (k + 1) + v < x * (k + 1) + y
<1>1. (u + 1) * (k + 1) <= x * (k + 1)
    OBVIOUS
<1>2. (u + 1) * (k + 1) = u * (k + 1) + k + 1
    OBVIOUS
<1>3. u * (k + 1) \in Nat /\ x * (k + 1) \in Nat
    OBVIOUS
<1> QED
    BY <1>1, <1>2, <1>3

\* What is left is less than Enough, whatever the state.
LEMMA LeftIsBounded ==
    TypeOK => /\ Left \in Nat /\ Left < Enough
              /\ Within \in Nat /\ Within < (Top + 1) * (Top + 1)
<1> SUFFICES ASSUME TypeOK
             PROVE  /\ Left \in Nat /\ Left < Enough
                    /\ Within \in Nat /\ Within < (Top + 1) * (Top + 1)
    OBVIOUS
<1> DEFINE a == Due("a")
           b == Due("b")
           k == Top + 1
           u == 2 * Upset + One(Late)
<1>1. a \in Nat /\ a <= Top /\ b \in Nat /\ b <= Top
    BY DueIsNat, SideIsFinite
<1>2. u \in Nat /\ u < 8
    BY DEF Upset, One
<1>3. k \in Nat /\ k = Top + 1 /\ Top \in Nat
    BY TopIsNat
<1>4. Within = a * k + b /\ Left = u * (k * k) + Within /\ Enough = 8 * (k * k)
  <2>1. 8 * k * k = 8 * (k * k)
      BY <1>3
  <2> QED
      BY <2>1 DEF Within, Left, Enough
<1> HIDE DEF a, b, k, u
<1>5. a * k \in Nat /\ k * k \in Nat /\ a * k + b < k * k
  <2>1. (a + 1) * k <= k * k
      BY <1>1, <1>3
  <2>2. (a + 1) * k = a * k + k
      BY <1>1, <1>3
  <2> QED
      BY <1>1, <1>3, <2>1, <2>2
<1> DEFINE q == k * k
<1>6. q \in Nat /\ Within \in Nat /\ Within < q /\ Left = u * q + Within /\ Enough = 8 * q
    BY <1>1, <1>4, <1>5
<1> HIDE DEF q
<1>7. u * q \in Nat /\ (u + 1) * q <= 8 * q /\ (u + 1) * q = u * q + q
    BY <1>2, <1>6
<1>8. Left \in Nat /\ Left < Enough
    BY <1>6, <1>7
<1> QED
    BY <1>6, <1>8 DEF q, k

LEMMA LeftIsBoundedNext ==
    /\ (TypeOK => /\ Left \in Nat /\ Left < Enough
                  /\ Within \in Nat /\ Within < (Top + 1) * (Top + 1))'
    /\ (TypeOK => \A s \in Side : Due(s) \in Nat /\ Due(s) <= Top)'
BY LeftIsBounded, DueIsNat, PTL

\* Which parts of it count before which.
LEMMA LeftDrops ==
    ASSUME TypeOK, TypeOK',
           \/ Upset' < Upset
           \/ Upset' = Upset /\ Late /\ ~Late'
           \/ Upset' = Upset /\ (Late' => Late) /\ Within' < Within
    PROVE  Left' < Left
<1> DEFINE u == 2 * Upset + One(Late)
           k == (Top + 1) * (Top + 1)
           n == 2 * Upset' + One(Late)'
<1>1. u \in Nat /\ n \in Nat
    BY DEF Upset, One
<1>2. k \in Nat /\ k > 0
  <2>1. Top + 1 \in Nat /\ Top + 1 > 0
      BY TopIsNat
  <2> DEFINE t == Top + 1
  <2> HIDE DEF t
  <2>2. t \in Nat /\ t > 0
      BY <2>1 DEF t
  <2>3. t * t \in Nat /\ t * t > 0
      BY <2>2
  <2> QED
      BY <2>3 DEF t
<1>3. /\ Within \in Nat /\ Within < k /\ Within' \in Nat /\ Within' < k
    BY LeftIsBounded, LeftIsBoundedNext
<1>4. Left = u * k + Within /\ Left' = n * k + Within'
    BY DEF Left
<1>5. n < u \/ (n = u /\ Within' < Within)
  <2>1. Upset \in Int /\ Upset' \in Int
      BY DEF Upset, One
  <2>2. /\ One(Late) \in {0, 1} /\ One(Late)' \in {0, 1}
        /\ Late => One(Late) = 1
        /\ ~Late' => One(Late)' = 0
        /\ (Late' => Late) => One(Late)' <= One(Late)
      BY DEF One
  <2>3. CASE Upset' < Upset
    <3>1. \A x, y \in Int, l, o \in {0, 1} : y < x => 2 * y + o < 2 * x + l
        OBVIOUS
    <3> QED
        BY <2>1, <2>2, <2>3, <3>1
  <2>4. CASE Upset' = Upset /\ Late /\ ~Late'
    <3>1. One(Late) = 1 /\ One(Late)' = 0
        BY <2>2, <2>4
    <3>2. \A x \in Int : 2 * x + 0 < 2 * x + 1
        OBVIOUS
    <3>3. n = 2 * Upset + 0 /\ u = 2 * Upset + 1
        BY <2>4, <3>1
    <3> HIDE DEF n, u
    <3> QED
        BY <2>1, <3>2, <3>3
  <2>5. CASE Upset' = Upset /\ (Late' => Late) /\ Within' < Within
    <3>1. One(Late)' <= One(Late)
        BY <2>2, <2>5
    <3>2. One(Late)' < One(Late) \/ One(Late)' = One(Late)
        BY <2>2, <3>1
    <3> QED
        BY <2>1, <2>2, <2>5, <3>2
  <2> QED
      BY <2>3, <2>4, <2>5
<1> HIDE DEF u, k, n
<1>6. CASE n < u
  <2> DEFINE h == k - 1
  <2>1. h \in Nat /\ k = h + 1 /\ Within' <= h
      BY <1>2, <1>3
  <2> HIDE DEF h
  <2>2. n * (h + 1) + Within' < u * (h + 1) + Within
      BY <1>1, <1>3, <1>6, <2>1, CountersDrop
  <2> QED
      BY <1>4, <2>1, <2>2
<1>7. CASE n = u /\ Within' < Within
  <2>1. u * k \in Nat
      BY <1>1, <1>2
  <2> QED
      BY <1>3, <1>4, <1>7, <2>1
<1> QED
    BY <1>5, <1>6, <1>7

LEMMA LeftStays ==
    ASSUME TypeOK, TypeOK', Upset' = Upset, Late' => Late, Within' = Within
    PROVE  Left' <= Left
<1> DEFINE k == (Top + 1) * (Top + 1)
           u == 2 * Upset + One(Late)
           n == 2 * Upset' + One(Late)'
<1>1. n <= u /\ u \in Nat /\ n \in Nat
  <2>1. One(Late) = (IF Late THEN 1 ELSE 0) /\ One(Late)' = (IF Late' THEN 1 ELSE 0)
      BY DEF One
  <2>2. Upset \in Nat
      BY DEF Upset, One
  <2> QED
      BY <2>1, <2>2
<1>2. k \in Nat
    BY TopIsNat
<1>3. Left = u * k + Within /\ Left' = n * k + Within /\ Within \in Nat
    BY LeftIsBounded DEF Left
<1> HIDE DEF k, u, n
<1>4. n * k <= u * k /\ n * k \in Nat /\ u * k \in Nat
    BY <1>1, <1>2
<1> QED
    BY <1>3, <1>4

LEMMA WithinDrops ==
    ASSUME TypeOK, TypeOK',
           Due("a")' < Due("a") \/ (Due("a")' = Due("a") /\ Due("b")' < Due("b"))
    PROVE  Within' < Within
<1> DEFINE a == Due("a")
           b == Due("b")
           c == Due("a")'
           d == Due("b")'
<1>1. a \in Nat /\ b \in Nat /\ c \in Nat /\ d \in Nat /\ d <= Top /\ Top \in Nat
    BY DueIsNat, LeftIsBoundedNext, SideIsFinite, TopIsNat
<1>2. Within = a * (Top + 1) + b /\ Within' = c * (Top + 1) + d
    BY DEF Within
<1>3. c < a \/ (c = a /\ d < b)
    OBVIOUS
<1> HIDE DEF a, b, c, d
<1>4. CASE c < a
    BY <1>1, <1>2, <1>4, CountersDrop
<1>5. CASE c = a /\ d < b
  <2>1. a * (Top + 1) \in Nat
      BY <1>1
  <2> QED
      BY <1>1, <1>2, <1>5, <2>1
<1> QED
    BY <1>3, <1>4, <1>5

\* The steps the world stands still in.
Still == Filter \/ Dropout \/ Place \/ (\E s \in Side : Comply(s)) \/ UNCHANGED vars

LEMMA StillWorld ==
    ASSUME Still
    PROVE  /\ depth' = depth /\ held' = held /\ balance' = balance
           /\ template' = template /\ live' = live
BY DEF Still, Filter, Dropout, Place, Comply, vars

\* The levels bid on a side: those of the others, and the own one.
LEMMA SeenBids ==
    TypeOK => \A s \in Side :
        /\ Seen[s].ask = depth[s].ask
        /\ Bids(Seen[s]) = Bids(depth[s]) \cup
                {p \in Levels : mine[s].left > 0 /\ mine[s].price = p}
<1> SUFFICES ASSUME TypeOK, NEW s \in Side
             PROVE  Bids(Seen[s]) = Bids(depth[s]) \cup
                        {p \in Levels : mine[s].left > 0 /\ mine[s].price = p}
    BY SeenTyped
<1> DEFINE own(p) == IF mine[s].left > 0 /\ mine[s].price = p THEN 2 * mine[s].left ELSE 0
<1>1. \A p \in Levels : depth[s].bid[p] \in Nat
    BY WorldAssumption DEF TypeOK, Book
<1>2. \A p \in Levels : /\ own(p) \in Nat
                        /\ own(p) > 0 <=> mine[s].left > 0 /\ mine[s].price = p
    BY Resting
<1>3. \A p \in Levels : Seen[s].bid[p] = depth[s].bid[p] + own(p)
    BY SeenTyped
<1> HIDE DEF own
<1>4. \A p \in Levels : Seen[s].bid[p] > 0 <=> depth[s].bid[p] > 0 \/ own(p) > 0
    BY <1>1, <1>2, <1>3
<1> QED
    BY <1>2, <1>4 DEF Bids

LEMMA SeenBidsNext ==
    (TypeOK => \A s \in Side :
        /\ Seen[s].ask = depth[s].ask
        /\ Bids(Seen[s]) = Bids(depth[s]) \cup
                {p \in Levels : mine[s].left > 0 /\ mine[s].price = p})'
BY SeenBids, PTL

\* A buy is left, taken back, or put where something is bid.
LEMMA StillMoves ==
    ASSUME TypeOK, Still, NEW s \in Side
    PROVE  \/ mine'[s] = mine[s] \/ mine'[s] = NoOrder
           \/ mine'[s].left > 0 /\ mine'[s].price \in Bids(Seen[s])
<1>1. CASE Filter \/ UNCHANGED vars
    BY <1>1 DEF Filter, vars
<1>2. CASE Dropout
    BY <1>2 DEF Dropout
<1>3. CASE Place
  <2>1. PICK t : /\ IsTarget(t) /\ settled' \subseteq Side
                 /\ mine' = [z \in Side |-> IF z \in settled' THEN Converge(z, t[z]) ELSE mine[z]]
      BY <1>3, PlaceConverges
  <2>2. CASE s \in settled' /\ t[s].price # 0
    <3>1. /\ t[s].price \in Bids(Seen[s]) /\ t[s].price \in Levels
          /\ t[s].shares \in Nat /\ t[s].shares >= MinSize
        BY <2>1, <2>2, BidsAreLevels DEF IsTarget
    <3>2. mine'[s] = mine[s] \/ mine'[s] = [price |-> t[s].price, left |-> t[s].shares, hit |-> FALSE]
        BY <2>1, <2>2 DEF Converge
    <3> QED
        BY <3>1, <3>2, NumbersAssumption
  <2>3. CASE s \in settled' /\ t[s].price = 0
      BY <2>1, <2>3 DEF Converge
  <2>4. CASE s \notin settled'
      BY <2>1, <2>4
  <2> QED
      BY <2>2, <2>3, <2>4
<1>4. ASSUME NEW z \in Side, Comply(z) PROVE mine'[s] = mine[s] \/ mine'[s] = NoOrder
    BY <1>4 DEF Comply, TypeOK
<1> QED
    BY <1>1, <1>2, <1>3, <1>4 DEF Still

\* Only a buy that stays at its price goes on making a level of its own.
LEMMA ForeignEnds ==
    ASSUME TypeOK, Still, NEW s \in Side, Foreign(s)'
    PROVE  Foreign(s) /\ mine'[s].left > 0 /\ mine'[s].price = mine[s].price
<1>1. mine'[s].left > 0 /\ mine'[s].price \notin Bids(depth[s])
    BY StillWorld DEF Foreign
<1>2. CASE mine'[s] = mine[s]
    BY <1>1, <1>2 DEF Foreign
<1>3. CASE mine'[s] = NoOrder
    BY <1>1, <1>3 DEF NoOrder
<1>4. CASE mine'[s].price \in Bids(Seen[s])
  <2>1. mine[s].left > 0 /\ mine[s].price = mine'[s].price
      BY <1>1, <1>4, SeenBids
  <2> QED
      BY <1>1, <2>1 DEF Foreign
<1> QED
    BY <1>2, <1>3, <1>4, StillMoves

\* The pool changes only to learn of a daily reward that fell.
LEMMA PoolLearns ==
    ASSUME TypeOK, Still
    PROVE  pool' = pool \/ (Outdated /\ ~Outdated' /\ pool'.spread = pool.spread)
<1>1. CASE Filter \/ Dropout \/ Place \/ UNCHANGED vars
    BY <1>1 DEF Filter, Dropout, Place, vars
<1>2. ASSUME NEW s \in Side, Comply(s), pool' # pool
      PROVE  Outdated /\ ~Outdated' /\ pool'.spread = pool.spread
  <2>1. PICK heard \in {live, Nothing} :
            \E verdict \in {Verdict(Seen[s], mine[s].price, heard)} \ {"keep", "skip"} :
               pool' = WritesBack(heard, verdict)
      BY <1>2 DEF Comply
  <2>2. /\ Verdict(Seen[s], mine[s].price, heard) = "reward"
        /\ pool' = [pool EXCEPT !.rate = heard.rate]
      BY <1>2, <2>1 DEF WritesBack
  <2>3. heard.rate >= 0 /\ heard.rate < template.reward
      BY <2>2 DEF Verdict
  <2>4. heard = live
      BY <2>1, <2>3 DEF Nothing
  <2>5. pool \in [spread : Nat, rate : Nat, price : [Side -> Nat]]
      BY DEF TypeOK
  <2>6. pool'.rate = live.rate /\ pool'.spread = pool.spread
      BY <2>2, <2>4, <2>5
  <2>7. pool.rate # live.rate
      BY <1>2, <2>2, <2>4, <2>5
  <2> QED
      BY <2>3, <2>4, <2>6, <2>7, StillWorld DEF Outdated
<1> QED
    BY <1>1, <1>2 DEF Still

\* Nothing upsets a standing world but once, and otherwise the books and the pool
\* are as they were but for the sizes of the own buys.
SameWorld ==
    /\ depth' = depth /\ held' = held /\ balance' = balance
    /\ template' = template /\ live' = live /\ pool' = pool
    /\ \A s \in Side : Foreign(s)' <=> Foreign(s)

LEMMA UpsetFalls ==
    ASSUME TypeOK, Still
    PROVE  Upset' < Upset \/ (Upset' = Upset /\ SameWorld)
<1>1. \A s \in Side : Foreign(s)' => Foreign(s)
    BY ForeignEnds
<1>2. Outdated' => Outdated
  <2>1. CASE pool' = pool
      BY <2>1, StillWorld DEF Outdated
  <2> QED
      BY <2>1, PoolLearns
<1>3. "a" \in Side /\ "b" \in Side /\ \A s \in Side : s = "a" \/ s = "b"
    BY DEF Side
<1> DEFINE x == One(Foreign("a"))
           y == One(Foreign("b"))
           z == One(Outdated)
           u == One(Foreign("a"))'
           v == One(Foreign("b"))'
           w == One(Outdated)'
<1>4. /\ x \in {0, 1} /\ y \in {0, 1} /\ z \in {0, 1}
      /\ u \in {0, 1} /\ v \in {0, 1} /\ w \in {0, 1}
      /\ x = 1 <=> Foreign("a")
      /\ y = 1 <=> Foreign("b")
      /\ z = 1 <=> Outdated
      /\ u = 1 <=> Foreign("a")'
      /\ v = 1 <=> Foreign("b")'
      /\ w = 1 <=> Outdated'
    BY DEF One
<1>5. Upset = x + y + z /\ Upset' = u + v + w
    BY DEF Upset
<1> HIDE DEF x, y, z, u, v, w
<1>6. u <= x /\ v <= y /\ w <= z
  <2>1. (u = 1 => x = 1) /\ (v = 1 => y = 1) /\ (w = 1 => z = 1)
      BY <1>1, <1>2, <1>3, <1>4
  <2> QED
      BY <1>4, <2>1
<1>7. Upset' < Upset \/ (Upset' = Upset /\ u = x /\ v = y /\ w = z)
  <2>1. u + v + w < x + y + z \/ (u + v + w = x + y + z /\ u = x /\ v = y /\ w = z)
      BY <1>4, <1>6
  <2> QED
      BY <1>5, <2>1
<1>8. ASSUME u = x, v = y, w = z PROVE SameWorld
  <2>1. pool' = pool
      BY <1>4, <1>8, PoolLearns
  <2>2. \A s \in Side : Foreign(s)' <=> Foreign(s)
      BY <1>1, <1>3, <1>4, <1>8
  <2> QED
      BY <2>1, <2>2, StillWorld DEF SameWorld
<1> QED
    BY <1>7, <1>8

\* So the sides are as eligible as before, and so much is left for them.
LEMMA SameBids ==
    ASSUME TypeOK, TypeOK', Still, SameWorld, NEW s \in Side
    PROVE  Bids(Seen'[s]) = Bids(Seen[s]) /\ Seen'[s].ask = Seen[s].ask
<1>1. depth'[s] = depth[s] /\ (Foreign(s)' <=> Foreign(s))
    BY DEF SameWorld
<1> DEFINE own == {p \in Levels : mine[s].left > 0 /\ mine[s].price = p}
           new == {p \in Levels : mine'[s].left > 0 /\ mine'[s].price = p}
<1>2. /\ Bids(Seen[s]) = Bids(depth[s]) \cup own /\ Bids(Seen'[s]) = Bids(depth[s]) \cup new
      /\ Seen'[s].ask = depth[s].ask /\ Seen[s].ask = depth[s].ask
    BY <1>1, SeenBids, SeenBidsNext
<1>3. CASE Foreign(s)
  <2>1. new = own
      BY <1>1, <1>3, ForeignEnds DEF Foreign
  <2> QED
      BY <1>2, <2>1
<1>4. CASE ~Foreign(s)
  <2>1. ~Foreign(s)'
      BY <1>1, <1>4
  <2>2. own \subseteq Bids(depth[s]) /\ new \subseteq Bids(depth[s])
      BY <1>1, <1>4, <2>1 DEF Foreign
  <2> QED
      BY <1>2, <2>2
<1> QED
    BY <1>3, <1>4

LEMMA SameSides ==
    ASSUME TypeOK, TypeOK', Still, SameWorld
    PROVE  /\ Suitable' = Suitable /\ Money' = Money /\ SharesLeft' = SharesLeft
           /\ \A s : Quoted(s)' <=> Quoted(s)
<1>1. template' = template /\ pool' = pool /\ held' = held /\ balance' = balance
    BY DEF SameWorld
<1>2. ASSUME NEW s \in Side PROVE Eligible(Seen[s], s)' <=> Eligible(Seen[s], s)
  <2>1. Bids(Seen'[s]) = Bids(Seen[s]) /\ Seen'[s].ask = Seen[s].ask
      BY SameBids
  <2>2. Best(Seen'[s]) = Best(Seen[s]) /\ TwoSided(Seen'[s]) = TwoSided(Seen[s])
      BY <2>1, SameBook
  <2> QED
      BY <1>1, <2>1, <2>2 DEF Eligible, Wanted, Priced
<1>3. Suitable' = Suitable
    BY <1>2 DEF Suitable
<1>4. Money' = Money /\ SharesLeft' = SharesLeft
    BY <1>1 DEF Money, SharesLeft, HeldValue, HeldShares
<1>5. \A s : Quoted(s)' <=> Quoted(s)
    BY <1>1, <1>3, <1>4 DEF Quoted
<1> QED
    BY <1>3, <1>4, <1>5

\* The scale a side is measured on is as it was, if "a" has not moved before "b".
LEMMA SameScale ==
    ASSUME TypeOK, TypeOK', Still, SameWorld,
           NEW s \in Side, s = "a" \/ mine'["a"] = mine["a"]
    PROVE  /\ Root(s)' = Root(s) /\ Base(s)' = Base(s) /\ Kept(s)' = Kept(s)
           /\ Quoted(s)' <=> Quoted(s)
           /\ mine'[s] = mine[s] => Due(s)' = Due(s)
<1>1. /\ template' = template /\ pool' = pool /\ depth' = depth /\ balance' = balance
      /\ Money' = Money /\ SharesLeft' = SharesLeft
      /\ \A z : Quoted(z)' <=> Quoted(z)
    BY SameSides DEF SameWorld
<1>2. BarePrice(s)' = BarePrice(s)
    BY <1>1 DEF BarePrice, PriceOn
<1>3. Root(s)' = Root(s)
    BY <1>1, <1>2 DEF Root
<1>4. \A p : Lot(p)' = Lot(p)
    BY <1>1 DEF Lot
<1>5. s = "a" \/ First' = First
  <2>1. ASSUME mine'["a"] = mine["a"] PROVE First' = First
    <3>1. Seen'["a"] = Seen["a"]
        BY <1>1, <2>1, SideIsFinite DEF Seen
    <3>2. PriceOn(Seen["a"])' = PriceOn(Seen["a"])
        BY <1>1, <3>1 DEF PriceOn
    <3> DEFINE x == PriceOn(Seen["a"])
               m == Money
               n == SharesLeft
    <3>3. Capped(x, m, n)' = Capped(x, m, n)
        BY <1>1, <1>4, <3>2 DEF Capped
    <3> QED
        BY <1>1, <3>3 DEF First
  <2> QED
      BY <2>1
<1>6. \A p : Sized(s, p)' = Sized(s, p)
  <2>1. CASE s = "a"
      BY <1>1, <1>4, <2>1 DEF Sized, Capped
  <2>2. CASE s # "a"
      BY <1>1, <1>4, <1>5, <2>2 DEF Sized, Capped
  <2> QED
      BY <2>1, <2>2
<1>7. Base(s)' = Base(s)
  <2>1. Sized(s, BarePrice(s))' = Sized(s, BarePrice(s))
      BY <1>1, <1>2, <1>4, <1>5 DEF Sized, Capped
  <2> QED
      BY <2>1 DEF Base
<1>8. Kept(s)' = Kept(s)
    BY <1>1, <1>6 DEF Kept, Near, Tolerance
<1>9. mine'[s] = mine[s] => Due(s)' = Due(s)
    BY <1>1, <1>3, <1>7, <1>8 DEF Due
<1> QED
    BY <1>1, <1>3, <1>7, <1>8, <1>9

\* What a round does to a side, when it was filtered on the sides as they are.
LEMMA PlaceWorks ==
    ASSUME TypeOK, Place, round.listed = Suitable, NEW s \in Side
    PROVE  /\ Quoted(s) => mine'[s] = Converge(s, Sized(s, PriceOn(Seen[s])))
           /\ ~Quoted(s) => mine'[s] = mine[s] \/ mine'[s] = NoOrder
<1> DEFINE free == {z \in Suitable : held[z] = 0}
           worked == IF Money > 0 /\ SharesLeft > 0 THEN Suitable ELSE Suitable \ free
           prices == [z \in Side |-> IF z \in free THEN PriceOn(Seen[z]) ELSE 0]
           t == Ladders(prices)
<1>1. {z \in round.listed : TwoSided(Seen[z])} = Suitable
    BY DEF Suitable, Eligible
<1>2. mine' = [z \in Side |-> IF z \in worked THEN Converge(z, t[z]) ELSE mine[z]]
    BY <1>1 DEF Place
<1>3. "a" \in Side /\ "b" \in Side /\ "a" # "b" /\ (s = "a" \/ s = "b")
    BY DEF Side
<1> DEFINE top == Capped(prices["a"], Money, SharesLeft)
<1>4. t["a"] = top
    BY <1>3 DEF Ladders
<1>5. t["b"] = Capped(prices["b"], Money - top.price * top.shares, SharesLeft - top.shares)
    BY <1>3 DEF Ladders
<1>6. Money > 0 /\ SharesLeft > 0 => top = First
  <2>1. ASSUME Money > 0, SharesLeft > 0, "a" \in free PROVE top = First
      BY <1>3, <2>1 DEF First, Quoted
  <2>2. ASSUME "a" \notin free PROVE top = First
    <3>1. prices["a"] = 0 /\ ~Quoted("a")
        BY <1>3, <2>2 DEF Quoted
    <3> QED
        BY <3>1 DEF First, Capped
  <2> QED
      BY <2>1, <2>2
<1>7. prices[s] = IF s \in free THEN PriceOn(Seen[s]) ELSE 0
    OBVIOUS
<1> HIDE DEF t, top, prices
<1>8. CASE Quoted(s)
  <2>1. s \in free /\ s \in worked /\ Money > 0 /\ SharesLeft > 0
      BY <1>8 DEF Quoted
  <2>2. t[s] = Sized(s, PriceOn(Seen[s]))
    <3>1. CASE s = "a"
        BY <1>4, <1>7, <2>1, <3>1 DEF Sized, top
    <3>2. CASE s = "b"
        BY <1>3, <1>5, <1>6, <1>7, <2>1, <3>2 DEF Sized
    <3> QED
        BY <1>3, <3>1, <3>2
  <2>3. mine'[s] = Converge(s, t[s])
    <3> HIDE DEF worked
    <3> QED
        BY <1>2, <2>1
  <2> QED
      BY <1>8, <2>2, <2>3
<1>9. CASE ~Quoted(s)
  <2>1. ASSUME s \notin worked PROVE mine'[s] = mine[s]
    <3> HIDE DEF worked
    <3> QED
        BY <1>2, <2>1
  <2>2. ASSUME s \in worked PROVE mine'[s] = NoOrder
    <3>1. s \notin free
        BY <1>9, <2>2 DEF Quoted
    <3>2. prices[s] = 0
        BY <1>7, <3>1
    <3>3. t[s].price = 0
      <4>1. CASE s = "a"
        <5>1. t[s] = Capped(0, Money, SharesLeft)
            BY <1>4, <3>2, <4>1 DEF top
        <5> QED
            BY <5>1 DEF Capped, Unpriced
      <4>2. CASE s = "b"
          BY <1>5, <3>2, <4>2 DEF Capped, Unpriced
      <4> QED
          BY <1>3, <4>1, <4>2
    <3>4. mine'[s] = Converge(s, t[s])
      <4> HIDE DEF worked
      <4> QED
          BY <1>2, <2>2
    <3> QED
        BY <3>3, <3>4 DEF Converge
  <2> QED
      BY <1>9, <2>1, <2>2
<1> QED
    BY <1>8, <1>9

LEMMA SizedFits ==
    ASSUME TypeOK, NEW s \in Side, NEW p \in Nat, NEW c, c = Sized(s, p)
    PROVE  /\ c.shares \in Nat /\ (c.price = 0 \/ c.price = p)
           /\ c.price > 0 => c.shares >= MinSize
<1>1. Money \in Nat /\ SharesLeft \in Nat
    BY BudgetIsNat
<1>2. CASE s = "a"
    BY <1>1, <1>2, CappedFits DEF Sized
<1>3. CASE s # "a"
  <2>1. /\ First.shares \in Nat /\ First.shares <= SharesLeft
        /\ First.price * First.shares \in Nat /\ First.price * First.shares <= Money
    <3>1. CASE Quoted("a")
      <4>1. TwoSided(Seen["a"]) /\ Seen["a"] \in Book /\ template \in Template
          BY <3>1, SeenTyped, WorldAssumption DEF Quoted, Suitable, Eligible, TypeOK
      <4>2. PriceOn(Seen["a"]) \in Nat
        <5>1. CASE PriceOn(Seen["a"]) = 0
            BY <5>1
        <5>2. CASE PriceOn(Seen["a"]) # 0
            BY <4>1, <5>2, PriceIsBid, BidsAreLevels
        <5> QED
            BY <5>1, <5>2
      <4>3. First = Capped(PriceOn(Seen["a"]), Money, SharesLeft)
          BY <3>1 DEF First
      <4> QED
          BY <1>1, <4>2, <4>3, CappedFits
    <3>2. CASE ~Quoted("a")
        BY <1>1, <3>2 DEF First, Unpriced
    <3> QED
        BY <3>1, <3>2
  <2> DEFINE m == Money - First.price * First.shares
             n == SharesLeft - First.shares
  <2>2. m \in Nat /\ n \in Nat
      BY <1>1, <2>1
  <2>3. c = Capped(p, m, n)
      BY <1>3 DEF Sized
  <2> HIDE DEF m, n
  <2> QED
      BY <2>2, <2>3, CappedFits
<1> QED
    BY <1>2, <1>3

\* Without the own buy there is the root or nothing.
LEMMA BareIsRoot == ASSUME NEW s PROVE BarePrice(s) = 0 \/ BarePrice(s) = Root(s)
BY DEF BarePrice, Root, PriceOn, GapPrice, BareWorth

LEMMA BaseNeedsPrice == ASSUME NEW s, Base(s) PROVE BarePrice(s) # 0
BY DEF Base, Sized, Capped, Unpriced

\* A round that moves the buy of a side leaves less to happen there.
LEMMA PlaceDrops ==
    ASSUME TypeOK, NEW s \in Side, Quoted(s),
           NEW n \in Order \cup {NoOrder}, n = Converge(s, Sized(s, PriceOn(Seen[s]))),
           n # mine[s],
           Foreign(s) => n.left # 0 /\ n.price = mine[s].price
    PROVE  DueAt(Root(s), Base(s), Kept(s), n) < DueAt(Root(s), Base(s), Kept(s), mine[s])
<1> DEFINE x == PriceOn(Seen[s])
           c == Sized(s, x)
           m == mine[s]
           root == Root(s)
           base == Base(s)
           bare == BarePrice(s)
           kept == Kept(s)
<1>1. Seen[s] \in Book /\ TwoSided(Seen[s]) /\ template \in Template
    BY SeenTyped, WorldAssumption DEF Quoted, Suitable, Eligible, TypeOK
<1>2. x = 0 \/ x \in Levels
    BY <1>1, PriceIsBid, BidsAreLevels
<1>3. x \in Nat
    BY <1>2, BidsAreLevels
<1>4. c.shares \in Nat /\ (c.price = 0 \/ c.price = x) /\ (c.price > 0 => c.shares >= MinSize)
    BY <1>3, SizedFits
<1>5. MinSize \in Nat /\ MinSize > 0
    BY NumbersAssumption
<1>6. base <=> Sized(s, bare).price # 0
    BY DEF Base
<1>7. bare = 0 \/ bare = root
    BY BareIsRoot
<1>8. base => bare # 0
    BY BaseNeedsPrice
<1>9. \A p \in Levels, l \in Nat : <<p, l>> \in kept <=> Near(l, Sized(s, p).shares)
    BY DEF Kept
<1>10. m.left = 0 => x = bare
    BY <1>1, PriceShape
<1>11. m.left # 0 => m \in Order /\ m.price \in Levels /\ m.left \in Nat /\ m.left > 0
    BY Resting
<1>12. m.left # 0 /\ ~Foreign(s) =>
           /\ x = 0 \/ x = m.price \/ x = root \/ x < m.price
           /\ m.price = root => x = 0 \/ x = m.price
           /\ m.price = root /\ m.price = bare => x = m.price
    BY <1>1, <1>11, PriceShape DEF Foreign
<1>13. base \in BOOLEAN
    BY DEF Base
<1>14. m \in Order \cup {NoOrder} /\ (m.left = 0 => m = NoOrder)
    BY Resting DEF TypeOK
<1>15. /\ n = (IF m.left > 0 /\ c.price > 0 /\ m.price = c.price /\ Near(m.left, c.shares) THEN m
               ELSE IF c.price = 0 THEN NoOrder
               ELSE [price |-> c.price, left |-> c.shares, hit |-> FALSE])
    BY DEF Converge
<1> HIDE DEF x, m, root, base, bare, kept
<1>16. CASE c.price = 0
  <2>1. n = NoOrder /\ n.left = 0
      BY <1>15, <1>16 DEF NoOrder
  <2>2. m.left # 0 /\ ~Foreign(s)
      BY <1>14, <2>1 DEF m
  <2>3. ASSUME m.price = root PROVE ~base
    <3>1. SUFFICES ASSUME base PROVE FALSE
        OBVIOUS
    <3>2. m.price = bare
        BY <1>7, <1>8, <2>3, <3>1
    <3>3. x = bare
        BY <1>12, <2>2, <2>3, <3>2
    <3> QED
        BY <1>6, <1>16, <3>1, <3>3
  <2>4. DueAt(root, base, kept, n) < DueAt(root, base, kept, m)
      BY <1>13, <1>14, <2>1, <2>2, <2>3, DueDrops
  <2> QED
      BY <2>4 DEF root, base, kept, m
<1>17. CASE c.price # 0
  <2>1. c.price = x /\ x \in Levels /\ c.price > 0 /\ c.shares \in Nat /\ c.shares > 0
    <3>1. c.price = x /\ x \in Levels
        BY <1>2, <1>4, <1>17
    <3>2. c.price > 0
        BY <3>1, BidsAreLevels
    <3> HIDE DEF c
    <3> QED
        BY <1>4, <1>5, <3>1, <3>2
  <2>2. /\ n.price = x /\ n.left = c.shares /\ n.left # 0
        /\ m.left # 0 /\ m.price = x => ~Near(m.left, c.shares)
    <3> HIDE DEF c
    <3>1. ~(m.left > 0 /\ c.price > 0 /\ m.price = c.price /\ Near(m.left, c.shares))
        BY <1>15 DEF m
    <3>2. n = [price |-> c.price, left |-> c.shares, hit |-> FALSE]
        BY <1>15, <1>17, <3>1
    <3> QED
        BY <1>11, <2>1, <3>1, <3>2
  <2>3. <<n.price, n.left>> \in kept
    <3>1. \A k \in Nat : Near(k, k)
        BY ToleranceIs DEF Near, Max2
    <3> QED
        BY <1>9, <2>1, <2>2, <3>1
  <2>4. ASSUME m.left # 0, n.price = m.price PROVE <<m.price, m.left>> \notin kept
      BY <1>9, <1>11, <2>1, <2>2, <2>4
  <2>5. ASSUME m.left = 0 PROVE n.price = root /\ base
    <3>1. x = bare
        BY <1>10, <2>5
    <3>2. Sized(s, bare).price # 0
        BY <1>17, <3>1
    <3>3. bare # 0
        BY <2>1, <3>1, BidsAreLevels
    <3> QED
        BY <1>6, <1>7, <2>2, <3>1, <3>2, <3>3
  <2>6. ASSUME m.left # 0, n.price # m.price
        PROVE  m.price # root /\ (n.price = root \/ n.price < m.price)
    <3>1. ~Foreign(s)
        BY <2>6 DEF m
    <3>2. x # 0 /\ x # m.price
        BY <2>1, <2>2, <2>6, BidsAreLevels
    <3> QED
        BY <1>12, <2>2, <2>6, <3>1, <3>2
  <2>7. DueAt(root, base, kept, n) < DueAt(root, base, kept, m)
      BY <1>13, <1>14, <2>2, <2>3, <2>4, <2>5, <2>6, DueDrops
  <2> QED
      BY <2>7 DEF root, base, kept, m
<1> QED
    BY <1>16, <1>17

\* Step 3 does not take back what would be placed again, but for a reward that fell
\* or for what rounds do not ask.
LEMMA ComplyDrops ==
    ASSUME TypeOK, ~flapped', NEW s \in Side, Quoted(s), Comply(s), pool' = pool,
           pool.spread = live.spread, ~Foreign(s), mine[s].price = Root(s), Base(s)
    PROVE  FALSE
<1> DEFINE b == Seen[s]
           p == mine[s].price
           said == [spread |-> pool.spread, rate |-> pool.rate]
<1>1. /\ TwoSided(b) /\ b \in Book /\ template \in Template /\ template \in Templates
      /\ Eligible(b, s)
    BY SeenTyped, WorldAssumption DEF Quoted, Suitable, Eligible, TypeOK
<1>2. mine[s].left > 0 /\ p \in Levels /\ p \in Bids(depth[s])
    BY Resting DEF Comply, Foreign
<1>3. p = BarePrice(s)
    BY BareIsRoot, BaseNeedsPrice
<1>4. PriceOn(b) = p /\ p # 0
  <2>1. PriceOn(Seen[s]) = mine[s].price
    <3> DEFINE x == PriceOn(Seen[s])
    <3>1. TwoSided(Seen[s]) /\ mine[s].left > 0 /\ mine[s].price \in Bids(depth[s])
        BY <1>1, <1>2
    <3>2. mine[s].price = Root(s) /\ mine[s].price = BarePrice(s)
        BY <1>3
    <3>3. x = mine[s].price
        BY <3>1, <3>2, PriceShape
    <3> QED
        BY <3>3
  <2> QED
      BY <1>2, <2>1, BidsAreLevels
<1>6. said.spread = pool.spread /\ said.rate = pool.rate
    OBVIOUS
<1>7. \/ Verdict(b, p, said) \in {"keep", "skip"}
      \/ Verdict(b, p, said) \in {"price", "gap"} /\ Unasked(b, p)
  <2> HIDE DEF said
  <2> QED
      BY <1>1, <1>4, <1>6, RoundsAgree
<1>8. /\ pool.rate >= template.reward /\ pool.rate \in Nat /\ template.reward \in Nat
      /\ live.rate \in Nat /\ live.spread \in Nat
    BY <1>1, WorldAssumption DEF Eligible, Wanted, TypeOK, Template, Reward
<1>9. PICK heard \in {live, Nothing} :
          \E verdict \in {Verdict(b, p, heard)} \ {"keep", "skip"} :
             /\ pool' = WritesBack(heard, verdict)
             /\ ~(verdict \in {"price", "gap"} /\ Unasked(b, p))
    BY DEF Comply
<1>10. Verdict(b, p, said) # "spread"
    BY <1>7
<1>11. ~(TwoSided(b) /\ b.ask - Best(b) >= template.spread * PerCent)
    BY <1>10 DEF Verdict
<1>12. CASE heard = Nothing
  <2>1. heard.rate = -1 /\ heard.spread = -1
      BY <1>12 DEF Nothing
  <2>2. Verdict(b, p, heard) = "skip"
      BY <1>11, <2>1 DEF Verdict
  <2> QED
      BY <1>9, <2>2
<1>13. CASE heard = live /\ live.rate < template.reward
  <2>1. Verdict(b, p, heard) = "reward"
      BY <1>8, <1>11, <1>13 DEF Verdict
  <2>2. pool' = [pool EXCEPT !.rate = live.rate]
      BY <1>9, <1>13, <2>1 DEF WritesBack
  <2>3. pool.rate = live.rate
      BY <2>2 DEF TypeOK
  <2> QED
      BY <1>8, <1>13, <2>3
<1>14. CASE heard = live /\ ~(live.rate < template.reward)
  <2>1. Verdict(b, p, heard) = Verdict(b, p, said)
      BY <1>6, <1>8, <1>14 DEF Verdict
  <2> QED
      BY <1>7, <1>9, <2>1
<1> QED
    BY <1>9, <1>12, <1>13, <1>14

\* The buy that changes leaves less to happen on its side.
LEMMA DueFalls ==
    ASSUME TypeOK, TypeOK', ~flapped', Still, SameWorld, pool.spread = live.spread,
           Dropout \/ Place => round.listed = Suitable,
           NEW s \in Side, s = "a" \/ mine'["a"] = mine["a"], mine'[s] # mine[s]
    PROVE  Due(s)' < Due(s)
<1> DEFINE d(m) == DueAt(Root(s), Base(s), Kept(s), m)
<1>1. Due(s) = IF Quoted(s) THEN d(mine[s]) ELSE One(mine[s].left > 0)
    BY DEF Due
<1>2. Due(s)' = IF Quoted(s) THEN d(mine'[s]) ELSE One(mine'[s].left > 0)
    BY SameScale DEF Due
<1>3. mine'[s] \in Order \cup {NoOrder} /\ mine[s] \in Order \cup {NoOrder}
    BY DEF TypeOK
<1>4. Foreign(s) => mine'[s].left # 0 /\ mine'[s].price = mine[s].price
  <2>1. Foreign(s) => Foreign(s)'
      BY DEF SameWorld
  <2>2. Foreign(s)' => mine'[s].left # 0 /\ mine'[s].price = mine[s].price
      BY ForeignEnds
  <2> QED
      BY <2>1, <2>2
<1>5. NoOrder.left = 0 /\ (mine[s] # NoOrder => mine[s].left > 0)
    BY Resting DEF NoOrder
<1>6. ASSUME Quoted(s) PROVE d(mine'[s]) < d(mine[s])
  <2>1. CASE Filter \/ UNCHANGED vars
      BY <2>1 DEF Filter, vars
  <2>2. CASE Dropout
      BY <1>6, <2>2 DEF Dropout, Quoted
  <2>3. CASE Place
    <3>1. mine'[s] = Converge(s, Sized(s, PriceOn(Seen[s])))
        BY <1>6, <2>3, PlaceWorks
    <3> QED
        BY <1>3, <1>4, <1>6, <3>1, PlaceDrops
  <2>4. ASSUME NEW z \in Side, Comply(z) PROVE d(mine'[s]) < d(mine[s])
    <3>1. z = s
        BY <2>4 DEF Comply, TypeOK
    <3>2. mine'[s] = NoOrder /\ Comply(s)
        BY <2>4, <3>1 DEF Comply, TypeOK
    <3>3. ~Foreign(s) /\ mine'[s].left = 0 /\ mine[s].left # 0
        BY <1>4, <1>5, <3>2
    <3>4. mine[s].price = Root(s) => ~Base(s)
        BY <1>6, <3>2, <3>3, ComplyDrops DEF SameWorld
    <3>5. Base(s) \in BOOLEAN
        BY DEF Base
    <3> QED
        BY <1>3, <3>3, <3>4, <3>5, DueDrops
  <2> QED
      BY <2>1, <2>2, <2>3, <2>4 DEF Still
<1>7. ASSUME ~Quoted(s) PROVE One(mine'[s].left > 0) < One(mine[s].left > 0)
  <2>1. mine'[s] = NoOrder
    <3>1. CASE Filter \/ UNCHANGED vars
        BY <3>1 DEF Filter, vars
    <3>2. CASE Dropout
        BY <3>2 DEF Dropout
    <3>3. CASE Place
        BY <1>7, <3>3, PlaceWorks
    <3>4. ASSUME NEW z \in Side, Comply(z) PROVE mine'[s] = NoOrder
        BY <3>4 DEF Comply, TypeOK
    <3> QED
        BY <3>1, <3>2, <3>3, <3>4 DEF Still
  <2> QED
      BY <1>5, <2>1 DEF One
<1> QED
    BY <1>1, <1>2, <1>6, <1>7

\* A round that was late is over with it, and none becomes late.
LEMMA LateEnds ==
    ASSUME TypeOK, TypeOK', Still, SameWorld
    PROVE  /\ Late' => Late
           /\ Filter \/ Dropout \/ Place => ~Late'
<1>1. Suitable' = Suitable
    BY SameSides
<1>2. CASE Filter
  <2>1. round'.listed = Suitable
      BY <1>2 DEF Filter, Suitable
  <2> QED
      BY <1>1, <2>1 DEF Late
<1>3. CASE Dropout \/ Place
  <2>1. round'.at = "idle"
      BY <1>3 DEF Dropout, Place, Waiting
  <2> QED
      BY <2>1 DEF Late
<1>4. CASE (\E s \in Side : Comply(s)) \/ UNCHANGED vars
  <2>1. round'.at = round.at /\ round'.listed = round.listed
      BY <1>4 DEF Comply, TypeOK, vars
  <2>2. Late' => Late
      BY <1>1, <2>1 DEF Late
  <2> QED
      BY <1>2, <1>3, <2>2
<1> QED
    BY <1>2, <1>3, <1>4 DEF Still

\* While the world stands still what is left never grows, and each change of the
\* own buys takes some of it.
LEMMA StillSettles ==
    ASSUME TypeOK, TypeOK', ~flapped', Still, pool.spread = live.spread
    PROVE  Left' <= Left /\ (mine' # mine => Left' < Left)
<1>1. Left \in Nat /\ Left' \in Nat
    BY LeftIsBounded, LeftIsBoundedNext
<1>2. CASE Upset' < Upset
    BY <1>1, <1>2, LeftDrops
<1>3. CASE Upset' = Upset /\ SameWorld
  <2>1. (Late' => Late) /\ (Filter \/ Dropout \/ Place => ~Late')
      BY <1>3, LateEnds
  <2>2. CASE Late /\ ~Late'
      BY <1>1, <1>3, <2>2, LeftDrops
  <2>3. CASE ~(Late /\ ~Late')
    <3>1. Dropout \/ Place => round.listed = Suitable
        BY <2>1, <2>3 DEF Dropout, Place, Late
    <3>2. \A s \in Side : s = "a" \/ s = "b"
        BY DEF Side
    <3>3. CASE mine'["a"] # mine["a"]
      <4>1. Due("a")' < Due("a")
          BY <1>3, <3>1, <3>3, SideIsFinite, DueFalls
      <4> QED
          BY <1>1, <1>3, <2>1, <4>1, WithinDrops, LeftDrops
    <3>4. CASE mine'["a"] = mine["a"] /\ mine'["b"] # mine["b"]
      <4>1. Due("b")' < Due("b")
          BY <1>3, <3>1, <3>4, SideIsFinite, DueFalls
      <4>2. Due("a")' = Due("a")
          BY <1>3, <3>4, SideIsFinite, SameScale
      <4> QED
          BY <1>1, <1>3, <2>1, <4>1, <4>2, WithinDrops, LeftDrops
    <3>5. CASE mine'["a"] = mine["a"] /\ mine'["b"] = mine["b"]
      <4>1. mine' = mine
          BY <3>2, <3>5 DEF TypeOK
      <4>2. Due("a")' = Due("a") /\ Due("b")' = Due("b")
          BY <1>3, <3>5, SideIsFinite, SameScale
      <4>3. Within' = Within
          BY <4>2 DEF Within
      <4> QED
          BY <1>3, <2>1, <4>1, <4>3, LeftStays
    <3> QED
        BY <3>3, <3>4, <3>5
  <2> QED
      BY <2>2, <2>3
<1> QED
    BY <1>2, <1>3, UpsetFalls

-----------------------------------------------------------------------------
\* The buys come to rest

\* The changes so far and those that are left are within the bound; with a reward
\* spread in the pool that is not the live one none are counted.
NearRest == flapped \/
    IF pool.spread = live.spread THEN churn + Left <= Changes ELSE churn = 0

LEMMA InitComesToRest == Init /\ Changes >= Enough => NearRest
<1> SUFFICES ASSUME Init, Changes >= Enough PROVE NearRest
    OBVIOUS
<1>1. Left \in Nat /\ Left < Enough
    BY InitTypeOK, LeftIsBounded
<1>2. Enough \in Int /\ Changes \in Int
    BY TopIsNat, NumbersAssumption DEF Enough
<1> QED
    BY <1>1, <1>2 DEF Init, NearRest

LEMMA NextComesToRest ==
    ASSUME Changes >= Enough, TypeOK, TypeOK', NearRest, [Next]_vars
    PROVE  NearRest'
<1>1. /\ Left \in Nat /\ Left' \in Nat /\ Left' < Enough
      /\ Enough \in Int /\ Changes \in Nat /\ churn \in Nat
    BY LeftIsBounded, LeftIsBoundedNext, TopIsNat, NumbersAssumption DEF Enough, TypeOK
<1>2. CASE Scan \/ World
  <2>1. churn' = 0
      BY <1>2 DEF Scan, World, RewardMoves, BalanceMoves, EditTemplate, BookMoves, Exit, Fill, Moved
  <2> DEFINE l == Left'
  <2>2. l \in Nat /\ l < Enough
      BY <1>1
  <2> HIDE DEF l
  <2>3. 0 + l <= Changes
      BY <1>1, <2>2
  <2> QED
      BY <2>1, <2>3 DEF NearRest, l
<1>3. CASE Still /\ flapped'
    BY <1>3 DEF NearRest
<1>4. CASE Still /\ ~flapped'
  <2>1. pool'.spread = pool.spread /\ live' = live
      BY <1>4, PoolLearns, StillWorld
  <2>0. ~flapped
    <3>1. (\E s \in Side : Comply(s)) => (flapped => flapped')
        BY DEF Comply
    <3> QED
        BY <1>4, <3>1 DEF Still, Filter, Dropout, Place, vars
  <2>2. churn' = churn \/ Churned
      BY <1>4 DEF Still, Filter, Dropout, Place, Comply, vars
  <2>3. churn' = churn \/ mine' # mine
      BY <2>2 DEF Churned
  <2>4. CASE pool.spread = live.spread
    <3>1. Left' <= Left /\ (mine' # mine => Left' < Left)
        BY <1>4, <2>4, StillSettles
    <3>2. churn' = churn \/ (mine' # mine /\ churn' <= churn + 1 /\ churn' \in Int)
        BY <1>1, <2>2, <2>3 DEF Churned, Min2
    <3>3. churn + Left <= Changes
        BY <2>0, <2>4 DEF NearRest
    <3>4. churn' + Left' <= Changes
        BY <1>1, <3>1, <3>2, <3>3
    <3> QED
        BY <2>1, <2>4, <3>4 DEF NearRest
  <2>5. CASE pool.spread # live.spread
    <3>1. churn' = churn
        BY <2>2, <2>5 DEF Churned
    <3> QED
        BY <2>0, <2>1, <2>5, <3>1 DEF NearRest
  <2> QED
      BY <2>4, <2>5
<1> QED
    BY <1>2, <1>3, <1>4 DEF Next, Still

LEMMA RestIsSettled == TypeOK /\ NearRest => Settles
BY LeftIsBounded, NumbersAssumption DEF TypeOK, NearRest, Settles

\* The own buys come to rest: while the world stands still and the pool has the live
\* reward spread, rounds and Step 3 change them no more than a number of times that
\* the number of price levels bounds, whatever books, rewards, balances and settings
\* there are, unless Step 3 has in fact cancelled for what rounds do not ask.
THEOREM BuysComeToRest == ASSUME Changes >= Enough PROVE Spec => []Settles
<1>1. Init => TypeOK /\ NearRest
    BY InitTypeOK, InitComesToRest
<1>2. TypeOK /\ NearRest /\ [Next]_vars => (TypeOK /\ NearRest)'
    BY NextTypeOK, NextComesToRest
<1>3. TypeOK /\ NearRest => Settles
    BY RestIsSettled
<1> QED
    BY <1>1, <1>2, <1>3, PTL DEF Spec

=============================================================================
