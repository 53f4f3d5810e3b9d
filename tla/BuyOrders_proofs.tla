--------------------------- MODULE BuyOrders_proofs ---------------------------
(***************************************************************************)
(* Proofs about BuyOrders: types for every environment, and, for a single  *)
(* placer whose cancels tell the truth, that a token never has two buys    *)
(* resting and that the number of quoted markets stays within its cap.     *)
(***************************************************************************)
EXTENDS BuyOrders, FiniteSetTheorems, TLAPS

-----------------------------------------------------------------------------
\* Types

\* A job that places has a price to place at.
JobsPriced == \A p \in Placers : \A j \in pl[p].jobs : j.shares > 0 => j.price \in Prices
TInv == TypeOK /\ JobsPriced

\* What cancelling may do to the exchange: some orders end, the others stay.
LEMMA CancelTypes ==
    ASSUME TypeOK, NEW ids, NEW r \in CancelAnswers(ids)
    PROVE  /\ r.orders \in [Slots -> Order \cup {None}]
           /\ r.returned \in BOOLEAN
           /\ \A i \in Slots : r.orders[i] = orders[i] \/ r.orders[i] = None
<1>1. PICK k : r.orders = Spared(ids, k) /\ r.returned \in BOOLEAN
    <2>1. CASE r = [orders |-> Spared(ids, {}), returned |-> TRUE]
        BY <2>1
    <2>2. CASE \E k : r = [orders |-> Spared(ids, k), returned |-> FALSE]
        <3>1. PICK k : r = [orders |-> Spared(ids, k), returned |-> FALSE]
            BY <2>2
        <3>. QED
            BY <3>1
    <2>3. CASE \E k : r = [orders |-> Spared(ids, k), returned |-> TRUE]
        <3>1. PICK k : r = [orders |-> Spared(ids, k), returned |-> TRUE]
            BY <2>3
        <3>. QED
            BY <3>1
    <2>. QED
        BY <2>1, <2>2, <2>3 DEF CancelAnswers
<1>2. \A i \in Slots : orders[i] \in Order \cup {None}
    BY DEF TypeOK
<1>3. r.orders = [i \in Slots |-> IF i \in ids \ k THEN None ELSE orders[i]]
    BY <1>1 DEF Spared
<1>. QED
    BY <1>1, <1>2, <1>3

LEMMA IdleType == Idle \in Round
<1>1. NobodyHeld \in [Tokens -> 0..MaxHeld]
    BY SizesAssumption DEF NobodyHeld
<1>. QED
    BY <1>1 DEF Idle, Round

LEMMA OnwardType ==
    ASSUME NEW l \in Round, NEW jobs \in SUBSET Job, NEW todo \in SUBSET Markets
    PROVE  Onward(l, jobs, todo) \in Round
<1>1. [l EXCEPT !.at = "side", !.jobs = jobs, !.todo = todo] \in Round
    BY DEF Round
<1>2. [l EXCEPT !.at = "market", !.jobs = {}, !.todo = todo] \in Round
    BY DEF Round
<1>. QED
    BY <1>1, <1>2, IdleType DEF Onward

\* The jobs of a round that moves on are the ones it was given, or none.
LEMMA OnwardJobs ==
    ASSUME NEW l \in Round, NEW jobs, NEW todo
    PROVE  Onward(l, jobs, todo).jobs = jobs
<1>1. CASE jobs # {}
    BY <1>1 DEF Onward, Round
<1>2. CASE jobs = {} /\ todo # {}
    BY <1>2 DEF Onward, Round
<1>3. CASE jobs = {} /\ todo = {}
    BY <1>3 DEF Onward, Idle
<1>. QED
    BY <1>1, <1>2, <1>3

LEMMA WantType ==
    ASSUME NEW l, NEW t, NEW b \in Int
    PROVE  /\ Want(l, t, b) \in Lots
           /\ Want(l, t, b) > 0 => quote[t] # Off
    BY SizesAssumption DEF Want, SmallerOf, Lots

LEMMA ConvergeType ==
    ASSUME TypeOK, NEW l \in Round, NEW t \in Tokens, NEW want \in Lots,
           want > 0 => quote[t] # Off
    PROVE  /\ Converge(l, t, want) \in Job
           /\ Converge(l, t, want).shares > 0 => Converge(l, t, want).price \in Prices
<1>1. l.snap \subseteq Seen /\ quote[t] \in Prices \cup {Off}
    BY DEF TypeOK, Round
<1>2. \A S \in SUBSET l.snap : {o.id : o \in S} \in SUBSET Slots
    BY <1>1 DEF Seen
<1>3. \A R \in SUBSET l.snap : \A S : {o.id : o \in R \ S} \in SUBSET Slots
    BY <1>2
<1>4. \E R \in SUBSET l.snap : \E K :
        Converge(l, t, want) = [tok |-> t, price |-> quote[t], cancel |-> {o.id : o \in R \ K},
                                shares |-> IF K = {} THEN want ELSE 0]
    <2>. DEFINE R == {o \in l.snap : o.tok = t}
                E == {o \in R : want > 0 /\ o.price = quote[t] /\ o.left = want}
                K == IF E = {} THEN {} ELSE {CHOOSE o \in E : TRUE}
    <2>1. Converge(l, t, want) = [tok |-> t, price |-> quote[t], cancel |-> {o.id : o \in R \ K},
                                  shares |-> IF K = {} THEN want ELSE 0]
        BY DEF Converge
    <2>2. R \in SUBSET l.snap
        OBVIOUS
    <2>. HIDE DEF R, K
    <2>. QED
        BY <2>1, <2>2
<1>5. 0 \in Lots
    BY SizesAssumption DEF Lots
<1>a. PICK R \in SUBSET l.snap : \E K :
        Converge(l, t, want) = [tok |-> t, price |-> quote[t], cancel |-> {o.id : o \in R \ K},
                                shares |-> IF K = {} THEN want ELSE 0]
    BY <1>4
<1>b. PICK K :
        Converge(l, t, want) = [tok |-> t, price |-> quote[t], cancel |-> {o.id : o \in R \ K},
                                shares |-> IF K = {} THEN want ELSE 0]
    BY <1>a
<1>6. (IF K = {} THEN want ELSE 0) \in Lots
    BY <1>5
<1>7. Converge(l, t, want) \in Job
    BY <1>1, <1>3, <1>b, <1>6 DEF Job
<1>8. Converge(l, t, want).shares > 0 => want > 0
    BY <1>b, <1>5 DEF Lots
<1>. QED
    BY <1>1, <1>b, <1>7, <1>8

LEMMA HeldInType ==
    ASSUME NEW h \in [Tokens -> 0..MaxHeld], NEW m
    PROVE  HeldIn(h, m) \in Int
    BY SizesAssumption DEF HeldIn, On

LEMMA MarketJobsType ==
    ASSUME TypeOK, NEW l \in Round, NEW m \in Markets,
           NEW sides \in SUBSET {t \in Tokens : Market(t) = m}
    PROVE  /\ MarketJobs(l, m, sides) \subseteq Job
           /\ \A j \in MarketJobs(l, m, sides) : j.shares > 0 => j.price \in Prices
<1>. DEFINE budget == MaxShares - HeldIn(l.held, m)
            first == IF <<m, "a">> \in sides THEN Want(l, <<m, "a">>, budget) ELSE 0
            want == [t \in sides |-> IF t[2] = "a" THEN first ELSE Want(l, t, budget - first)]
            taken == {t \in sides : l.held[t] > 0 \/ budget > 0}
<1>1. budget \in Int
    BY HeldInType, SizesAssumption DEF Round
<1>2. first \in Lots /\ first \in Int
    <2>1. 0 \in Lots
        BY SizesAssumption DEF Lots
    <2>. HIDE DEF budget
    <2>. QED
        BY <1>1, <2>1, WantType DEF Lots
<1>3. \A t \in sides : want[t] \in Lots /\ (want[t] > 0 => quote[t] # Off)
    <2>. TAKE t \in sides
    <2>1. CASE t[2] = "a"
        <3>1. t = <<m, "a">>
            BY <2>1, TokensAssumption DEF Market
        <3>. HIDE DEF budget
        <3>2. Want(l, t, budget) \in Lots /\ (Want(l, t, budget) > 0 => quote[t] # Off)
            BY <1>1, WantType
        <3>. QED
            BY <2>1, <3>1, <3>2
    <2>2. CASE t[2] # "a"
        <3>. DEFINE b == budget - first
        <3>1. b \in Int
            <4>. HIDE DEF budget, first
            <4>. QED
                BY <1>1, <1>2
        <3>. HIDE DEF b
        <3>2. Want(l, t, b) \in Lots /\ (Want(l, t, b) > 0 => quote[t] # Off)
            BY <3>1, WantType
        <3>3. want[t] = Want(l, t, b)
            BY <2>2 DEF b
        <3>. QED
            BY <3>2, <3>3
    <2>. QED
        BY <2>1, <2>2
<1>4. MarketJobs(l, m, sides) =
          {j \in {Converge(l, t, want[t]) : t \in taken} : j.cancel # {} \/ j.shares > 0}
    BY DEF MarketJobs
<1>. HIDE DEF want, budget, first
<1>5. \A t \in taken : /\ Converge(l, t, want[t]) \in Job
                       /\ Converge(l, t, want[t]).shares > 0 =>
                              Converge(l, t, want[t]).price \in Prices
    BY <1>3, ConvergeType
<1>. HIDE DEF taken
<1>. QED
    BY <1>4, <1>5

-----------------------------------------------------------------------------
\* Type correctness

LEMMA InitTyped == Init => TInv
<1>. SUFFICES ASSUME Init PROVE TInv
    OBVIOUS
<1>1. orders \in [Slots -> Order \cup {None}] /\ held \in [Tokens -> 0..MaxHeld]
    BY SizesAssumption DEF Init, NobodyHeld
<1>2. pl \in [Placers -> Round]
    BY IdleType DEF Init
<1>3. \A p \in Placers : pl[p].jobs = {}
    BY DEF Init, Idle
<1>. QED
    BY <1>1, <1>2, <1>3 DEF Init, TInv, TypeOK, JobsPriced

\* A round that keeps some of its jobs, or drops them, keeps them priced.
LEMMA GoesTyped ==
    ASSUME TInv, NEW p \in Placers, NEW l \in Round, Goes(p, l),
           \A j \in l.jobs : j.shares > 0 => j.price \in Prices
    PROVE  pl' \in [Placers -> Round] /\ JobsPriced'
    BY DEF TInv, TypeOK, JobsPriced, Goes

LEMMA BeginTyped ==
    ASSUME TInv, NEW p \in Placers, Begin(p)
    PROVE  TInv'
<1>. DEFINE E == {t \in Tokens : quote[t] # Off /\ Market(t) \in pool \ cooldown}
            l == [Idle EXCEPT !.at = "orders", !.elig = E]
<1>1. l \in Round /\ l.jobs = {}
    <2>1. E \in SUBSET Tokens
        OBVIOUS
    <2>. HIDE DEF E
    <2>. QED
        BY <2>1, IdleType DEF Round, Idle
<1>2. Goes(p, l)
    BY DEF Begin
<1>. HIDE DEF l
<1>3. pl' \in [Placers -> Round] /\ JobsPriced'
    BY <1>1, <1>2, GoesTyped
<1>. QED
    BY <1>3 DEF TInv, TypeOK, Begin, market

LEMMA ReadOrdersTyped ==
    ASSUME TInv, NEW p \in Placers, ReadOrders(p)
    PROVE  TInv'
<1>. DEFINE S == {[id |-> i, tok |-> orders[i].tok, price |-> orders[i].price,
                   left |-> orders[i].left] : i \in Live}
            l == [pl[p] EXCEPT !.at = "positions", !.open = Open, !.snap = S]
<1>1. \A i \in Live : i \in Slots /\ orders[i] \in Order
    BY DEF TInv, TypeOK, Live, None
<1>2. S \in SUBSET Seen
    BY <1>1 DEF Seen, Order
<1>3. Open \in SUBSET Markets
    BY DEF Open
<1>. HIDE DEF S
<1>4. l \in Round /\ l.jobs = pl[p].jobs
    BY <1>2, <1>3 DEF TInv, TypeOK, Round
<1>5. Goes(p, l)
    BY DEF ReadOrders, S
<1>. HIDE DEF l
<1>6. pl' \in [Placers -> Round] /\ JobsPriced'
    BY <1>4, <1>5, GoesTyped DEF TInv, JobsPriced
<1>. QED
    BY <1>6 DEF TInv, TypeOK, ReadOrders, market

LEMMA ReadPositionsTyped ==
    ASSUME TInv, NEW p \in Placers, ReadPositions(p)
    PROVE  TInv'
<1>. DEFINE l == [pl[p] EXCEPT !.at = IF p = "test" THEN "gamma" ELSE "dropout",
                               !.held = held, !.black = blacklist]
<1>1. l \in Round /\ l.jobs = pl[p].jobs
    BY DEF TInv, TypeOK, Round
<1>2. Goes(p, l)
    BY DEF ReadPositions
<1>. HIDE DEF l
<1>3. pl' \in [Placers -> Round] /\ JobsPriced'
    BY <1>1, <1>2, GoesTyped DEF TInv, JobsPriced
<1>. QED
    BY <1>3 DEF TInv, TypeOK, ReadPositions, market

LEMMA ReadRaisesTyped ==
    ASSUME TInv, NEW p \in Placers, ReadRaises(p)
    PROVE  TInv'
<1>1. Goes(p, Idle) /\ Idle.jobs = {}
    BY DEF ReadRaises, Idle
<1>2. pl' \in [Placers -> Round] /\ JobsPriced'
    BY <1>1, IdleType, GoesTyped
<1>. QED
    BY <1>2 DEF TInv, TypeOK, ReadRaises, market

LEMMA DropoutTyped ==
    ASSUME TInv, NEW p \in Placers, Dropout(p)
    PROVE  TInv'
<1>0. PICK ids, D : \E r \in CancelAnswers(ids) :
        /\ orders' = r.orders
        /\ Goes(p, [pl[p] EXCEPT !.at = "gamma", !.open = IF r.returned THEN @ \ D ELSE @])
    BY DEF Dropout
<1>1. PICK r \in CancelAnswers(ids) :
        /\ orders' = r.orders
        /\ Goes(p, [pl[p] EXCEPT !.at = "gamma", !.open = IF r.returned THEN @ \ D ELSE @])
    BY <1>0
<1>. DEFINE l == [pl[p] EXCEPT !.at = "gamma", !.open = IF r.returned THEN @ \ D ELSE @]
<1>2. l \in Round /\ l.jobs = pl[p].jobs
    BY DEF TInv, TypeOK, Round
<1>3. Goes(p, l)
    BY <1>1
<1>. HIDE DEF l
<1>4. pl' \in [Placers -> Round] /\ JobsPriced'
    BY <1>2, <1>3, GoesTyped DEF TInv, JobsPriced
<1>5. orders' \in [Slots -> Order \cup {None}]
    BY <1>1, CancelTypes DEF TInv
<1>. QED
    BY <1>4, <1>5 DEF TInv, TypeOK, Dropout, market

LEMMA ReadGammaTyped ==
    ASSUME TInv, NEW p \in Placers, ReadGamma(p)
    PROVE  TInv'
<1>1. PICK known \in SUBSET Markets :
        Goes(p, Onward([pl[p] EXCEPT !.uma = known], {}, {Market(t) : t \in pl[p].elig}))
    BY DEF ReadGamma, TInv, TypeOK
<1>. DEFINE todo == {Market(t) : t \in pl[p].elig}
            l == [pl[p] EXCEPT !.uma = known]
<1>2. l \in Round
    BY DEF TInv, TypeOK, Round
<1>3. todo \in SUBSET Markets
    BY TokensAssumption DEF TInv, TypeOK, Round, Market
<1>4. Goes(p, Onward(l, {}, todo))
    BY <1>1
<1>. HIDE DEF l, todo
<1>5. Onward(l, {}, todo) \in Round /\ Onward(l, {}, todo).jobs = {}
    BY <1>2, <1>3, OnwardType, OnwardJobs
<1>6. pl' \in [Placers -> Round] /\ JobsPriced'
    BY <1>4, <1>5, GoesTyped
<1>. QED
    BY <1>6 DEF TInv, TypeOK, ReadGamma, market

\* What a market's plan makes of the round.
LEMMA PlanShape ==
    ASSUME TInv, NEW p \in Placers, PlanMarket(p)
    PROVE  \E m \in pl[p].todo : \E sides \in SUBSET {t \in pl[p].elig : Market(t) = m} :
           \E jobs \in SUBSET Job :
             /\ \/ jobs = {}
                \/ /\ jobs = MarketJobs(pl[p], m, sides)
                   /\ m \in pl[p].open \/ ~(Cardinality(pl[p].open) >= MaxConcurrent)
             /\ \A j \in jobs : j.shares > 0 => j.price \in Prices
             /\ Goes(p, Onward(pl[p], jobs, pl[p].todo \ {m}))
<1>1. PICK m \in pl[p].todo :
        \E sides \in SUBSET {t \in pl[p].elig : Market(t) = m}, skip \in BOOLEAN :
        /\ ~skip => m \in pl[p].open \/ ~(Cardinality(pl[p].open) >= MaxConcurrent)
        /\ Goes(p, Onward(pl[p], IF skip THEN {} ELSE MarketJobs(pl[p], m, sides),
                          pl[p].todo \ {m}))
    BY DEF PlanMarket
<1>2. PICK sides \in SUBSET {t \in pl[p].elig : Market(t) = m}, skip \in BOOLEAN :
        /\ ~skip => m \in pl[p].open \/ ~(Cardinality(pl[p].open) >= MaxConcurrent)
        /\ Goes(p, Onward(pl[p], IF skip THEN {} ELSE MarketJobs(pl[p], m, sides),
                          pl[p].todo \ {m}))
    BY <1>1
<1>3. pl[p] \in Round /\ m \in Markets /\ sides \in SUBSET {t \in Tokens : Market(t) = m}
    BY DEF TInv, TypeOK, Round
<1>4. /\ MarketJobs(pl[p], m, sides) \subseteq Job
      /\ \A j \in MarketJobs(pl[p], m, sides) : j.shares > 0 => j.price \in Prices
    BY <1>3, MarketJobsType DEF TInv
<1>5. CASE skip
    BY <1>2, <1>5
<1>6. CASE ~skip
    BY <1>2, <1>4, <1>6
<1>. QED
    BY <1>5, <1>6

LEMMA PlanMarketTyped ==
    ASSUME TInv, NEW p \in Placers, PlanMarket(p)
    PROVE  TInv'
<1>1. PICK m \in pl[p].todo, jobs \in SUBSET Job :
        /\ \A j \in jobs : j.shares > 0 => j.price \in Prices
        /\ Goes(p, Onward(pl[p], jobs, pl[p].todo \ {m}))
    BY PlanShape
<1>. DEFINE l == Onward(pl[p], jobs, pl[p].todo \ {m})
<1>2. pl[p] \in Round /\ pl[p].todo \ {m} \in SUBSET Markets
    BY DEF TInv, TypeOK, Round
<1>3. l \in Round /\ l.jobs = jobs
    BY <1>2, OnwardType, OnwardJobs
<1>. HIDE DEF l
<1>4. pl' \in [Placers -> Round] /\ JobsPriced'
    BY <1>1, <1>3, GoesTyped DEF l
<1>. QED
    BY <1>4 DEF TInv, TypeOK, PlanMarket, market

LEMMA CancelSideTyped ==
    ASSUME TInv, NEW p \in Placers, CancelSide(p)
    PROVE  TInv'
<1>1. PICK j \in pl[p].jobs : \E r \in CancelAnswers(j.cancel) :
        /\ orders' = r.orders
        /\ Goes(p, Onward(pl[p],
               (pl[p].jobs \ {j}) \cup (IF j.shares > 0 THEN {[j EXCEPT !.cancel = {}]} ELSE {}),
               pl[p].todo))
    BY DEF CancelSide
<1>. DEFINE jobs == (pl[p].jobs \ {j}) \cup
                        (IF j.shares > 0 THEN {[j EXCEPT !.cancel = {}]} ELSE {})
            l == Onward(pl[p], jobs, pl[p].todo)
<1>2. pl[p] \in Round /\ pl[p].todo \in SUBSET Markets /\ pl[p].jobs \in SUBSET Job
    BY DEF TInv, TypeOK, Round
<1>3. /\ [j EXCEPT !.cancel = {}] \in Job
      /\ [j EXCEPT !.cancel = {}].shares = j.shares /\ [j EXCEPT !.cancel = {}].price = j.price
    BY <1>2 DEF Job
<1>4. jobs \in SUBSET Job /\ \A k \in jobs : k.shares > 0 => k.price \in Prices
    BY <1>2, <1>3 DEF TInv, JobsPriced
<1>. HIDE DEF jobs
<1>5. l \in Round /\ l.jobs = jobs
    BY <1>2, <1>4, OnwardType, OnwardJobs
<1>6. Goes(p, l)
    BY <1>1 DEF jobs
<1>. HIDE DEF l
<1>7. pl' \in [Placers -> Round] /\ JobsPriced'
    BY <1>4, <1>5, <1>6, GoesTyped
<1>8. orders' \in [Slots -> Order \cup {None}]
    BY <1>1, CancelTypes DEF TInv
<1>. QED
    BY <1>7, <1>8 DEF TInv, TypeOK, CancelSide, market

\* The round after a job is done, whether its order was placed or not.
LEMMA AfterJobTyped ==
    ASSUME TInv, NEW p \in Placers, NEW j \in pl[p].jobs, NEW l,
           \/ l = AfterPlace(p, j)
           \/ l = Onward(pl[p], pl[p].jobs \ {j}, pl[p].todo)
    PROVE  l \in Round /\ l.jobs \subseteq pl[p].jobs
<1>. DEFINE k == [pl[p] EXCEPT !.open = @ \cup {Market(j.tok)},
                               !.placed = IF p = "test" THEN @ + 1 ELSE 0]
<1>1. /\ pl[p] \in Round /\ pl[p].todo \in SUBSET Markets /\ pl[p].jobs \ {j} \in SUBSET Job
      /\ Market(j.tok) \in Markets
    BY TokensAssumption DEF TInv, TypeOK, Round, Job, Market
<1>2. k \in Round /\ k.jobs = pl[p].jobs /\ k.todo = pl[p].todo
    <2>1. PICK O, n : /\ k = [pl[p] EXCEPT !.open = O, !.placed = n]
                      /\ O = pl[p].open \cup {Market(j.tok)}
                      /\ n = IF p = "test" THEN pl[p].placed + 1 ELSE 0
        OBVIOUS
    <2>2. O \in SUBSET Markets /\ n \in Nat
        BY <1>1, <2>1 DEF Round
    <2>. HIDE DEF k
    <2>. QED
        BY <1>1, <2>1, <2>2 DEF Round
<1>3. \A x \in Round : /\ Onward(x, pl[p].jobs \ {j}, pl[p].todo) \in Round
                       /\ Onward(x, pl[p].jobs \ {j}, pl[p].todo).jobs = pl[p].jobs \ {j}
    BY <1>1, OnwardType, OnwardJobs
<1>4. Idle \in Round /\ Idle.jobs = {}
    BY IdleType DEF Idle
<1>5. AfterPlace(p, j) = IF p = "test" /\ k.placed >= TestLimit THEN Idle
                         ELSE Onward(k, k.jobs \ {j}, k.todo)
    BY DEF AfterPlace
<1>. HIDE DEF k
<1>. QED
    BY <1>1, <1>2, <1>3, <1>4, <1>5

LEMMA PlaceSideTyped ==
    ASSUME TInv, NEW p \in Placers, PlaceSide(p)
    PROVE  TInv'
<1>1. PICK j \in pl[p].jobs, i \in NextId :
        /\ j.cancel = {}
        /\ \E n \in IF "take" \in Env THEN 0..j.shares ELSE {0} :
             /\ held[j.tok] + n <= MaxHeld
             /\ held' = [held EXCEPT ![j.tok] = @ + n]
             /\ orders' = [orders EXCEPT ![i] =
                    IF n = j.shares THEN None
                    ELSE [tok |-> j.tok, price |-> j.price, left |-> j.shares - n,
                          hit |-> n > 0]]
        /\ \/ Goes(p, AfterPlace(p, j))
           \/ Goes(p, Onward(pl[p], pl[p].jobs \ {j}, pl[p].todo))
    BY DEF PlaceSide
<1>2. j \in Job /\ i \in Slots /\ (j.shares > 0 => j.price \in Prices)
    BY <1>1 DEF TInv, TypeOK, JobsPriced, Round, NextId, FreeIds
<1>3. PICK n \in 0..j.shares :
        /\ held[j.tok] + n <= MaxHeld
        /\ held' = [held EXCEPT ![j.tok] = @ + n]
        /\ orders' = [orders EXCEPT ![i] =
               IF n = j.shares THEN None
               ELSE [tok |-> j.tok, price |-> j.price, left |-> j.shares - n, hit |-> n > 0]]
    <2>1. 0 \in 0..j.shares
        BY <1>2 DEF Job, Lots
    <2>. QED
        BY <1>1, <2>1
<1>4. j.tok \in Tokens /\ j.shares \in 0..TierShares /\ n \in Nat
    BY <1>2, <1>3 DEF Job, Lots
<1>5. held' \in [Tokens -> 0..MaxHeld]
    <2>1. held \in [Tokens -> 0..MaxHeld] /\ held[j.tok] \in Nat
        BY <1>4, SizesAssumption DEF TInv, TypeOK
    <2>2. held[j.tok] + n <= MaxHeld
        BY <1>3
    <2>3. held[j.tok] + n \in 0..MaxHeld
        BY <1>4, <2>1, <2>2, SizesAssumption
    <2>. QED
        BY <1>3, <2>1, <2>3
<1>6. orders' \in [Slots -> Order \cup {None}]
    <2>. DEFINE o == [tok |-> j.tok, price |-> j.price, left |-> j.shares - n, hit |-> n > 0]
    <2>1. ASSUME n # j.shares PROVE o \in Order
        <3>1. j.shares - n \in Lots \ {0} /\ j.price \in Prices
            BY <1>2, <1>3, <1>4, <2>1, SizesAssumption DEF Lots
        <3>2. (n > 0) \in BOOLEAN
            BY <1>4
        <3>. QED
            BY <1>4, <3>1, <3>2 DEF Order
    <2>2. orders' = [orders EXCEPT ![i] = IF n = j.shares THEN None ELSE o]
        BY <1>3
    <2>. HIDE DEF o
    <2>. QED
        BY <1>2, <2>1, <2>2 DEF TInv, TypeOK
<1>7. PICK l : Goes(p, l) /\ (\/ l = AfterPlace(p, j)
                              \/ l = Onward(pl[p], pl[p].jobs \ {j}, pl[p].todo))
    BY <1>1
<1>8. l \in Round /\ l.jobs \subseteq pl[p].jobs
    BY <1>7, AfterJobTyped
<1>9. pl' \in [Placers -> Round] /\ JobsPriced'
    BY <1>7, <1>8, GoesTyped DEF TInv, JobsPriced
<1>. QED
    BY <1>5, <1>6, <1>9 DEF TInv, TypeOK, PlaceSide, market

LEMMA PlaceRejectedTyped ==
    ASSUME TInv, NEW p \in Placers, PlaceRejected(p)
    PROVE  TInv'
<1>1. PICK j \in pl[p].jobs : Goes(p, Onward(pl[p], pl[p].jobs \ {j}, pl[p].todo))
    BY DEF PlaceRejected
<1>. DEFINE l == Onward(pl[p], pl[p].jobs \ {j}, pl[p].todo)
<1>2. l \in Round /\ l.jobs \subseteq pl[p].jobs
    BY AfterJobTyped
<1>. HIDE DEF l
<1>3. pl' \in [Placers -> Round] /\ JobsPriced'
    BY <1>1, <1>2, GoesTyped DEF TInv, JobsPriced, l
<1>. QED
    BY <1>3 DEF TInv, TypeOK, PlaceRejected, market

\* The steps of the tick and of the outside world touch no round.
LEMMA TickTyped ==
    ASSUME TInv, Tick
    PROVE  TInv'
<1>1. /\ orders' \in [Slots -> Order \cup {None}]
      /\ cooldown' \subseteq Markets /\ news' \subseteq news
      /\ UNCHANGED <<held, market, pl>>
    <2>1. ASSUME NEW i \in Slots, NEW m \in Markets, HandleFill(i, m)
          PROVE  <1>1!1 /\ <1>1!2 /\ <1>1!3
        BY <2>1, CancelTypes DEF HandleFill, TInv, TypeOK
    <2>2. ASSUME NEW m \in Markets, ResolutionGuard(m)
          PROVE  <1>1!1 /\ <1>1!2 /\ <1>1!3
        BY <2>2, CancelTypes DEF ResolutionGuard, TInv, TypeOK
    <2>3. ASSUME NEW i \in Slots, BlacklistCancel(i)
          PROVE  <1>1!1 /\ <1>1!2 /\ <1>1!3
        BY <2>3, CancelTypes DEF BlacklistCancel, TInv, TypeOK
    <2>4. ASSUME NEW i \in Slots, ComplianceCancel(i)
          PROVE  <1>1!1 /\ <1>1!2 /\ <1>1!3
        BY <2>4, CancelTypes DEF ComplianceCancel, TInv, TypeOK
    <2>. QED
        BY <2>1, <2>2, <2>3, <2>4 DEF Tick
<1>. QED
    BY <1>1 DEF TInv, TypeOK, JobsPriced, market

LEMMA FillTyped ==
    ASSUME TInv, NEW i \in Slots, NEW n \in Lots \ {0}, Fill(i, n)
    PROVE  TInv'
<1>. DEFINE o == orders[i]
<1>1. o \in Order /\ n <= o.left
    BY DEF Fill, Live, TInv, TypeOK, None
<1>2. o.tok \in Tokens /\ o.left \in 1..TierShares /\ n \in 1..TierShares
    BY <1>1, SizesAssumption DEF Order, Lots
<1>3. /\ held[o.tok] + n <= MaxHeld
      /\ held' = [held EXCEPT ![o.tok] = @ + n]
      /\ orders' = [orders EXCEPT ![i] = IF n = o.left THEN None
                        ELSE [o EXCEPT !.left = @ - n, !.hit = TRUE]]
      /\ news' = news \cup {<<i, Market(o.tok)>>}
    BY DEF Fill
<1>4. held' \in [Tokens -> 0..MaxHeld]
    <2>1. held[o.tok] \in Nat
        BY <1>2, SizesAssumption DEF TInv, TypeOK
    <2>2. held[o.tok] + n \in 0..MaxHeld
        BY <1>2, <1>3, <2>1, SizesAssumption
    <2>. QED
        BY <1>3, <2>2 DEF TInv, TypeOK
<1>5. n # o.left => [o EXCEPT !.left = @ - n, !.hit = TRUE] \in Order
    <2>1. n # o.left => o.left - n \in Lots \ {0}
        BY <1>1, <1>2, SizesAssumption DEF Lots
    <2>. QED
        BY <1>1, <2>1 DEF Order
<1>6. orders' \in [Slots -> Order \cup {None}]
    BY <1>3, <1>5 DEF TInv, TypeOK
<1>7. Market(o.tok) \in Markets
    BY <1>2, TokensAssumption DEF Market
<1>. QED
    BY <1>3, <1>4, <1>6, <1>7 DEF TInv, TypeOK, JobsPriced, Fill, market

LEMMA WorldTyped ==
    ASSUME TInv, World
    PROVE  TInv'
<1>1. ASSUME NEW m \in Markets, AddBlacklist(m) PROVE TInv'
    <2>1. orders' \in [Slots -> Order \cup {None}]
        BY <1>1, CancelTypes DEF AddBlacklist, TInv
    <2>. QED
        BY <1>1, <2>1 DEF AddBlacklist, TInv, TypeOK, JobsPriced
<1>2. ASSUME NEW m \in Markets, RemoveBlacklist(m) \/ StartResolution(m) \/ Expire(m)
      PROVE  TInv'
    BY <1>2 DEF RemoveBlacklist, StartResolution, Expire, TInv, TypeOK, JobsPriced, market
<1>3. ASSUME CancelAllBuys PROVE TInv'
    <2>1. orders' \in [Slots -> Order \cup {None}]
        BY <1>3, CancelTypes DEF CancelAllBuys, TInv
    <2>. QED
        BY <1>3, <2>1 DEF CancelAllBuys, TInv, TypeOK, JobsPriced, market
<1>4. ASSUME Discover PROVE TInv'
    BY <1>4 DEF Discover, TInv, TypeOK, JobsPriced
<1>5. ASSUME NEW t \in Tokens, Move(t) \/ Exit(t) PROVE TInv'
    BY <1>5, SizesAssumption DEF Move, Exit, TInv, TypeOK, JobsPriced, market
<1>. QED
    BY <1>1, <1>2, <1>3, <1>4, <1>5, FillTyped DEF World

LEMMA NextTyped == TInv /\ [Next]_vars => TInv'
<1>. SUFFICES ASSUME TInv, [Next]_vars PROVE TInv'
    OBVIOUS
<1>1. ASSUME NEW p \in Placers, Begin(p) \/ RoundStep(p) PROVE TInv'
    BY <1>1, BeginTyped, ReadOrdersTyped, ReadPositionsTyped, ReadRaisesTyped, DropoutTyped,
       ReadGammaTyped, PlanMarketTyped, CancelSideTyped, PlaceSideTyped, PlaceRejectedTyped
       DEF RoundStep
<1>2. CASE UNCHANGED vars
    BY <1>2 DEF vars, market, TInv, TypeOK, JobsPriced
<1>. QED
    BY <1>1, <1>2, TickTyped, WorldTyped DEF Next

\* The exchange, the tables and the rounds keep their types in every environment
\* and with any number of placers.
THEOREM BuyTypeCorrect == Spec => []TypeOK
<1>1. Spec => []TInv
    BY InitTyped, NextTyped, PTL DEF Spec
<1>. QED
    BY <1>1, PTL DEF TInv

-----------------------------------------------------------------------------
\* Rounds side by side, and an exchange whose cancels do what they answer

Alone == \A p, q \in Placers : p = q
Truthful == "raise" \notin Env /\ "refuse" \notin Env

\* Who placed the order of an id last: nothing in the state says it.
Owners == [Slots -> {"scan", "web", "test"}]
Of(own, p) == {i \in Slots : own[i] = p}

Alive(ord) == {i \in Slots : ord[i].left > 0}
OneBuy(mine, ord) ==
    \A i, k \in Alive(ord) : i \in mine /\ k \in mine /\ ord[i].tok = ord[k].tok => i = k

Reading == {"positions", "dropout", "gamma"}
Working == {"market", "side"}

\* A snapshot never confuses an order with a later one of the same id.
SnapOK(ord, l) == \A o \in l.snap : o.id \in Alive(ord) => ord[o.id].tok = o.tok

\* Until a round has dealt with a token, every buy on it that its placer placed is
\* in the snapshot.
AllSeen(mine, ord, l) ==
    \A i \in Alive(ord) :
        i \in mine /\ (\/ l.at \in Reading
                       \/ l.at \in Working /\ Market(ord[i].tok) \in l.todo) =>
            \E o \in l.snap : o.id = i

\* A job that will place cancels first whatever its placer has resting on the token,
\* and no token has two jobs.
JobOK(mine, ord, j, todo) ==
    /\ Market(j.tok) \notin todo
    /\ j.shares > 0 =>
         \A i \in Alive(ord) : i \in mine /\ ord[i].tok = j.tok => i \in j.cancel
JobsOK(mine, ord, jobs, todo) ==
    /\ \A j \in jobs : JobOK(mine, ord, j, todo)
    /\ \A j, k \in jobs : Market(j.tok) = Market(k.tok) /\ (j.tok = k.tok => j = k)

RoundOK(mine, ord, l) ==
    SnapOK(ord, l) /\ AllSeen(mine, ord, l) /\ JobsOK(mine, ord, l.jobs, l.todo)

\* What each placer's steps keep, and what the others' steps leave alone.
PlacerOK(mine, ord, l) == OneBuy(mine, ord) /\ RoundOK(mine, ord, l)
Kept(own, ord) ==
    /\ \A i \in Alive(ord) : own[i] \in Placers
    /\ \A p \in Placers : PlacerOK(Of(own, p), ord, pl[p])
Safe(ord) == \E own \in Owners : Kept(own, ord)

RInv == TInv /\ Safe(orders)

\* Orders end or shrink; none appears.
Shrinks(old, new) == \A i \in Alive(new) : i \in Alive(old) /\ new[i].tok = old[i].tok

LEMMA ShrinkOK ==
    ASSUME NEW old, NEW new, Shrinks(old, new), NEW mine
    PROVE  /\ OneBuy(mine, old) => OneBuy(mine, new)
           /\ \A l : RoundOK(mine, old, l) => RoundOK(mine, new, l)
<1>1. OneBuy(mine, old) => OneBuy(mine, new)
    BY DEF Shrinks, OneBuy
<1>2. \A l : SnapOK(old, l) => SnapOK(new, l)
    BY DEF Shrinks, SnapOK
<1>3. \A l : AllSeen(mine, old, l) => AllSeen(mine, new, l)
    BY DEF Shrinks, AllSeen
<1>4. \A jobs, todo : JobsOK(mine, old, jobs, todo) => JobsOK(mine, new, jobs, todo)
    BY DEF Shrinks, JobsOK, JobOK
<1>. QED
    BY <1>1, <1>2, <1>3, <1>4 DEF RoundOK

LEMMA CancelShrinks ==
    ASSUME TypeOK, NEW ids, NEW r \in CancelAnswers(ids)
    PROVE  Shrinks(orders, r.orders)
    BY CancelTypes DEF Shrinks, Alive, None

LEMMA TruthfulCancel ==
    ASSUME Truthful, TypeOK, NEW ids, NEW r \in CancelAnswers(ids)
    PROVE  r.returned /\ \A i \in Alive(r.orders) : i \in Slots /\ i \notin ids
<1>1. r.orders = [i \in Slots |-> IF i \in ids THEN None ELSE orders[i]] /\ r.returned
    BY DEF Truthful, CancelAnswers, Spared
<1>. QED
    BY <1>1 DEF Alive, None

LEMMA IdleOK ==
    ASSUME NEW mine, NEW ord
    PROVE  RoundOK(mine, ord, Idle)
    BY DEF RoundOK, SnapOK, AllSeen, JobsOK, Idle, Reading, Working

LEMMA OnwardOK ==
    ASSUME NEW mine, NEW ord, NEW l \in Round, NEW jobs, NEW todo,
           SnapOK(ord, l), JobsOK(mine, ord, jobs, todo),
           \A i \in Alive(ord) : i \in mine /\ Market(ord[i].tok) \in todo =>
               \E o \in l.snap : o.id = i
    PROVE  RoundOK(mine, ord, Onward(l, jobs, todo))
<1>1. CASE jobs # {}
    <2>. DEFINE n == [l EXCEPT !.at = "side", !.jobs = jobs, !.todo = todo]
    <2>1. n.at = "side" /\ n.jobs = jobs /\ n.todo = todo /\ n.snap = l.snap
        BY DEF Round
    <2>2. Onward(l, jobs, todo) = n
        BY <1>1 DEF Onward
    <2>. HIDE DEF n
    <2>. QED
        BY <2>1, <2>2 DEF RoundOK, SnapOK, AllSeen, Reading, Working
<1>2. CASE jobs = {} /\ todo # {}
    <2>. DEFINE n == [l EXCEPT !.at = "market", !.jobs = {}, !.todo = todo]
    <2>1. n.at = "market" /\ n.jobs = jobs /\ n.todo = todo /\ n.snap = l.snap
        BY <1>2 DEF Round
    <2>2. Onward(l, jobs, todo) = n
        BY <1>2 DEF Onward
    <2>. HIDE DEF n
    <2>. QED
        BY <2>1, <2>2 DEF RoundOK, SnapOK, AllSeen, Reading, Working
<1>3. CASE jobs = {} /\ todo = {}
    BY <1>3, IdleOK DEF Onward
<1>. QED
    BY <1>1, <1>2, <1>3

LEMMA ConvergeCancels ==
    ASSUME NEW l, NEW t, NEW want, Converge(l, t, want).shares > 0
    PROVE  \A o \in l.snap : o.tok = t => o.id \in Converge(l, t, want).cancel
<1>. DEFINE R == {o \in l.snap : o.tok = t}
            E == {o \in R : want > 0 /\ o.price = quote[t] /\ o.left = want}
            K == IF E = {} THEN {} ELSE {CHOOSE o \in E : TRUE}
<1>1. Converge(l, t, want) = [tok |-> t, price |-> quote[t], cancel |-> {o.id : o \in R \ K},
                              shares |-> IF K = {} THEN want ELSE 0]
    BY DEF Converge
<1>2. \A o \in l.snap : o.tok = t => o \in R
    OBVIOUS
<1>. HIDE DEF R, K
<1>3. K = {}
    BY <1>1
<1>. QED
    BY <1>1, <1>2, <1>3

LEMMA ConvergeTok ==
    ASSUME NEW l, NEW t, NEW want
    PROVE  Converge(l, t, want).tok = t
    BY DEF Converge

LEMMA MarketJobsOK ==
    ASSUME TypeOK, NEW mine, NEW l \in Round, NEW m \in l.todo,
           NEW sides \in SUBSET {t \in l.elig : Market(t) = m},
           l.at = "market", SnapOK(orders, l), AllSeen(mine, orders, l)
    PROVE  JobsOK(mine, orders, MarketJobs(l, m, sides), l.todo \ {m})
<1>1. PICK want : MarketJobs(l, m, sides) \subseteq {Converge(l, t, want[t]) : t \in sides}
    BY DEF MarketJobs
<1>2. \A j \in MarketJobs(l, m, sides) : \E t \in sides : j = Converge(l, t, want[t]) /\ j.tok = t
    BY <1>1, ConvergeTok
<1>3. \A j, k \in MarketJobs(l, m, sides) :
          Market(j.tok) = Market(k.tok) /\ (j.tok = k.tok => j = k)
    BY <1>2
<1>4. ASSUME NEW j \in MarketJobs(l, m, sides)
      PROVE  JobOK(mine, orders, j, l.todo \ {m})
    <2>1. PICK t \in sides : j = Converge(l, t, want[t]) /\ j.tok = t
        BY <1>2
    <2>2. Market(j.tok) = m
        BY <2>1
    <2>3. ASSUME j.shares > 0, NEW i \in Alive(orders), i \in mine, orders[i].tok = j.tok
          PROVE  i \in j.cancel
        <3>1. PICK o \in l.snap : o.id = i
            BY <2>2, <2>3 DEF AllSeen, Working
        <3>2. o.tok = t
            BY <2>1, <2>3, <3>1 DEF SnapOK
        <3>. QED
            BY <2>1, <2>3, <3>1, <3>2, ConvergeCancels
    <2>. QED
        BY <2>2, <2>3 DEF JobOK
<1>. QED
    BY <1>3, <1>4 DEF JobsOK

\* A step of one placer that ends at l, orders having ended or shrunk at most.
Standing(own) == TInv /\ own \in Owners /\ Kept(own, orders)

LEMMA StandingRound ==
    ASSUME NEW own, Standing(own), NEW p \in Placers
    PROVE  TypeOK /\ pl[p] \in Round /\ RoundOK(Of(own, p), orders, pl[p])
    BY DEF Standing, Kept, PlacerOK, TInv, TypeOK

LEMMA StepSafe ==
    ASSUME NEW own, Standing(own), NEW p \in Placers, NEW l, Goes(p, l),
           Shrinks(orders, orders'), RoundOK(Of(own, p), orders', l)
    PROVE  Safe(orders)'
<1>1. \A i \in Alive(orders') : own[i] \in Placers
    BY DEF Standing, Kept, Shrinks
<1>2. ASSUME NEW q \in Placers
      PROVE  PlacerOK(Of(own, q), orders', pl'[q])
    <2>1. OneBuy(Of(own, q), orders) /\ RoundOK(Of(own, q), orders, pl[q])
        BY DEF Standing, Kept, PlacerOK
    <2>2. OneBuy(Of(own, q), orders') /\ RoundOK(Of(own, q), orders', pl[q])
        BY <2>1, ShrinkOK
    <2>3. pl'[q] = IF q = p THEN l ELSE pl[q]
        BY StandingRound DEF Goes, TypeOK
    <2>. QED
        BY <2>2, <2>3 DEF PlacerOK
<1>3. own \in Owners
    BY DEF Standing
<1>. QED
    BY <1>1, <1>2, <1>3 DEF Safe, Kept

LEMMA SameShrinks == Shrinks(orders, orders)
    BY DEF Shrinks

LEMMA BeginSafe ==
    ASSUME NEW own, Standing(own), NEW p \in Placers, Begin(p)
    PROVE  Safe(orders)'
<1>. DEFINE l == [Idle EXCEPT !.at = "orders",
                     !.elig = {t \in Tokens : quote[t] # Off /\ Market(t) \in pool \ cooldown}]
<1>1. Goes(p, l) /\ orders' = orders
    BY DEF Begin
<1>2. l.at = "orders" /\ l.snap = {} /\ l.jobs = {}
    BY DEF Idle
<1>. HIDE DEF l
<1>3. RoundOK(Of(own, p), orders, l)
    BY <1>2 DEF RoundOK, SnapOK, AllSeen, JobsOK, Reading, Working
<1>. QED
    BY <1>1, <1>3, StepSafe, SameShrinks

LEMMA ReadOrdersSafe ==
    ASSUME NEW own, Standing(own), NEW p \in Placers, ReadOrders(p)
    PROVE  Safe(orders)'
<1>. DEFINE S == {[id |-> i, tok |-> orders[i].tok, price |-> orders[i].price,
                   left |-> orders[i].left] : i \in Live}
            l == [pl[p] EXCEPT !.at = "positions", !.open = Open, !.snap = S]
<1>1. Goes(p, l) /\ orders' = orders
    BY DEF ReadOrders
<1>2. \A o \in S : o.tok = orders[o.id].tok
    <2>. TAKE o \in S
    <2>1. PICK i \in Live : o = [id |-> i, tok |-> orders[i].tok, price |-> orders[i].price,
                                 left |-> orders[i].left]
        OBVIOUS
    <2>2. o.id = i /\ o.tok = orders[i].tok
        BY <2>1
    <2>. QED
        BY <2>2
<1>3. \A i \in Alive(orders) : \E o \in S : o.id = i
    <2>. TAKE i \in Alive(orders)
    <2>. DEFINE o == [id |-> i, tok |-> orders[i].tok, price |-> orders[i].price,
                      left |-> orders[i].left]
    <2>1. o.id = i /\ o \in S
        BY DEF Alive, Live
    <2>. HIDE DEF o, S
    <2>. QED
        BY <2>1
<1>. HIDE DEF S
<1>4. l.snap = S /\ l.jobs = pl[p].jobs /\ l.todo = pl[p].todo
    BY StandingRound DEF Round
<1>. HIDE DEF l
<1>5. RoundOK(Of(own, p), orders, l)
    BY <1>2, <1>3, <1>4, StandingRound DEF RoundOK, SnapOK, AllSeen
<1>. QED
    BY <1>1, <1>5, StepSafe, SameShrinks

LEMMA ReadPositionsSafe ==
    ASSUME NEW own, Standing(own), NEW p \in Placers, ReadPositions(p)
    PROVE  Safe(orders)'
<1>. DEFINE l == [pl[p] EXCEPT !.at = IF p = "test" THEN "gamma" ELSE "dropout",
                               !.held = held, !.black = blacklist]
<1>1. Goes(p, l) /\ orders' = orders
    BY DEF ReadPositions
<1>2. l.snap = pl[p].snap /\ l.jobs = pl[p].jobs /\ l.todo = pl[p].todo
    BY StandingRound DEF Round
<1>3. pl[p].at \in Reading
    BY DEF ReadPositions, Reading
<1>. HIDE DEF l
<1>4. RoundOK(Of(own, p), orders, l)
    BY <1>2, <1>3, StandingRound DEF RoundOK, SnapOK, AllSeen
<1>. QED
    BY <1>1, <1>4, StepSafe, SameShrinks

LEMMA ReadRaisesSafe ==
    ASSUME NEW own, Standing(own), NEW p \in Placers, ReadRaises(p)
    PROVE  Safe(orders)'
<1>1. Goes(p, Idle) /\ orders' = orders
    BY DEF ReadRaises
<1>. QED
    BY <1>1, IdleOK, StepSafe, SameShrinks

LEMMA DropoutSafe ==
    ASSUME NEW own, Standing(own), NEW p \in Placers, Dropout(p)
    PROVE  Safe(orders)'
<1>1. PICK ids, D : \E r \in CancelAnswers(ids) :
        /\ orders' = r.orders
        /\ Goes(p, [pl[p] EXCEPT !.at = "gamma", !.open = IF r.returned THEN @ \ D ELSE @])
    BY DEF Dropout
<1>2. PICK r \in CancelAnswers(ids) :
        /\ orders' = r.orders
        /\ Goes(p, [pl[p] EXCEPT !.at = "gamma", !.open = IF r.returned THEN @ \ D ELSE @])
    BY <1>1
<1>. DEFINE l == [pl[p] EXCEPT !.at = "gamma", !.open = IF r.returned THEN @ \ D ELSE @]
<1>3. l.snap = pl[p].snap /\ l.jobs = pl[p].jobs /\ l.todo = pl[p].todo
    BY StandingRound DEF Round
<1>4. Goes(p, l)
    BY <1>2
<1>5. pl[p].at \in Reading
    BY DEF Dropout, Reading
<1>6. Shrinks(orders, orders')
    BY <1>2, CancelShrinks, StandingRound
<1>. HIDE DEF l
<1>7. RoundOK(Of(own, p), orders, l)
    BY <1>3, <1>5, StandingRound DEF RoundOK, SnapOK, AllSeen
<1>8. RoundOK(Of(own, p), orders', l)
    BY <1>6, <1>7, ShrinkOK
<1>. QED
    BY <1>4, <1>6, <1>8, StepSafe

LEMMA ReadGammaSafe ==
    ASSUME NEW own, Standing(own), NEW p \in Placers, ReadGamma(p)
    PROVE  Safe(orders)'
<1>1. PICK known, todo : Goes(p, Onward([pl[p] EXCEPT !.uma = known], {}, todo)) /\
                         known \in SUBSET Markets /\ orders' = orders
    BY StandingRound DEF ReadGamma, TypeOK
<1>. DEFINE l == [pl[p] EXCEPT !.uma = known]
<1>2. l \in Round /\ l.snap = pl[p].snap /\ Goes(p, Onward(l, {}, todo))
    BY <1>1, StandingRound DEF Round
<1>3. pl[p].at \in Reading
    BY DEF ReadGamma, Reading
<1>. HIDE DEF l
<1>4. /\ SnapOK(orders, l) /\ JobsOK(Of(own, p), orders, {}, todo)
      /\ \A i \in Alive(orders) : i \in Of(own, p) => \E o \in l.snap : o.id = i
    BY <1>2, <1>3, StandingRound DEF RoundOK, SnapOK, AllSeen, JobsOK
<1>5. RoundOK(Of(own, p), orders, Onward(l, {}, todo))
    BY <1>2, <1>4, OnwardOK
<1>. QED
    BY <1>1, <1>2, <1>5, StepSafe, SameShrinks

LEMMA PlanMarketSafe ==
    ASSUME NEW own, Standing(own), NEW p \in Placers, PlanMarket(p)
    PROVE  Safe(orders)'
<1>0. TInv /\ RoundOK(Of(own, p), orders, pl[p])
    BY StandingRound DEF Standing
<1>1. PICK m \in pl[p].todo : \E sides \in SUBSET {t \in pl[p].elig : Market(t) = m} :
        \E jobs \in SUBSET Job :
          /\ jobs = {} \/ jobs = MarketJobs(pl[p], m, sides)
          /\ Goes(p, Onward(pl[p], jobs, pl[p].todo \ {m}))
    BY <1>0, PlanShape
<1>2. PICK sides \in SUBSET {t \in pl[p].elig : Market(t) = m} : \E jobs \in SUBSET Job :
          /\ jobs = {} \/ jobs = MarketJobs(pl[p], m, sides)
          /\ Goes(p, Onward(pl[p], jobs, pl[p].todo \ {m}))
    BY <1>1
<1>3. PICK jobs \in SUBSET Job :
          /\ jobs = {} \/ jobs = MarketJobs(pl[p], m, sides)
          /\ Goes(p, Onward(pl[p], jobs, pl[p].todo \ {m}))
    BY <1>2
<1>4. /\ pl[p] \in Round /\ pl[p].at = "market"
      /\ SnapOK(orders, pl[p]) /\ AllSeen(Of(own, p), orders, pl[p])
    BY <1>0 DEF TInv, TypeOK, PlanMarket, RoundOK
<1>5. JobsOK(Of(own, p), orders, jobs, pl[p].todo \ {m})
    <2>1. JobsOK(Of(own, p), orders, MarketJobs(pl[p], m, sides), pl[p].todo \ {m})
        BY <1>0, <1>4, MarketJobsOK DEF TInv
    <2>2. JobsOK(Of(own, p), orders, {}, pl[p].todo \ {m})
        BY DEF JobsOK
    <2>. QED
        BY <1>3, <2>1, <2>2
<1>6. \A i \in Alive(orders) :
          i \in Of(own, p) /\ Market(orders[i].tok) \in pl[p].todo \ {m} =>
              \E o \in pl[p].snap : o.id = i
    BY <1>4 DEF AllSeen, Working
<1>7. RoundOK(Of(own, p), orders, Onward(pl[p], jobs, pl[p].todo \ {m}))
    BY <1>4, <1>5, <1>6, OnwardOK
<1>8. orders' = orders
    BY DEF PlanMarket
<1>. QED
    BY <1>3, <1>7, <1>8, StepSafe, SameShrinks

LEMMA CancelSideSafe ==
    ASSUME Truthful, NEW own, Standing(own), NEW p \in Placers, CancelSide(p)
    PROVE  Safe(orders)'
<1>1. PICK j \in pl[p].jobs : \E r \in CancelAnswers(j.cancel) :
        /\ orders' = r.orders
        /\ Goes(p, Onward(pl[p],
               (pl[p].jobs \ {j}) \cup (IF j.shares > 0 THEN {[j EXCEPT !.cancel = {}]} ELSE {}),
               pl[p].todo))
    BY DEF CancelSide
<1>. DEFINE k == [j EXCEPT !.cancel = {}]
            jobs == (pl[p].jobs \ {j}) \cup (IF j.shares > 0 THEN {k} ELSE {})
<1>2. Shrinks(orders, orders') /\ \A i \in Alive(orders') : i \notin j.cancel
    BY <1>1, CancelShrinks, TruthfulCancel, StandingRound
<1>3. Goes(p, Onward(pl[p], jobs, pl[p].todo))
    BY <1>1
<1>4. /\ pl[p] \in Round /\ pl[p].jobs \in SUBSET Job /\ pl[p].at = "side"
      /\ RoundOK(Of(own, p), orders, pl[p])
    BY StandingRound DEF Round, CancelSide
<1>5. k.tok = j.tok /\ k.shares = j.shares
    BY <1>4 DEF Job
<1>6. RoundOK(Of(own, p), orders', pl[p])
    BY <1>2, <1>4, ShrinkOK
<1>7. JobsOK(Of(own, p), orders', jobs, pl[p].todo)
    <2>1. JobsOK(Of(own, p), orders', pl[p].jobs, pl[p].todo)
        BY <1>6 DEF RoundOK
    <2>2. JobOK(Of(own, p), orders', k, pl[p].todo)
        BY <1>2, <1>5, <2>1 DEF JobsOK, JobOK
    <2>. HIDE DEF k
    <2>. QED
        BY <1>5, <2>1, <2>2 DEF JobsOK
<1>8. \A i \in Alive(orders') : i \in Of(own, p) /\ Market(orders'[i].tok) \in pl[p].todo =>
          \E o \in pl[p].snap : o.id = i
    BY <1>4, <1>6 DEF RoundOK, AllSeen, Working
<1>. HIDE DEF jobs
<1>9. RoundOK(Of(own, p), orders', Onward(pl[p], jobs, pl[p].todo))
    BY <1>4, <1>6, <1>7, <1>8, OnwardOK DEF RoundOK
<1>. QED
    BY <1>2, <1>3, <1>9, StepSafe

\* The rest of a round once one of its jobs is done.
LEMMA AfterJobSafe ==
    ASSUME NEW own, Standing(own), NEW mine, NEW p \in Placers, pl[p].at = "side",
           NEW j \in pl[p].jobs, NEW l, NEW ord,
           SnapOK(ord, pl[p]), JobsOK(mine, ord, pl[p].jobs \ {j}, pl[p].todo),
           \A i \in Alive(ord) : i \in mine /\ Market(ord[i].tok) \in pl[p].todo =>
               \E o \in pl[p].snap : o.id = i,
           \/ l = AfterPlace(p, j)
           \/ l = Onward(pl[p], pl[p].jobs \ {j}, pl[p].todo)
    PROVE  RoundOK(mine, ord, l)
<1>. DEFINE k == [pl[p] EXCEPT !.open = @ \cup {Market(j.tok)},
                               !.placed = IF p = "test" THEN @ + 1 ELSE 0]
<1>1. pl[p] \in Round /\ Market(j.tok) \in Markets
    BY TokensAssumption, StandingRound DEF Round, Job, Market
<1>2. k \in Round /\ k.jobs = pl[p].jobs /\ k.todo = pl[p].todo /\ k.snap = pl[p].snap
    <2>1. PICK O, n : /\ k = [pl[p] EXCEPT !.open = O, !.placed = n]
                      /\ O = pl[p].open \cup {Market(j.tok)}
                      /\ n = IF p = "test" THEN pl[p].placed + 1 ELSE 0
        OBVIOUS
    <2>2. O \in SUBSET Markets /\ n \in Nat
        BY <1>1, <2>1 DEF Round
    <2>. HIDE DEF k
    <2>. QED
        BY <1>1, <2>1, <2>2 DEF Round
<1>3. AfterPlace(p, j) = IF p = "test" /\ k.placed >= TestLimit THEN Idle
                         ELSE Onward(k, k.jobs \ {j}, k.todo)
    BY DEF AfterPlace
<1>. HIDE DEF k
<1>4. \A x \in Round : x.snap = pl[p].snap =>
          RoundOK(mine, ord, Onward(x, pl[p].jobs \ {j}, pl[p].todo))
    <2>. TAKE x \in Round
    <2>. HAVE x.snap = pl[p].snap
    <2>1. SnapOK(ord, x)
        BY DEF SnapOK
    <2>. QED
        BY <2>1, OnwardOK
<1>. QED
    BY <1>1, <1>2, <1>3, <1>4, IdleOK

LEMMA PlaceSideSafe ==
    ASSUME NEW own, Standing(own), NEW p \in Placers, PlaceSide(p)
    PROVE  Safe(orders)'
<1>1. PICK j \in pl[p].jobs, i \in NextId :
        /\ j.cancel = {}
        /\ \E n \in IF "take" \in Env THEN 0..j.shares ELSE {0} :
             /\ held[j.tok] + n <= MaxHeld
             /\ orders' = [orders EXCEPT ![i] =
                    IF n = j.shares THEN None
                    ELSE [tok |-> j.tok, price |-> j.price, left |-> j.shares - n,
                          hit |-> n > 0]]
        /\ \/ Goes(p, AfterPlace(p, j))
           \/ Goes(p, Onward(pl[p], pl[p].jobs \ {j}, pl[p].todo))
    BY DEF PlaceSide
<1>2. /\ i \in Slots /\ i \notin Alive(orders) /\ \A q \in Placers : \A o \in pl[q].snap : o.id # i
      /\ j \in Job /\ j.shares \in Nat /\ pl[p].at = "side"
      /\ RoundOK(Of(own, p), orders, pl[p])
    BY <1>1, StandingRound DEF Round, NextId, FreeIds, Live, Alive, PlaceSide, Job, Lots
<1>3. PICK n, new :
        /\ n \in 0..j.shares
        /\ orders' = [orders EXCEPT ![i] = new]
        /\ new = IF n = j.shares THEN None
                 ELSE [tok |-> j.tok, price |-> j.price, left |-> j.shares - n, hit |-> n > 0]
    <2>1. 0 \in 0..j.shares
        BY <1>2
    <2>. QED
        BY <1>1, <2>1
<1>4. \/ new.left = 0
      \/ j.shares > 0 /\ new.tok = j.tok
    BY <1>2, <1>3 DEF None
<1>5. /\ orders'[i] = new /\ \A k \in Slots \ {i} : orders'[k] = orders[k]
    BY <1>2, <1>3, StandingRound DEF TypeOK
<1>6. \A k \in Alive(orders') : \/ k \in Alive(orders) /\ orders'[k] = orders[k] /\ k # i
                                \/ k = i /\ j.shares > 0 /\ orders'[k].tok = j.tok
    BY <1>2, <1>4, <1>5 DEF Alive
<1>. DEFINE now == [own EXCEPT ![i] = p]
<1>7. /\ now \in Owners /\ own \in Owners
      /\ now[i] = p /\ \A k \in Slots \ {i} : now[k] = own[k]
    BY <1>2, PlacersAssumption DEF Standing, Owners
<1>. HIDE DEF now
<1>8. \A k \in Alive(orders') : now[k] \in Placers
    BY <1>2, <1>6, <1>7 DEF Standing, Kept, Alive
<1>9. \A q \in Placers, k \in Slots \ {i} : k \in Of(now, q) <=> k \in Of(own, q)
    BY <1>7 DEF Of
<1>10. i \in Of(now, p) /\ \A q \in Placers \ {p} : i \notin Of(now, q)
    BY <1>2, <1>7 DEF Of
<1>11. Alive(orders) \subseteq Slots \ {i} /\ Alive(orders') \subseteq Slots
    BY <1>2 DEF Alive
<1>12. \A q \in Placers : SnapOK(orders', pl[q])
    <2>. TAKE q \in Placers
    <2>1. SnapOK(orders, pl[q])
        BY StandingRound DEF RoundOK
    <2>. QED
        BY <1>2, <1>6, <2>1 DEF SnapOK
<1>13. /\ JobOK(Of(own, p), orders, j, pl[p].todo)
       /\ JobsOK(Of(own, p), orders, pl[p].jobs, pl[p].todo)
    BY <1>2 DEF RoundOK, JobsOK
<1>14. OneBuy(Of(now, p), orders')
    <2>1. j.shares > 0 => \A k \in Alive(orders) : k \in Of(own, p) => orders[k].tok # j.tok
        BY <1>1, <1>13 DEF JobOK
    <2>2. OneBuy(Of(own, p), orders)
        BY DEF Standing, Kept, PlacerOK
    <2>. QED
        BY <1>6, <1>9, <1>11, <2>1, <2>2 DEF OneBuy
<1>15. \A k \in Alive(orders') : k \in Of(now, p) /\ Market(orders'[k].tok) \in pl[p].todo =>
           \E o \in pl[p].snap : o.id = k
    BY <1>2, <1>6, <1>9, <1>11, <1>13 DEF RoundOK, AllSeen, Working, JobOK
<1>16. JobsOK(Of(now, p), orders', pl[p].jobs \ {j}, pl[p].todo)
    <2>1. ASSUME NEW k \in pl[p].jobs \ {j}
          PROVE  JobOK(Of(now, p), orders', k, pl[p].todo)
        <3>1. JobOK(Of(own, p), orders, k, pl[p].todo) /\ k.tok # j.tok
            BY <1>13, <2>1 DEF JobsOK
        <3>. QED
            BY <1>6, <1>9, <1>11, <3>1 DEF JobOK
    <2>. QED
        BY <1>13, <2>1 DEF JobsOK
<1>17. PICK l : Goes(p, l) /\ (\/ l = AfterPlace(p, j)
                               \/ l = Onward(pl[p], pl[p].jobs \ {j}, pl[p].todo))
    BY <1>1
<1>18. RoundOK(Of(now, p), orders', l)
    BY <1>2, <1>12, <1>15, <1>16, <1>17, AfterJobSafe
<1>19. ASSUME NEW q \in Placers, q # p
       PROVE  PlacerOK(Of(now, q), orders', pl[q])
    <2>1. /\ OneBuy(Of(own, q), orders) /\ RoundOK(Of(own, q), orders, pl[q])
          /\ i \notin Of(now, q)
        BY <1>10, <1>19 DEF Standing, Kept, PlacerOK
    <2>2. \A k \in Alive(orders') : k \in Of(now, q) =>
              k \in Alive(orders) /\ k \in Of(own, q) /\ orders'[k] = orders[k]
        BY <1>6, <1>9, <1>11, <2>1
    <2>3. OneBuy(Of(now, q), orders')
        BY <2>1, <2>2 DEF OneBuy
    <2>4. AllSeen(Of(now, q), orders', pl[q])
        BY <2>1, <2>2 DEF RoundOK, AllSeen
    <2>5. JobsOK(Of(now, q), orders', pl[q].jobs, pl[q].todo)
        BY <2>1, <2>2 DEF RoundOK, JobsOK, JobOK
    <2>. QED
        BY <1>12, <2>3, <2>4, <2>5 DEF PlacerOK, RoundOK
<1>20. \A q \in Placers : pl'[q] = IF q = p THEN l ELSE pl[q]
    BY <1>17, StandingRound DEF Goes, TypeOK
<1>21. \A q \in Placers : PlacerOK(Of(now, q), orders', pl'[q])
    BY <1>14, <1>18, <1>19, <1>20 DEF PlacerOK
<1>. QED
    BY <1>7, <1>8, <1>21 DEF Safe, Kept

LEMMA PlaceRejectedSafe ==
    ASSUME NEW own, Standing(own), NEW p \in Placers, PlaceRejected(p)
    PROVE  Safe(orders)'
<1>1. PICK j \in pl[p].jobs : Goes(p, Onward(pl[p], pl[p].jobs \ {j}, pl[p].todo))
    BY DEF PlaceRejected
<1>2. pl[p].at = "side" /\ orders' = orders /\ RoundOK(Of(own, p), orders, pl[p])
    BY StandingRound DEF PlaceRejected
<1>3. JobsOK(Of(own, p), orders, pl[p].jobs \ {j}, pl[p].todo)
    BY <1>2 DEF RoundOK, JobsOK
<1>4. RoundOK(Of(own, p), orders, Onward(pl[p], pl[p].jobs \ {j}, pl[p].todo))
    BY <1>2, <1>3, AfterJobSafe DEF RoundOK, AllSeen, Working
<1>. QED
    BY <1>1, <1>2, <1>4, StepSafe, SameShrinks

\* Everything else only ends orders or makes them smaller, and touches no round.
LEMMA OthersShrink ==
    ASSUME TypeOK, Tick \/ World \/ UNCHANGED vars
    PROVE  pl' = pl /\ Shrinks(orders, orders')
<1>1. ASSUME Tick PROVE pl' = pl /\ Shrinks(orders, orders')
    BY <1>1, CancelShrinks
       DEF Tick, HandleFill, ResolutionGuard, BlacklistCancel, ComplianceCancel
<1>2. ASSUME NEW i \in Slots, NEW n \in Lots \ {0}, Fill(i, n)
      PROVE  pl' = pl /\ Shrinks(orders, orders')
    <2>1. PICK new : /\ orders' = [orders EXCEPT ![i] = new]
                     /\ new.left > 0 => new.tok = orders[i].tok
                     /\ i \in Live /\ pl' = pl
        <3>. DEFINE o == orders[i]
                    new == IF n = o.left THEN None ELSE [o EXCEPT !.left = @ - n, !.hit = TRUE]
        <3>1. o \in Order
            BY <1>2 DEF Fill, Live, TypeOK, None
        <3>2. [o EXCEPT !.left = @ - n, !.hit = TRUE].tok = o.tok
            BY <3>1 DEF Order
        <3>3. new.left > 0 => new.tok = o.tok
            BY <3>2 DEF None
        <3>. QED
            BY <1>2, <3>3 DEF Fill
    <2>. QED
        BY <2>1 DEF Shrinks, Alive, Live, TypeOK
<1>3. ASSUME NEW m \in Markets, AddBlacklist(m)
      PROVE  pl' = pl /\ Shrinks(orders, orders')
    BY <1>3, CancelShrinks DEF AddBlacklist
<1>4. ASSUME CancelAllBuys
      PROVE  pl' = pl /\ Shrinks(orders, orders')
    BY <1>4, CancelShrinks DEF CancelAllBuys
<1>5. ASSUME orders' = orders /\ pl' = pl
      PROVE  pl' = pl /\ Shrinks(orders, orders')
    BY <1>5, SameShrinks
<1>. QED
    BY <1>1, <1>2, <1>3, <1>4, <1>5
       DEF World, RemoveBlacklist, StartResolution, Expire, Discover, Move, Exit, vars

LEMMA OthersSafe ==
    ASSUME NEW own, Standing(own), Tick \/ World \/ UNCHANGED vars
    PROVE  Safe(orders)'
<1>1. pl' = pl /\ Shrinks(orders, orders')
    BY OthersShrink DEF Standing, TInv
<1>2. \A i \in Alive(orders') : own[i] \in Placers
    BY <1>1 DEF Standing, Kept, Shrinks
<1>3. ASSUME NEW q \in Placers
      PROVE  PlacerOK(Of(own, q), orders', pl'[q])
    <2>1. OneBuy(Of(own, q), orders) /\ RoundOK(Of(own, q), orders, pl[q])
        BY DEF Standing, Kept, PlacerOK
    <2>. QED
        BY <1>1, <2>1, ShrinkOK DEF PlacerOK
<1>. QED
    BY <1>2, <1>3 DEF Standing, Safe, Kept

LEMMA InitSafe == Init => RInv
<1>. SUFFICES ASSUME Init PROVE RInv
    OBVIOUS
<1>1. TInv
    BY InitTyped
<1>2. Alive(orders) = {}
    BY DEF Init, Alive, None
<1>3. \A p \in Placers : pl[p] = Idle
    BY DEF Init
<1>. DEFINE own == [i \in Slots |-> "scan"]
<1>4. own \in Owners
    BY DEF Owners
<1>. HIDE DEF own
<1>5. ASSUME NEW p \in Placers
      PROVE  PlacerOK(Of(own, p), orders, pl[p])
    BY <1>2, <1>3, IdleOK DEF PlacerOK, OneBuy
<1>. QED
    BY <1>1, <1>2, <1>4, <1>5 DEF RInv, Safe, Kept

LEMMA NextSafe ==
    ASSUME Truthful, RInv, [Next]_vars
    PROVE  RInv'
<1>1. TInv'
    BY NextTyped DEF RInv
<1>2. PICK own \in Owners : Standing(own)
    BY DEF RInv, Safe, Standing
<1>3. ASSUME NEW p \in Placers, Begin(p) \/ RoundStep(p) PROVE Safe(orders)'
    BY <1>2, <1>3, BeginSafe, ReadOrdersSafe, ReadPositionsSafe, ReadRaisesSafe, DropoutSafe,
       ReadGammaSafe, PlanMarketSafe, CancelSideSafe, PlaceSideSafe, PlaceRejectedSafe
       DEF RoundStep
<1>4. Safe(orders)'
    BY <1>2, <1>3, OthersSafe DEF Next
<1>. QED
    BY <1>1, <1>4 DEF RInv

\* Rounds that run side by side each place from their own snapshot, so a token may
\* rest as many buys as there are placers; but every placer's next round finds and
\* cancels its own, so no number of rounds lets the buys pile up any further.
BuysPerPlacer == \A t \in Tokens : Cardinality(BuysOn(t)) <= Cardinality(Placers)

LEMMA BuysAreOwned ==
    ASSUME RInv, NEW t \in Tokens
    PROVE  Cardinality(BuysOn(t)) <= Cardinality(Placers)
<1>1. PICK own \in Owners : Kept(own, orders)
    BY DEF RInv, Safe
<1>. DEFINE by == [i \in BuysOn(t) |-> own[i]]
<1>2. BuysOn(t) \subseteq Alive(orders) /\ \A i \in BuysOn(t) : orders[i].tok = t
    BY DEF BuysOn, Live, Alive
<1>3. by \in [BuysOn(t) -> Placers]
    BY <1>1, <1>2 DEF Kept
<1>4. ASSUME NEW i \in BuysOn(t), NEW k \in BuysOn(t), by[i] = by[k]
      PROVE  i = k
    <2>1. own[i] \in Placers /\ own[k] = own[i]
        BY <1>3, <1>4
    <2>2. i \in Slots /\ k \in Slots
        BY DEF BuysOn, Live
    <2>3. OneBuy(Of(own, own[i]), orders)
        BY <1>1, <2>1 DEF Kept, PlacerOK
    <2>. QED
        BY <1>2, <2>1, <2>2, <2>3 DEF OneBuy, Of
<1>5. IsFiniteSet(Placers)
    <2>1. IsFiniteSet({} \cup {"scan"})
        BY FS_EmptySet, FS_AddElement
    <2>2. IsFiniteSet(({} \cup {"scan"}) \cup {"web"})
        BY <2>1, FS_AddElement
    <2>3. IsFiniteSet((({} \cup {"scan"}) \cup {"web"}) \cup {"test"})
        BY <2>2, FS_AddElement
    <2>4. Placers \subseteq (({} \cup {"scan"}) \cup {"web"}) \cup {"test"}
        BY PlacersAssumption
    <2>. QED
        BY <2>3, <2>4, FS_Subset
<1>6. by \in Injection(BuysOn(t), Placers)
    BY <1>3, <1>4 DEF Injection, IsInjective
<1>. QED
    BY <1>5, <1>6, FS_Injection

THEOREM BuysWithinPlacers ==
    ASSUME Truthful
    PROVE  Spec => []BuysPerPlacer
<1>1. RInv => BuysPerPlacer
    BY BuysAreOwned DEF BuysPerPlacer
<1>2. RInv /\ [Next]_vars => RInv'
    BY NextSafe
<1>. QED
    BY <1>1, <1>2, InitSafe, PTL DEF Spec

\* One placer has placed everything that rests.
LEMMA AloneOwns ==
    ASSUME Alone, RInv, NEW p \in Placers
    PROVE  PlacerOK(Slots, orders, pl[p])
<1>1. PICK own \in Owners : Kept(own, orders)
    BY DEF RInv, Safe
<1>2. PlacerOK(Of(own, p), orders, pl[p])
    BY <1>1 DEF Kept
<1>3. \A i \in Alive(orders) : i \in Slots /\ i \in Of(own, p)
    BY <1>1 DEF Alone, Kept, Alive, Of
<1>4. OneBuy(Slots, orders)
    BY <1>2, <1>3 DEF PlacerOK, OneBuy
<1>5. AllSeen(Slots, orders, pl[p])
    BY <1>2, <1>3 DEF PlacerOK, RoundOK, AllSeen
<1>6. JobsOK(Slots, orders, pl[p].jobs, pl[p].todo)
    BY <1>2, <1>3 DEF PlacerOK, RoundOK, JobsOK, JobOK
<1>. QED
    BY <1>2, <1>4, <1>5, <1>6 DEF PlacerOK, RoundOK

\* One placer, whose cancels do what they answer, never lets two buys rest on a
\* token: not by a stale snapshot, a partial fill, a lost answer of its own or a
\* cancel of the tick in between.
THEOREM OneBuyOnly ==
    ASSUME Alone, Truthful
    PROVE  Spec => []OneBuyPerToken
<1>1. ASSUME RInv PROVE OneBuyPerToken
    <2>1. PICK own \in Owners : Kept(own, orders)
        BY <1>1 DEF RInv, Safe
    <2>2. ASSUME NEW i \in Alive(orders), NEW k \in Alive(orders), orders[i].tok = orders[k].tok
          PROVE  i = k
        <3>1. own[i] \in Placers /\ i \in Slots
            BY <2>1 DEF Kept, Alive
        <3>2. OneBuy(Slots, orders)
            BY <1>1, <3>1, AloneOwns DEF PlacerOK
        <3>. QED
            BY <2>2, <3>2 DEF OneBuy, Alive
    <2>. QED
        BY <2>2 DEF OneBuyPerToken, BuysOn, Live, Alive
<1>2. RInv /\ [Next]_vars => RInv'
    BY NextSafe
<1>. QED
    BY <1>1, <1>2, InitSafe, PTL DEF Spec

-----------------------------------------------------------------------------
\* The cap on quoted markets, when no placed order goes unanswered

Answered == "lostReply" \notin Env
MarketsFinite == IsFiniteSet(Markets)

OpenIn(ord) == {m \in Markets : \E i \in Alive(ord) : Market(ord[i].tok) = m}
Cap(ord) == Cardinality(OpenIn(ord)) <= MaxConcurrent

\* A round's markets_with_open covers every quoted market and respects the cap,
\* and a side about to be placed either opens no market or has room for one.
Fits(ord, open) ==
    /\ \A i \in Alive(ord) : Market(ord[i].tok) \in open
    /\ Cardinality(open) <= MaxConcurrent
Room(jobs, open) ==
    \A j \in jobs : Market(j.tok) \in open \/ ~(Cardinality(open) >= MaxConcurrent)
CapOK(ord, l) ==
    /\ l.at \in Reading \cup Working => Fits(ord, l.open)
    /\ l.at = "side" => Room(l.jobs, l.open)

CInv == RInv /\ Cap(orders) /\ \A p \in Placers : CapOK(orders, pl[p])
Capped(ord) == Cap(ord) /\ \A p \in Placers : CapOK(ord, pl[p])

LEMMA CapOfPart ==
    ASSUME MarketsFinite, NEW S \in SUBSET Markets, NEW T \in SUBSET S,
           Cardinality(S) <= MaxConcurrent
    PROVE  Cardinality(T) <= MaxConcurrent
<1>1. IsFiniteSet(S)
    BY FS_Subset DEF MarketsFinite
<1>2. IsFiniteSet(T) /\ Cardinality(T) <= Cardinality(S)
    BY <1>1, FS_Subset
<1>3. Cardinality(T) \in Nat /\ Cardinality(S) \in Nat
    BY <1>1, <1>2, FS_CardinalityType
<1>. QED
    BY <1>2, <1>3, SizesAssumption

LEMMA CapOfOneMore ==
    ASSUME MarketsFinite, NEW S \in SUBSET Markets, NEW m \in Markets,
           Cardinality(S) <= MaxConcurrent,
           m \in S \/ ~(Cardinality(S) >= MaxConcurrent)
    PROVE  Cardinality(S \cup {m}) <= MaxConcurrent
<1>1. IsFiniteSet(S) /\ Cardinality(S) \in Nat
    BY FS_Subset, FS_CardinalityType DEF MarketsFinite
<1>2. CASE m \in S
    <2>1. S \cup {m} = S
        BY <1>2
    <2>. QED
        BY <2>1
<1>3. CASE m \notin S
    <2>1. Cardinality(S \cup {m}) = Cardinality(S) + 1
        BY <1>1, <1>3, FS_AddElement
    <2>. QED
        BY <1>1, <1>3, <2>1, SizesAssumption
<1>. QED
    BY <1>2, <1>3

LEMMA ShrinkCap ==
    ASSUME MarketsFinite, NEW old, NEW new, Shrinks(old, new)
    PROVE  /\ Cap(old) => Cap(new)
           /\ \A l : CapOK(old, l) => CapOK(new, l)
<1>1. OpenIn(new) \in SUBSET OpenIn(old) /\ OpenIn(old) \in SUBSET Markets
    BY DEF OpenIn, Shrinks
<1>2. Cap(old) => Cap(new)
    BY <1>1, CapOfPart DEF Cap
<1>3. \A open : Fits(old, open) => Fits(new, open)
    BY DEF Fits, Shrinks
<1>. QED
    BY <1>2, <1>3 DEF CapOK

LEMMA IdleCap ==
    ASSUME NEW ord
    PROVE  CapOK(ord, Idle)
    BY DEF CapOK, Idle, Reading, Working

LEMMA OnwardCap ==
    ASSUME NEW ord, NEW l \in Round, NEW jobs, NEW todo, Fits(ord, l.open), Room(jobs, l.open)
    PROVE  CapOK(ord, Onward(l, jobs, todo))
<1>1. CASE jobs # {}
    <2>. DEFINE n == [l EXCEPT !.at = "side", !.jobs = jobs, !.todo = todo]
    <2>1. n.at = "side" /\ n.jobs = jobs /\ n.open = l.open
        BY DEF Round
    <2>2. Onward(l, jobs, todo) = n
        BY <1>1 DEF Onward
    <2>. HIDE DEF n
    <2>. QED
        BY <2>1, <2>2 DEF CapOK
<1>2. CASE jobs = {} /\ todo # {}
    <2>. DEFINE n == [l EXCEPT !.at = "market", !.jobs = {}, !.todo = todo]
    <2>1. n.at = "market" /\ n.open = l.open
        BY DEF Round
    <2>2. Onward(l, jobs, todo) = n
        BY <1>2 DEF Onward
    <2>. HIDE DEF n
    <2>. QED
        BY <2>1, <2>2 DEF CapOK
<1>3. CASE jobs = {} /\ todo = {}
    BY <1>3, IdleCap DEF Onward
<1>. QED
    BY <1>1, <1>2, <1>3

LEMMA StepCapped ==
    ASSUME Alone, MarketsFinite, CInv, NEW p \in Placers, NEW l, Goes(p, l),
           Shrinks(orders, orders'), CapOK(orders', l)
    PROVE  Capped(orders)'
<1>1. Cap(orders')
    BY ShrinkCap DEF CInv
<1>2. pl'[p] = l
    BY DEF Goes, CInv, RInv, TInv, TypeOK
<1>3. \A q \in Placers : CapOK(orders', pl'[q])
    BY <1>2 DEF Alone
<1>. QED
    BY <1>1, <1>3 DEF Capped

LEMMA BeginCapped ==
    ASSUME Alone, MarketsFinite, CInv, NEW p \in Placers, Begin(p)
    PROVE  Capped(orders)'
<1>. DEFINE l == [Idle EXCEPT !.at = "orders",
                     !.elig = {t \in Tokens : quote[t] # Off /\ Market(t) \in pool \ cooldown}]
<1>1. Goes(p, l) /\ orders' = orders
    BY DEF Begin
<1>2. l.at = "orders"
    BY DEF Idle
<1>. HIDE DEF l
<1>3. CapOK(orders, l)
    BY <1>2 DEF CapOK, Reading, Working
<1>. QED
    BY <1>1, <1>3, StepCapped, SameShrinks

LEMMA ReadOrdersCapped ==
    ASSUME Alone, MarketsFinite, CInv, NEW p \in Placers, ReadOrders(p)
    PROVE  Capped(orders)'
<1>1. PICK S : Goes(p, [pl[p] EXCEPT !.at = "positions", !.open = Open, !.snap = S]) /\
               orders' = orders
    BY DEF ReadOrders
<1>. DEFINE l == [pl[p] EXCEPT !.at = "positions", !.open = Open, !.snap = S]
<1>2. l.at = "positions" /\ l.open = Open
    BY DEF CInv, RInv, TInv, TypeOK, Round
<1>3. Open = OpenIn(orders)
    BY DEF Open, BuysIn, OpenIn, Live, Alive
<1>4. \A i \in Alive(orders) : Market(orders[i].tok) \in OpenIn(orders)
    <2>. TAKE i \in Alive(orders)
    <2>1. orders[i] \in Order
        BY DEF CInv, RInv, TInv, TypeOK, Alive, None
    <2>2. Market(orders[i].tok) \in Markets
        BY <2>1, TokensAssumption DEF Order, Market
    <2>. QED
        BY <2>2 DEF OpenIn
<1>5. Goes(p, l)
    BY <1>1
<1>. HIDE DEF l
<1>6. CapOK(orders, l)
    BY <1>2, <1>3, <1>4 DEF CInv, Cap, CapOK, Fits
<1>. QED
    BY <1>1, <1>5, <1>6, StepCapped, SameShrinks

LEMMA ReadPositionsCapped ==
    ASSUME Alone, MarketsFinite, CInv, NEW p \in Placers, ReadPositions(p)
    PROVE  Capped(orders)'
<1>. DEFINE l == [pl[p] EXCEPT !.at = IF p = "test" THEN "gamma" ELSE "dropout",
                               !.held = held, !.black = blacklist]
<1>1. Goes(p, l) /\ orders' = orders
    BY DEF ReadPositions
<1>2. l.at \in {"gamma", "dropout"} /\ l.open = pl[p].open /\ pl[p].at \in Reading
    BY DEF ReadPositions, CInv, RInv, TInv, TypeOK, Round, Reading
<1>. HIDE DEF l
<1>3. CapOK(orders, l)
    BY <1>2 DEF CInv, CapOK
<1>. QED
    BY <1>1, <1>3, StepCapped, SameShrinks

LEMMA ReadRaisesCapped ==
    ASSUME Alone, MarketsFinite, CInv, NEW p \in Placers, ReadRaises(p)
    PROVE  Capped(orders)'
<1>1. Goes(p, Idle) /\ orders' = orders
    BY DEF ReadRaises
<1>. QED
    BY <1>1, IdleCap, StepCapped, SameShrinks

\* The dropped markets leave markets_with_open, and their buys are gone.
LEMMA DropoutCapped ==
    ASSUME Alone, Truthful, MarketsFinite, CInv, NEW p \in Placers, Dropout(p)
    PROVE  Capped(orders)'
<1>. DEFINE ids(D) == {o.id : o \in {o \in pl[p].snap : Market(o.tok) \in D}}
<1>1. PICK D : \E r \in CancelAnswers(ids(D)) :
        /\ orders' = r.orders
        /\ Goes(p, [pl[p] EXCEPT !.at = "gamma", !.open = IF r.returned THEN @ \ D ELSE @])
    BY DEF Dropout
<1>2. PICK r \in CancelAnswers(ids(D)) :
        /\ orders' = r.orders
        /\ Goes(p, [pl[p] EXCEPT !.at = "gamma", !.open = IF r.returned THEN @ \ D ELSE @])
    BY <1>1
<1>3. TypeOK
    BY DEF CInv, RInv, TInv
<1>. HIDE DEF ids
<1>4. r.returned /\ (\A i \in Alive(orders') : i \notin ids(D)) /\ Shrinks(orders, orders')
    BY <1>2, <1>3, TruthfulCancel, CancelShrinks
<1>. DEFINE l == [pl[p] EXCEPT !.at = "gamma", !.open = pl[p].open \ D]
<1>5. Goes(p, l)
    BY <1>2, <1>4
<1>6. l.at = "gamma" /\ l.open = pl[p].open \ D
    BY <1>3 DEF TypeOK, Round
<1>7. /\ pl[p].at \in Reading /\ Fits(orders, pl[p].open) /\ RoundOK(Slots, orders, pl[p])
      /\ pl[p].open \in SUBSET Markets
    BY <1>3, AloneOwns DEF Dropout, Reading, CInv, PlacerOK, CapOK, TypeOK, Round
<1>8. \A i \in Alive(orders') : Market(orders'[i].tok) \in pl[p].open \ D
    <2>. TAKE i \in Alive(orders')
    <2>1. i \in Alive(orders) /\ orders'[i].tok = orders[i].tok
        BY <1>4 DEF Shrinks
    <2>2. PICK o \in pl[p].snap : o.id = i /\ o.tok = orders[i].tok
        BY <1>7, <2>1 DEF Alive, RoundOK, AllSeen, SnapOK
    <2>3. Market(orders[i].tok) \notin D
        BY <1>4, <2>2 DEF ids
    <2>. QED
        BY <1>7, <2>1, <2>3 DEF Fits
<1>9. Cardinality(pl[p].open \ D) <= MaxConcurrent
    BY <1>7, CapOfPart DEF Fits
<1>. HIDE DEF l
<1>10. CapOK(orders', l)
    BY <1>6, <1>8, <1>9 DEF CapOK, Fits
<1>. QED
    BY <1>4, <1>5, <1>10, StepCapped

LEMMA ReadGammaCapped ==
    ASSUME Alone, MarketsFinite, CInv, NEW p \in Placers, ReadGamma(p)
    PROVE  Capped(orders)'
<1>1. PICK known, todo : Goes(p, Onward([pl[p] EXCEPT !.uma = known], {}, todo)) /\
                         known \in SUBSET Markets /\ orders' = orders
    BY DEF ReadGamma, CInv, RInv, TInv, TypeOK
<1>. DEFINE l == [pl[p] EXCEPT !.uma = known]
<1>2. l \in Round /\ l.open = pl[p].open /\ Goes(p, Onward(l, {}, todo))
    BY <1>1 DEF CInv, RInv, TInv, TypeOK, Round
<1>. HIDE DEF l
<1>3. Fits(orders, l.open) /\ Room({}, l.open)
    BY <1>2 DEF ReadGamma, CInv, CapOK, Reading, Room
<1>4. CapOK(orders, Onward(l, {}, todo))
    BY <1>2, <1>3, OnwardCap
<1>. QED
    BY <1>1, <1>2, <1>4, StepCapped, SameShrinks

LEMMA MarketJobsIn ==
    ASSUME NEW l, NEW m, NEW sides, \A t \in sides : Market(t) = m
    PROVE  \A j \in MarketJobs(l, m, sides) : Market(j.tok) = m
<1>1. PICK want : MarketJobs(l, m, sides) \subseteq {Converge(l, t, want[t]) : t \in sides}
    BY DEF MarketJobs
<1>. QED
    BY <1>1, ConvergeTok

LEMMA PlanMarketCapped ==
    ASSUME Alone, MarketsFinite, CInv, NEW p \in Placers, PlanMarket(p)
    PROVE  Capped(orders)'
<1>0. TInv /\ pl[p] \in Round /\ Fits(orders, pl[p].open)
    BY DEF CInv, RInv, TInv, TypeOK, PlanMarket, CapOK, Working
<1>1. PICK m \in pl[p].todo : \E sides \in SUBSET {t \in pl[p].elig : Market(t) = m} :
        \E jobs \in SUBSET Job :
          /\ \/ jobs = {}
             \/ /\ jobs = MarketJobs(pl[p], m, sides)
                /\ m \in pl[p].open \/ ~(Cardinality(pl[p].open) >= MaxConcurrent)
          /\ Goes(p, Onward(pl[p], jobs, pl[p].todo \ {m}))
    BY <1>0, PlanShape
<1>2. PICK jobs \in SUBSET Job :
          /\ Room(jobs, pl[p].open)
          /\ Goes(p, Onward(pl[p], jobs, pl[p].todo \ {m}))
    BY <1>1, MarketJobsIn DEF Room
<1>3. CapOK(orders, Onward(pl[p], jobs, pl[p].todo \ {m}))
    BY <1>0, <1>2, OnwardCap
<1>4. orders' = orders
    BY DEF PlanMarket
<1>. QED
    BY <1>2, <1>3, <1>4, StepCapped, SameShrinks

LEMMA CancelSideCapped ==
    ASSUME Alone, MarketsFinite, CInv, NEW p \in Placers, CancelSide(p)
    PROVE  Capped(orders)'
<1>1. PICK j \in pl[p].jobs : \E r \in CancelAnswers(j.cancel) :
        /\ orders' = r.orders
        /\ Goes(p, Onward(pl[p],
               (pl[p].jobs \ {j}) \cup (IF j.shares > 0 THEN {[j EXCEPT !.cancel = {}]} ELSE {}),
               pl[p].todo))
    BY DEF CancelSide
<1>. DEFINE k == [j EXCEPT !.cancel = {}]
            jobs == (pl[p].jobs \ {j}) \cup (IF j.shares > 0 THEN {k} ELSE {})
<1>2. Shrinks(orders, orders')
    BY <1>1, CancelShrinks DEF CInv, RInv, TInv
<1>3. Goes(p, Onward(pl[p], jobs, pl[p].todo))
    BY <1>1
<1>4. /\ pl[p] \in Round /\ Room(pl[p].jobs, pl[p].open) /\ Fits(orders, pl[p].open)
      /\ j \in Job
    BY DEF CInv, RInv, TInv, TypeOK, Round, CancelSide, CapOK, Working
<1>5. k.tok = j.tok
    BY <1>4 DEF Job
<1>. HIDE DEF k
<1>6. Room(jobs, pl[p].open)
    BY <1>4, <1>5 DEF Room
<1>7. Fits(orders', pl[p].open)
    BY <1>2, <1>4 DEF Fits, Shrinks
<1>. HIDE DEF jobs
<1>8. CapOK(orders', Onward(pl[p], jobs, pl[p].todo))
    BY <1>4, <1>6, <1>7, OnwardCap
<1>. QED
    BY <1>2, <1>3, <1>8, StepCapped

\* The only step that may quote a new market puts it into markets_with_open.
LEMMA PlaceSideCapped ==
    ASSUME Alone, Answered, MarketsFinite, CInv, NEW p \in Placers, PlaceSide(p)
    PROVE  Capped(orders)'
<1>1. PICK j \in pl[p].jobs, i \in NextId :
        \E n \in IF "take" \in Env THEN 0..j.shares ELSE {0} :
             /\ orders' = [orders EXCEPT ![i] =
                    IF n = j.shares THEN None
                    ELSE [tok |-> j.tok, price |-> j.price, left |-> j.shares - n,
                          hit |-> n > 0]]
             /\ Goes(p, AfterPlace(p, j))
    BY DEF PlaceSide, Answered
<1>2. PICK new : /\ orders' = [orders EXCEPT ![i] = new]
                 /\ new.left = 0 \/ new.tok = j.tok
                 /\ Goes(p, AfterPlace(p, j))
    BY <1>1 DEF None
<1>3. /\ pl[p] \in Round /\ Room(pl[p].jobs, pl[p].open) /\ Fits(orders, pl[p].open)
      /\ Market(j.tok) \in Markets /\ pl[p].open \in SUBSET Markets
    BY TokensAssumption
       DEF CInv, RInv, TInv, TypeOK, Round, Job, Market, PlaceSide, CapOK, Working
<1>. DEFINE O == pl[p].open \cup {Market(j.tok)}
<1>4. O \in SUBSET Markets /\ Cardinality(O) <= MaxConcurrent
    BY <1>3, CapOfOneMore DEF Room, Fits
<1>5. \A k \in Alive(orders') : Market(orders'[k].tok) \in O
    <2>. TAKE k \in Alive(orders')
    <2>0. orders \in [Slots -> Order \cup {None}]
        BY DEF CInv, RInv, TInv, TypeOK
    <2>1. \/ orders'[k] = orders[k] /\ k \in Alive(orders)
          \/ orders'[k] = new /\ new.left > 0
        <3>1. k \in Slots /\ orders'[k].left > 0
            BY DEF Alive
        <3>2. orders'[k] = orders[k] \/ orders'[k] = new
            BY <1>2, <2>0, <3>1
        <3>. QED
            BY <3>1, <3>2 DEF Alive
    <2>. QED
        BY <1>2, <1>3, <2>1 DEF Fits
<1>. HIDE DEF O
<1>6. Cap(orders')
    <2>1. OpenIn(orders') \in SUBSET O
        BY <1>5 DEF OpenIn
    <2>. QED
        BY <1>4, <2>1, CapOfPart DEF Cap
<1>. DEFINE n == IF p = "test" THEN pl[p].placed + 1 ELSE 0
            k == [pl[p] EXCEPT !.open = O, !.placed = n]
<1>7. AfterPlace(p, j) = IF p = "test" /\ k.placed >= TestLimit THEN Idle
                         ELSE Onward(k, k.jobs \ {j}, k.todo)
    BY DEF AfterPlace, O
<1>8. k \in Round /\ k.open = O /\ k.jobs = pl[p].jobs
    <2>1. n \in Nat
        BY <1>3 DEF Round
    <2>. HIDE DEF n
    <2>. QED
        BY <1>3, <1>4, <2>1 DEF Round
<1>. HIDE DEF k
<1>9. Room(k.jobs \ {j}, O)
    <2>1. \A x \in pl[p].jobs : Market(x.tok) = Market(j.tok)
        BY <1>1, AloneOwns DEF CInv, PlacerOK, RoundOK, JobsOK
    <2>. QED
        BY <1>8, <2>1 DEF Room, O
<1>10. CapOK(orders', AfterPlace(p, j))
    <2>1. CapOK(orders', Onward(k, k.jobs \ {j}, k.todo))
        BY <1>4, <1>5, <1>8, <1>9, OnwardCap DEF Fits
    <2>. QED
        BY <1>7, <2>1, IdleCap
<1>11. pl'[p] = AfterPlace(p, j)
    BY <1>2 DEF Goes, CInv, RInv, TInv, TypeOK
<1>. QED
    BY <1>6, <1>10, <1>11 DEF Capped, Alone

LEMMA PlaceRejectedCapped ==
    ASSUME Alone, MarketsFinite, CInv, NEW p \in Placers, PlaceRejected(p)
    PROVE  Capped(orders)'
<1>1. PICK j \in pl[p].jobs : Goes(p, Onward(pl[p], pl[p].jobs \ {j}, pl[p].todo))
    BY DEF PlaceRejected
<1>2. /\ pl[p] \in Round /\ Room(pl[p].jobs \ {j}, pl[p].open) /\ Fits(orders, pl[p].open)
      /\ orders' = orders
    BY DEF CInv, RInv, TInv, TypeOK, PlaceRejected, CapOK, Working, Room
<1>3. CapOK(orders, Onward(pl[p], pl[p].jobs \ {j}, pl[p].todo))
    BY <1>2, OnwardCap
<1>. QED
    BY <1>1, <1>2, <1>3, StepCapped, SameShrinks

LEMMA OthersCapped ==
    ASSUME MarketsFinite, CInv, Tick \/ World \/ UNCHANGED vars
    PROVE  Capped(orders)'
<1>1. pl' = pl /\ Shrinks(orders, orders')
    BY OthersShrink DEF CInv, RInv, TInv
<1>. QED
    BY <1>1, ShrinkCap DEF CInv, Capped

LEMMA InitCapped == MarketsFinite /\ Init => CInv
<1>. SUFFICES ASSUME MarketsFinite, Init PROVE CInv
    OBVIOUS
<1>1. OpenIn(orders) = {}
    BY DEF Init, OpenIn, Alive, None
<1>2. Cap(orders)
    BY <1>1, FS_EmptySet, SizesAssumption DEF Cap
<1>3. \A p \in Placers : CapOK(orders, pl[p])
    BY IdleCap DEF Init
<1>. QED
    BY <1>2, <1>3, InitSafe DEF CInv

LEMMA NextCapped ==
    ASSUME Alone, Truthful, Answered, MarketsFinite, CInv, [Next]_vars
    PROVE  CInv'
<1>1. RInv'
    BY NextSafe DEF CInv
<1>2. ASSUME NEW p \in Placers, Begin(p) \/ RoundStep(p) PROVE Capped(orders)'
    BY <1>2, BeginCapped, ReadOrdersCapped, ReadPositionsCapped, ReadRaisesCapped,
       DropoutCapped, ReadGammaCapped, PlanMarketCapped, CancelSideCapped, PlaceSideCapped,
       PlaceRejectedCapped DEF RoundStep
<1>3. Capped(orders)'
    BY <1>2, OthersCapped DEF Next
<1>. QED
    BY <1>1, <1>3 DEF CInv, Capped

\* One placer whose cancels do what they answer and whose placed orders are all
\* answered never quotes more markets than max_concurrent_markets.
THEOREM CapKept ==
    ASSUME Alone, Truthful, Answered, MarketsFinite
    PROVE  Spec => []ConcurrencyCap
<1>1. CInv => ConcurrencyCap
    <2>1. Open = OpenIn(orders)
        BY DEF Open, BuysIn, OpenIn, Live, Alive
    <2>. QED
        BY <2>1 DEF CInv, Cap, ConcurrencyCap
<1>2. CInv /\ [Next]_vars => CInv'
    BY NextCapped
<1>3. Init => CInv
    BY InitCapped
<1>. QED
    BY <1>1, <1>2, <1>3, PTL DEF Spec

=============================================================================
