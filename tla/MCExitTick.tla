------------------------------ MODULE MCExitTick ------------------------------
(***************************************************************************)
(* Instances of ExitTick for TLC: a large position bought at 40 and a      *)
(* small one bought at 50.                                                 *)
(***************************************************************************)
EXTENDS ExitTick

Both == {"a", "b"}
Of(price, size) == [price |-> price, size |-> size]
BothBought == [p \in Both |-> IF p = "a" THEN <<Of(40, 100)>> ELSE <<Of(50, 20)>>]
BothRewards == [p \in Both |-> IF p = "a" THEN 50 ELSE 10]
Dearer == {Of(55, 100), Of(35, 20)}

Left == {{}, {[id |-> 1, pos |-> "a", price |-> 42, left |-> 100]}}

Quoted(bids, ask) == [bids |-> bids, ask |-> ask]
Healthy == Quoted(<<Of(52, 60), Of(45, 300)>>, 54)
Trapped == Quoted(<<Of(36, 300)>>, 42)
Crashed == Quoted(<<Of(20, 40)>>, 0)
Empty == Quoted(<<>>, 0)
AllBooks == [p \in Both |-> IF p = "a" THEN {Healthy, Trapped, Crashed} ELSE {Trapped, Empty}]

Base == [threshold |-> 4000, target |-> 4000, lowReward |-> 30, smallShares |-> 30,
         stop |-> "percent", percent |-> 20, cents |-> 5, profit |-> "maker",
         router |-> FALSE]
Selling == [Base EXCEPT !.profit = "market", !.stop = "off", !.threshold = 0]
Routed == [Base EXCEPT !.threshold = 0, !.router = TRUE, !.stop = "fixed"]
\* As a wallet comes: it liquidates and routes its exits.
Usual == [Base EXCEPT !.router = TRUE]
AllTemplates == {Base, Selling, Routed, Usual}

=============================================================================
