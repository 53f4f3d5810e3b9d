----------------------------- MODULE MCBuyOrders -----------------------------
(***************************************************************************)
(* Instances of BuyOrders for TLC: one or two markets, one or two tokens,  *)
(* and the disturbances each run lets happen.                              *)
(***************************************************************************)
EXTENDS BuyOrders
CONSTANTS m1, m2, p1

BothMarkets == {m1, m2}

\* Tokens: one side of one market, both sides of it, one side of each market.
One == {<<m1, "a">>}
Both == {<<m1, "a">>, <<m1, "b">>}
Singles == {<<m1, "a">>, <<m2, "a">>}

\* Every cancel tells the truth and every order is answered, while the world moves.
Calm == {"fill", "move", "books", "exit", "uma"}

\* Calls fail after they took effect, or do not take effect.
Lost == {"take", "raise", "blacklist", "lostReply", "exit"}

\* Nothing but prices move.
Drift == {"move"}

=============================================================================
