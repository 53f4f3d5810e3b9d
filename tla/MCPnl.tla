-------------------------------- MODULE MCPnl --------------------------------
(***************************************************************************)
(* A small instance of Pnl for TLC.                                        *)
(***************************************************************************)
EXTENDS Pnl

CONSTANTS yes, no

TwoTokens == {yes, no}

Buy(price, size) == [side |-> "BUY", price |-> price, size |-> size, fee |-> 0]
Sell(price, size) == [side |-> "SELL", price |-> price, size |-> size, fee |-> 1]

\* Two lots to sell from, one and a half, and a pair to merge.
Past(ofYes, ofNo) == [t \in TwoTokens |-> IF t = yes THEN ofYes ELSE ofNo]
SomePasts ==
    {Past(<<Buy(4, 1), Buy(6, 2)>>, <<>>),
     Past(<<Buy(4, 2), Sell(5, 1), Buy(6, 1)>>, <<>>),
     Past(<<Buy(4, 1)>>, <<Buy(5, 1)>>)}

\* The prices of the sales lie between those of the buys.
SomeFills == {Buy(3, 1), Sell(5, 1), Sell(4, 2)}
SomeGrants == {[type |-> "REWARD", amount |-> 1]}
SomeGains == {3}

=============================================================================
