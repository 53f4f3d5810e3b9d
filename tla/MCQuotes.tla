------------------------------- MODULE MCQuotes -------------------------------
(***************************************************************************)
(* Instances of Quotes for TLC: books a few cents deep, a market of        *)
(* minimum size 2, and templates of both placement modes.                  *)
(***************************************************************************)
EXTENDS Quotes

Prices == {410, 430, 440, 450}

\* Half shares at 450, 440, 430 and 410, the best ask, and the tick.
Quoted(w, x, y, z, ask, fine) ==
    [bid |-> [p \in Prices |-> CASE p = 450 -> w [] p = 440 -> x [] p = 430 -> y [] p = 410 -> z],
     ask |-> ask, fine |-> fine]

Dense == Quoted(2, 8, 8, 8, 460, FALSE)
Gapped == Quoted(8, 0, 0, 8, 460, FALSE)        \* four cents between two bids
Halves == Quoted(5, 7, 4, 2, 470, FALSE)        \* sizes with half shares
Lone == Quoted(0, 0, 8, 0, 470, FALSE)          \* one level, a wide spread, a cliff
NoAsk == Quoted(4, 4, 0, 0, 0, FALSE)
Fine == Quoted(9, 4, 6, 0, 460, TRUE)           \* a 0.1-cent market

AllBooks == {Dense, Gapped, Halves, Lone, NoAsk, Fine}

Paying == [spread |-> 8, rate |-> 5]
Narrow == [spread |-> 5, rate |-> 5]            \* 2.5 cents, which is cut to 2
Poor == [spread |-> 8, rate |-> 1]
AllRewards == {Paying, Narrow, Poor}

Worth == {[upper |-> 430, value |-> 1], [upper |-> 450, value |-> 2]}
Match == [tags |-> {"sports"}, days |-> {3}, age |-> {20}]
Single == [included |-> {"sports"}, other |-> TRUE, protected |-> {"sports"},
           protectOther |-> FALSE, newHours |-> 0, minDays |-> 1, maxDays |-> {9},
           mode |-> "gap_single", low |-> 0, high |-> 100, spread |-> 4, reward |-> 3,
           tier |-> 2, cliff |-> 2, veto |-> 3, wide |-> 2, mid |-> 2, table |-> Worth,
           gate |-> <<8, 8, 0>>, coeff |-> <<2, 4, 6>>, lot |-> 3, usd |-> 3000,
           shares |-> 5, sizing |-> "min", custom |-> 0, wall |-> 0, cumulative |-> 0]
\* No veto, the lot of the tier left out, and a lower ceiling on prices.
Loose == [Single EXCEPT !.veto = 0, !.cliff = 0, !.lot = 0, !.high = 44]
Wall == [Single EXCEPT !.mode = "legacy_wall", !.veto = 0, !.cliff = 0, !.wall = 2,
                       !.cumulative = 4, !.sizing = "balance"]
Custom == [Wall EXCEPT !.sizing = "custom", !.custom = 1400, !.cliff = 2]
\* Settings that Step 3 asks about and rounds do not.
Bounded == [Wall EXCEPT !.low = 44]
Guarded == [Wall EXCEPT !.veto = 1]
\* Templates that leave this market alone: another size tier, or it is too young.
Elsewhere == [Single EXCEPT !.tier = 3]
Patient == [Wall EXCEPT !.newHours = 24, !.maxDays = {}]

AllTemplates == {Single, Loose, Wall, Custom, Bounded, Guarded, Elsewhere, Patient}

=============================================================================
