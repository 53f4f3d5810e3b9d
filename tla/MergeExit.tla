------------------------------ MODULE MergeExit ------------------------------
(***************************************************************************)
(* The fast-exit router of one wallet in one binary market: how it turns   *)
(* filled inventory into cash through a resting maker sell, a protected    *)
(* FAK, or a Merge of equal YES and NO shares (after buying the missing    *)
(* side with a FOK order), and how its merge_events rows survive crashes,  *)
(* late answers and a Data API that lags behind the chain                  *)
(* (engine/exit_router.py, models/database.py: merge_events).              *)
(*                                                                         *)
(* One action is one stretch of the code between two calls to the outside  *)
(* world.  The outside world - the CLOB, the Relayer, the chain and the    *)
(* Data API - is modelled from what the router reads and writes there.     *)
(***************************************************************************)
EXTENDS Integers, FiniteSets

CONSTANTS
    Threads,    \* threads running the router: "tick", and "recovery" when startup_recovery overlaps it
    Env,        \* which disturbances of the outside world may happen
    MaxBal,     \* bound: shares of a side that reward BUY fills may build up
    MaxEvents,  \* bound: merge_events rows
    MaxTx,      \* bound: Relayer transactions
    MinShares,  \* template merge_min_shares
    Tolerance   \* shares by which a rebuilt position may miss the reported one

\* crash: the process may stop anywhere.  lostReply: a request is carried out
\* and its answer lost.  lag: /positions may repeat its last answer.
\* cancelFails: a cancel may raise.  sellFills: resting sells may trade.
\* outsideSell: other code, or the owner, sells shares.  lowCash: costs may have
\* been cached by check_low_balance, which runs before the router in a tick.
\* lateTrades: reading the trades may fail and be retried side by side.  rowUnread:
\* reading the active row may fail.
Disturbances == {"crash", "lostReply", "lag", "cancelFails", "sellFills", "outsideSell",
                 "lowCash", "lateTrades", "rowUnread"}

ASSUME ThreadsAssumption == Threads \subseteq {"tick", "recovery"}
ASSUME EnvAssumption == Env \subseteq Disturbances
ASSUME BoundsAssumption ==
    /\ MaxBal \in Nat /\ MaxEvents \in Nat /\ MaxTx \in Nat
    /\ MinShares \in Nat \ {0} /\ Tolerance \in Nat

Sides == {"yes", "no"}
Other(s) == IF s = "yes" THEN "no" ELSE "yes"

Events == 1..MaxEvents      \* merge_events.id, AUTOINCREMENT
Txs == 1..MaxTx             \* Relayer transaction ids
Active == {"READY", "SUBMITTED"}
Terminal == {"CONFIRMED", "FAILED"}
Statuses == Active \cup Terminal \cup {"NONE"}
Routes == {"PAIR", "FOK_MERGE"}
FokStates == {"none", "delayed", "matched", "dead"}
Places == {"idle", "orders", "trades", "events", "row", "submit", "txReply", "route",
           "fok", "fokReply", "upstream", "done"}

EventRow == [status : Statuses, route : Routes, side : Sides, amount : Nat,
             order : BOOLEAN, tx : Txs \cup {0}]
NoRow == [status |-> "NONE", route |-> "PAIR", side |-> "yes", amount |-> 0,
          order |-> FALSE, tx |-> 0]
TxRow == [ev : Events \cup {0}, state : {"none", "pending", "done", "failed"}]
Local == [at : Places, ev : Events \cup {0}, row : EventRow, tx : Txs \cup {0},
          ord : SUBSET Sides, todo : SUBSET Sides]
NoneCounted == [s \in Sides |-> 0]
Idle == [at |-> "idle", ev |-> 0, row |-> NoRow, tx |-> 0, ord |-> {}, todo |-> {}]

VARIABLES
    events,     \* the merge_events table
    bal,        \* shares on chain, by side
    gap,        \* shares burnt on chain less shares booked as CONFIRMED
    sells,      \* size of the resting SELL on the CLOB, by side (0: none)
    fok,        \* the CLOB's state of the FOK order each event sent
    txs,        \* the Relayer's transactions
    positions,  \* router._positions, the last answer of the Data API
    openSells,  \* sides with a SELL in router._open_orders
    managed,    \* sides in router._managed_sells
    counted,    \* shares of each side that trades and CONFIRMED merges account for, by
                \* the tick's caches
    loc         \* each thread's place in the code and its local variables

db == <<events>>
world == <<bal, gap, sells, fok, txs>>
router == <<positions, openSells, managed, counted>>
vars == <<events, bal, gap, sells, fok, txs, positions, openSells, managed, counted, loc>>

Init ==
    /\ events = [e \in Events |-> NoRow]
    /\ bal = [s \in Sides |-> 0]
    /\ gap = 0
    /\ sells = [s \in Sides |-> 0]
    /\ fok = [e \in Events |-> "none"]
    /\ txs = [x \in Txs |-> [ev |-> 0, state |-> "none"]]
    /\ positions = [s \in Sides |-> 0]
    /\ openSells = {}
    /\ managed = {}
    /\ counted = NoneCounted
    /\ loc = [t \in Threads |-> Idle]

-----------------------------------------------------------------------------
\* Operators

SmallerOf(a, b) == IF a <= b THEN a ELSE b

\* merge_accounting.pair_amount over a snapshot
PairAmount(p) == SmallerOf(p["yes"], p["no"])

ActiveEvents == {e \in Events : events[e].status \in Active}

\* The partial unique index: no other active row for this wallet and market.
IndexAllows(e) == ActiveEvents \subseteq {e}

\* _pair_balance_ok: the router's snapshot holds the pair the row reserved.
PairBalanceOk(row) == PairAmount(positions) >= row.amount

\* What get_user_positions may answer: the balances, or its last answer again.
DataApi == {bal} \cup (IF "lag" \in Env THEN {positions} ELSE {})

\* The next AUTOINCREMENT id and the next Relayer transaction id.
IsNewEvent(e) ==
    /\ events[e].status = "NONE"
    /\ \A d \in Events : d < e => events[d].status # "NONE"
IsNewTx(x) ==
    /\ txs[x].state = "none"
    /\ \A y \in Txs : y < x => txs[y].state # "none"

\* Variant: the sells are never cancelled.
KeepSells(S) == {sells}

\* _cancel_sells for the sides S: the CLOB's sells afterwards.  Only orders in
\* the snapshot are cancelled, and a cancel that raises is only logged.
AfterCancel(S) ==
    {[s \in Sides |-> IF s \in S \cap openSells THEN 0 ELSE sells[s]]}
        \cup (IF "cancelFails" \in Env THEN {sells} ELSE {})

\* The snapshot forgets the orders in either case.
ForgetSells(S) ==
    /\ openSells' = openSells \ S
    /\ managed' = managed \ (S \cap openSells)

CancelSells(S) == sells' \in AfterCancel(S) /\ ForgetSells(S)

\* Thread t goes to place p of the code, in the middle of a call on event e.
GoTo(t, p, e) == loc' = [loc EXCEPT ![t].at = p, ![t].ev = e, ![t].row = NoRow]

\* Thread t is back in the loop over positions.
Resume(t) ==
    loc' = [loc EXCEPT ![t] = [Idle EXCEPT !.at = "route", !.todo = loc[t].todo]]

\* The same, with side s of the loop over positions begun.
Begin(t, s, p, e) ==
    loc' = [loc EXCEPT ![t].at = p, ![t].ev = e, ![t].todo = loc[t].todo \ {s}]

\* _fail_event re-reads the row and overwrites any status but FAILED.
FailEvent(e) == events' = [events EXCEPT ![e].status = "FAILED"]

\* _finalize_confirmed re-reads the row and overwrites any status but CONFIRMED.
\* A cost rebuilt after it counts the merge in.
FinalizeConfirmed(e) ==
    LET q == IF events[e].status = "CONFIRMED" THEN 0 ELSE events[e].amount IN
    /\ events' = [events EXCEPT ![e].status = "CONFIRMED"]
    /\ gap' = gap - q
    /\ counted' = [s \in Sides |-> counted[s] - q]

\* Variant: a cost is taken whether or not it can be rebuilt.
CostAssumed(s) == TRUE

\* position_cost_with_lots: the cost of side s is known when the rebuilt
\* position matches the reported one, or was known earlier in the tick.
CostKnown(s) ==
    \/ "lowCash" \in Env
    \/ /\ counted[s] > 0
       /\ counted[s] - positions[s] \in -Tolerance..Tolerance

-----------------------------------------------------------------------------
\* The outside world

\* A reward BUY of side s trades.
BuyFill(s) ==
    /\ bal[s] < MaxBal
    /\ bal' = [bal EXCEPT ![s] = @ + 1]
    /\ UNCHANGED <<gap, sells, fok, txs, router, db, loc>>

\* A resting SELL trades k shares.
SellFill(s) ==
    /\ "sellFills" \in Env
    /\ \E k \in 1..SmallerOf(sells[s], bal[s]) :
        /\ bal' = [bal EXCEPT ![s] = @ - k]
        /\ sells' = [sells EXCEPT ![s] = @ - k]
    /\ UNCHANGED <<gap, fok, txs, router, db, loc>>

\* Low-balance liquidation, a resolution dump or the owner sells one share.
OutsideSell(s) ==
    /\ "outsideSell" \in Env
    /\ bal[s] > 0
    /\ bal' = [bal EXCEPT ![s] = @ - 1]
    /\ UNCHANGED <<gap, sells, fok, txs, router, db, loc>>

\* A delayed FOK order trades in full, or dies.
FokResolve(e) ==
    /\ fok[e] = "delayed"
    /\ \/ /\ fok' = [fok EXCEPT ![e] = "matched"]
          /\ bal' = [bal EXCEPT ![Other(events[e].side)] = @ + events[e].amount]
       \/ /\ fok' = [fok EXCEPT ![e] = "dead"]
          /\ bal' = bal
    /\ UNCHANGED <<gap, sells, txs, router, db, loc>>

\* A Merge transaction is mined: it burns the pair.
TxMine(x) ==
    LET q == events[txs[x].ev].amount IN
    /\ txs[x].state = "pending"
    /\ PairAmount(bal) >= q
    /\ bal' = [s \in Sides |-> bal[s] - q]
    /\ gap' = gap + q
    /\ txs' = [txs EXCEPT ![x].state = "done"]
    /\ UNCHANGED <<sells, fok, router, db, loc>>

\* A Merge transaction reverts, for lack of shares or for another reason.
TxFail(x) ==
    /\ txs[x].state = "pending"
    /\ txs' = [txs EXCEPT ![x].state = "failed"]
    /\ UNCHANGED <<bal, gap, sells, fok, router, db, loc>>

\* The process stops and starts again: the table and the outside world stay.
Crash ==
    /\ "crash" \in Env
    /\ loc' = [t \in Threads |-> Idle]
    /\ openSells' = {}
    /\ managed' = {}
    /\ counted' = NoneCounted
    /\ UNCHANGED <<world, positions, db>>

Environment ==
    \/ \E s \in Sides : BuyFill(s) \/ SellFill(s) \/ OutsideSell(s)
    \/ \E e \in Events : FokResolve(e)
    \/ \E x \in Txs : TxMine(x) \/ TxFail(x)
    \/ Crash

-----------------------------------------------------------------------------
\* The start of a tick, and reconcile_pending

\* get_open_orders
ListOrders(t) ==
    /\ loc[t].at = "idle"
    /\ loc' = [loc EXCEPT ![t].at = "orders", ![t].ord = {s \in Sides : sells[s] > 0}]
    /\ UNCHANGED <<world, router, db>>

\* get_user_positions, then reconcile_pending up to _reconcile_managed_sells;
\* the tick reads the trades in between.
Reconcile(t) ==
    /\ loc[t].at = "orders"
    /\ \E answer \in DataApi :
        /\ positions' = answer
        /\ loc' = [loc EXCEPT ![t].at = IF t = "tick" THEN "trades" ELSE "events",
                     ![t].ord = {},
                     ![t].todo = {s \in Sides : t = "tick" /\ answer[s] > 0}]
    /\ openSells' = loc[t].ord
    /\ managed' = managed \cap loc[t].ord
    /\ UNCHANGED <<world, counted, db>>

\* _exit_prefetch: the trades, as they are by now.
ReadTrades(t) ==
    /\ loc[t].at = "trades"
    /\ loc' = [loc EXCEPT ![t].at = "events"]
    /\ counted' = [s \in Sides |-> bal[s] + gap]
    /\ UNCHANGED <<world, positions, openSells, managed, db>>

\* _reconcile_events reads the active rows: one at most, by the index.
ReadRow(t) ==
    /\ loc[t].at = "events"
    /\ \E e \in ActiveEvents :
        loc' = [loc EXCEPT ![t].at = "row", ![t].ev = e, ![t].row = events[e]]
    /\ UNCHANGED <<world, router, db>>

NoActiveRow(t) ==
    /\ loc[t].at = "events"
    /\ ActiveEvents = {}
    /\ Resume(t)
    /\ UNCHANGED <<world, router, db>>

\* The head of _submit_merge: free the shares of both sides.
BeginSubmit(t) ==
    /\ CancelSells(Sides)
    /\ GoTo(t, "submit", loc[t].ev)
    /\ UNCHANGED <<bal, gap, fok, txs, positions, counted, db>>

\* _fail_event on the row at hand, which ends its reconciliation.
FailRow(t) ==
    /\ FailEvent(loc[t].ev)
    /\ Resume(t)
    /\ UNCHANGED <<world, router>>

\* READY, and nothing was sent as far as the row knows: submit the Merge if the
\* pair is there, else drop the reservation.
RetryReady(t) ==
    LET row == loc[t].row IN
    /\ loc[t].at = "row"
    /\ row.status = "READY"
    /\ row.route = "PAIR" \/ ~row.order
    /\ IF PairBalanceOk(row) THEN BeginSubmit(t) ELSE FailRow(t)

\* Variant: an order that is not filled yet counts as dead.
QueryFokImpatient(t) ==
    /\ loc[t].at = "row"
    /\ loc[t].row.status = "READY" /\ loc[t].row.route = "FOK_MERGE" /\ loc[t].row.order
    /\ IF fok[loc[t].ev] = "matched" THEN BeginSubmit(t) ELSE FailRow(t)

\* _reconcile_fok_order asks the CLOB for the order.
QueryFok(t) ==
    LET row == loc[t].row
        o == fok[loc[t].ev] IN
    /\ loc[t].at = "row"
    /\ row.status = "READY" /\ row.route = "FOK_MERGE" /\ row.order
    /\ \/ o = "matched" /\ BeginSubmit(t)
       \/ o = "dead" /\ PairBalanceOk(row) /\ BeginSubmit(t)
       \/ o = "dead" /\ ~PairBalanceOk(row) /\ FailRow(t)
       \/ o = "delayed" /\ Resume(t) /\ UNCHANGED <<world, router, db>>

\* Variant: after a failed transaction the row waits for the next poll.
PollMergeWaits(t) ==
    /\ loc[t].at = "row"
    /\ loc[t].row.status = "SUBMITTED"
    /\ IF txs[loc[t].row.tx].state = "done"
       THEN FinalizeConfirmed(loc[t].ev) /\ Resume(t)
            /\ UNCHANGED <<bal, sells, fok, txs, positions, openSells, managed>>
       ELSE Resume(t) /\ UNCHANGED <<world, router, db>>

\* Variant: a row whose pair is gone is dropped before the Relayer is asked.
PollMergeDrops(t) ==
    /\ loc[t].at = "row"
    /\ loc[t].row.status = "SUBMITTED"
    /\ IF PairBalanceOk(loc[t].row)
       THEN Resume(t) /\ UNCHANGED <<world, router, db>>
       ELSE FailRow(t)

\* Variant: a failed transaction puts the row back to READY.
PollMergeReopens(t) ==
    /\ loc[t].at = "row"
    /\ loc[t].row.status = "SUBMITTED"
    /\ txs[loc[t].row.tx].state = "failed"
    /\ events' = [events EXCEPT ![loc[t].ev].status = "READY"]
    /\ Resume(t)
    /\ UNCHANGED <<world, router>>

\* _poll_merge asks the Relayer for the transaction.
PollMerge(t) ==
    LET row == loc[t].row
        st == txs[row.tx].state
        Finalize == FinalizeConfirmed(loc[t].ev) /\ Resume(t)
                    /\ UNCHANGED <<bal, sells, fok, txs, positions, openSells, managed>> IN
    /\ loc[t].at = "row"
    /\ row.status = "SUBMITTED"
    /\ \/ st = "done" /\ Finalize
       \/ st = "failed" /\ PairBalanceOk(row) /\ FailRow(t)
       \/ st = "failed" /\ ~PairBalanceOk(row) /\ Finalize
       \/ st = "pending" /\ Resume(t) /\ UNCHANGED <<world, router, db>>

\* The transaction is pending for longer than merge_confirm_timeout_sec, and the
\* snapshot no longer holds the pair.
PollTimeout(t) ==
    LET row == loc[t].row IN
    /\ loc[t].at = "row"
    /\ row.status = "SUBMITTED"
    /\ txs[row.tx].state = "pending"
    /\ ~PairBalanceOk(row)
    /\ FinalizeConfirmed(loc[t].ev)
    /\ Resume(t)
    /\ UNCHANGED <<bal, sells, fok, txs, positions, openSells, managed>>

\* _poll_after has not passed yet, or the query raised.
SkipRow(t) ==
    LET row == loc[t].row IN
    /\ loc[t].at = "row"
    /\ row.status = "SUBMITTED" \/ (row.route = "FOK_MERGE" /\ row.order)
    /\ Resume(t)
    /\ UNCHANGED <<world, router, db>>

-----------------------------------------------------------------------------
\* _submit_merge, from the Relayer call on

\* The Relayer takes the transaction and its answer arrives.
SubmitAccepted(t) ==
    /\ loc[t].at = "submit"
    /\ \E x \in Txs :
        /\ IsNewTx(x)
        /\ txs' = [txs EXCEPT ![x] = [ev |-> loc[t].ev, state |-> "pending"]]
        /\ loc' = [loc EXCEPT ![t].at = "txReply", ![t].tx = x]
    /\ UNCHANGED <<bal, gap, sells, fok, router, db>>

\* merge_positions raised, and the Relayer did not take the transaction ...
SubmitRaised(t) ==
    /\ loc[t].at = "submit"
    /\ Resume(t)
    /\ UNCHANGED <<world, router, db>>

\* ... or it did, and the answer was lost.
SubmitLost(t) ==
    /\ "lostReply" \in Env
    /\ loc[t].at = "submit"
    /\ \E x \in Txs :
        /\ IsNewTx(x)
        /\ txs' = [txs EXCEPT ![x] = [ev |-> loc[t].ev, state |-> "pending"]]
    /\ Resume(t)
    /\ UNCHANGED <<bal, gap, sells, fok, router, db>>

\* An answer without a transaction id.
SubmitNoId(t) ==
    /\ loc[t].at = "submit"
    /\ FailRow(t)

\* Variant: the transaction id is stored and the status forgotten.
RecordTxOnly(t) ==
    /\ loc[t].at = "txReply"
    /\ events' = [events EXCEPT ![loc[t].ev].tx = loc[t].tx]
    /\ Resume(t)
    /\ UNCHANGED <<world, router>>

\* Variant: the status is stored and the transaction id forgotten.
RecordStatusOnly(t) ==
    /\ loc[t].at = "txReply"
    /\ events' = [events EXCEPT ![loc[t].ev].status = "SUBMITTED"]
    /\ Resume(t)
    /\ UNCHANGED <<world, router>>

\* The row becomes SUBMITTED, whatever it is by now, unless the index raises.
RecordTx(t) ==
    LET e == loc[t].ev IN
    /\ loc[t].at = "txReply"
    /\ events' = IF IndexAllows(e)
                 THEN [events EXCEPT ![e].status = "SUBMITTED", ![e].tx = loc[t].tx]
                 ELSE events
    /\ Resume(t)
    /\ UNCHANGED <<world, router>>

-----------------------------------------------------------------------------
\* route_position, for one side s of the loop over positions

\* The prefetch of the trades failed: _cost_lots reads them only now.  The code
\* does so once a tick; here it is no Step, so that no fairness counts on it.
Recount(t, s) ==
    /\ "lateTrades" \in Env
    /\ loc[t].at = "route"
    /\ s \in loc[t].todo
    /\ counted' = [counted EXCEPT ![s] = bal[s] + gap]
    /\ UNCHANGED <<world, positions, openSells, managed, db, loc>>

\* Side s is next, no active row blocks the market or it cannot be read, and
\* the side's cost is known.
Routable(t, s) ==
    /\ loc[t].at = "route"
    /\ s \in loc[t].todo
    /\ ActiveEvents = {} \/ "rowUnread" \in Env
    /\ CostKnown(s)

\* _pair_merge_route applies: both sides are held, in the minimum amount.
PairReady == PairAmount(positions) >= MinShares

\* An unexpired managed sell rests in the snapshot.
ManagedOpen(s) == s \in managed \cap openSells

\* Variant: the table has no partial unique index.
ReserveBeside(e, route, s, q) ==
    /\ IsNewEvent(e)
    /\ events' = [events EXCEPT ![e] = [NoRow EXCEPT !.status = "READY",
                     !.route = route, !.side = s, !.amount = q]]

\* A row of this route is reserved, READY, in the next id, unless the index
\* raises: then the pair is left alone, and a FOK falls back to the FAK.
Reserve(e, route, s, q) ==
    /\ IsNewEvent(e)
    /\ IndexAllows(e)
    /\ events' = [events EXCEPT ![e] = [NoRow EXCEPT !.status = "READY",
                     !.route = route, !.side = s, !.amount = q]]

\* Nothing is done: an active row, cost unknown, no book, no bid, or the managed
\* sell still has time.
RouteNothing(t, s) ==
    /\ loc[t].at = "route"
    /\ s \in loc[t].todo
    /\ Begin(t, s, "route", 0)
    /\ UNCHANGED <<world, router, db>>

\* A pair is held: reserve it and submit the Merge.
RoutePair(t, s) ==
    /\ Routable(t, s)
    /\ PairReady
    /\ \E e \in Events :
        /\ Reserve(e, "PAIR", s, PairAmount(positions))
        /\ Begin(t, s, "submit", e)
    /\ CancelSells(Sides)
    /\ UNCHANGED <<bal, gap, fok, txs, positions, counted>>

\* _maker_route: rest one post-only sell of the whole position.  The CLOB
\* refuses shares another order has reserved; an answer may be lost.
RouteMaker(t, s) ==
    /\ Routable(t, s)
    /\ ~PairReady
    /\ ~ManagedOpen(s)
    /\ Begin(t, s, "route", 0)
    /\ openSells' = openSells \ {s}
    /\ \E kept \in AfterCancel({s}) :
        \/ /\ kept[s] = 0 /\ bal[s] >= positions[s]
           /\ sells' = [kept EXCEPT ![s] = positions[s]]
           /\ \/ managed' = managed \cup {s}
              \/ "lostReply" \in Env /\ managed' = managed \ {s}
        \/ sells' = kept /\ managed' = managed \ {s}
    /\ UNCHANGED <<bal, gap, fok, txs, positions, counted, db>>

\* Variant: the reported position is taken to be there to sell.
RouteFakBlind(t, s) ==
    /\ Routable(t, s)
    /\ ~PairReady
    /\ CancelSells({s})
    /\ \E k \in 0..positions[s] : bal' = [bal EXCEPT ![s] = @ - k]
    /\ Begin(t, s, "route", 0)
    /\ UNCHANGED <<gap, fok, txs, positions, counted, db>>

\* _protected_fak: cancel the sells, then sell what the book takes.
RouteFak(t, s) ==
    /\ Routable(t, s)
    /\ ~PairReady
    /\ CancelSells({s})
    /\ \E k \in 0..SmallerOf(positions[s], bal[s]) :
        /\ k > 0 => sells'[s] = 0
        /\ bal' = [bal EXCEPT ![s] = @ - k]
    /\ Begin(t, s, "route", 0)
    /\ UNCHANGED <<gap, fok, txs, positions, counted, db>>

\* _start_fok_merge: reserve the row before the FOK is sent.  An expired
\* managed sell is cancelled first; a stop-loss exit leaves it resting.
RouteFok(t, s) ==
    /\ Routable(t, s)
    /\ ~PairReady
    /\ positions[s] >= MinShares
    /\ \E e \in Events :
        /\ Reserve(e, "FOK_MERGE", s, positions[s])
        /\ Begin(t, s, "fok", e)
    /\ \/ ManagedOpen(s) /\ CancelSells({s})
       \/ UNCHANGED <<sells, openSells, managed>>
    /\ UNCHANGED <<bal, gap, fok, txs, positions, counted>>

\* place_fok_buy: the CLOB takes the order, trading it at once or delaying it.
AcceptFok(e) ==
    \/ /\ fok' = [fok EXCEPT ![e] = "matched"]
       /\ bal' = [bal EXCEPT ![Other(events[e].side)] = @ + events[e].amount]
    \/ /\ fok' = [fok EXCEPT ![e] = "delayed"]
       /\ bal' = bal

FokAccepted(t) ==
    /\ loc[t].at = "fok"
    /\ AcceptFok(loc[t].ev)
    /\ GoTo(t, "fokReply", loc[t].ev)
    /\ UNCHANGED <<gap, sells, txs, router, db>>

\* OrderRejected, or a status that is neither matched nor delayed.
FokRejected(t) ==
    /\ loc[t].at = "fok"
    /\ fok' = [fok EXCEPT ![loc[t].ev] = "dead"]
    /\ FailEvent(loc[t].ev)
    /\ Resume(t)
    /\ UNCHANGED <<bal, gap, sells, txs, router>>

\* Another exception makes route_position return False and leaves the row READY;
\* the CLOB may have taken the order all the same.
FokRaised(t) ==
    /\ loc[t].at = "fok"
    /\ \/ UNCHANGED <<fok, bal>>
       \/ "lostReply" \in Env /\ AcceptFok(loc[t].ev)
    /\ GoTo(t, "upstream", loc[t].ev)
    /\ UNCHANGED <<gap, sells, txs, router, db>>

\* Then the monitor's own exit handles the position: it keeps things as they
\* are, rests a sell of the position, or sells at market.
UpstreamExit(t) ==
    LET s == events[loc[t].ev].side IN
    /\ loc[t].at = "upstream"
    /\ \/ UNCHANGED <<sells, bal>>
       \/ /\ s \in openSells \/ sells[s] = 0
          /\ bal[s] >= positions[s]
          /\ sells' = [sells EXCEPT ![s] = positions[s]]
          /\ bal' = bal
       \/ /\ sells' \in AfterCancel({s})
          /\ \E k \in 1..SmallerOf(positions[s], bal[s]) :
                sells'[s] = 0 /\ bal' = [bal EXCEPT ![s] = @ - k]
    /\ managed' = managed \ {s}
    /\ Resume(t)
    /\ UNCHANGED <<gap, fok, txs, positions, openSells, counted, db>>

\* The order id is stored; a matched order is submitted by the next tick.
RecordFok(t) ==
    /\ loc[t].at = "fokReply"
    /\ events' = [events EXCEPT ![loc[t].ev].order = TRUE]
    /\ Resume(t)
    /\ UNCHANGED <<world, router>>

\* The loop over positions is over, and the caches of the tick are dropped;
\* startup_recovery runs once.
EndTick(t) ==
    /\ loc[t].at = "route"
    /\ loc[t].todo = {}
    /\ loc' = [loc EXCEPT ![t] = [Idle EXCEPT !.at = IF t = "tick" THEN "idle" ELSE "done"]]
    /\ counted' = IF t = "tick" THEN NoneCounted ELSE counted
    /\ UNCHANGED <<world, positions, openSells, managed, db>>

Route(t, s) ==
    \/ RouteNothing(t, s) \/ RoutePair(t, s) \/ RouteMaker(t, s)
    \/ RouteFak(t, s) \/ RouteFok(t, s)

Submit(t) ==
    \/ SubmitAccepted(t) \/ SubmitRaised(t) \/ SubmitLost(t) \/ SubmitNoId(t)
    \/ RecordTx(t)

Step(t) ==
    \/ ListOrders(t) \/ Reconcile(t) \/ ReadTrades(t) \/ ReadRow(t) \/ NoActiveRow(t)
    \/ RetryReady(t) \/ QueryFok(t) \/ PollMerge(t) \/ PollTimeout(t) \/ SkipRow(t)
    \/ Submit(t)
    \/ \E s \in Sides : Route(t, s)
    \/ FokAccepted(t) \/ FokRejected(t) \/ FokRaised(t) \/ RecordFok(t)
    \/ UpstreamExit(t)
    \/ EndTick(t)

Next ==
    \/ \E t \in Threads : Step(t) \/ \E s \in Sides : Recount(t, s)
    \/ Environment

Spec == Init /\ [][Next]_vars

\* Ticks go on for ever; a poll is not skipped for ever, the Relayer does not
\* refuse every submission, and what was submitted or delayed is decided.
Fairness ==
    /\ \A t \in Threads : WF_vars(Step(t))
    /\ \A t \in Threads : SF_vars(PollMerge(t)) /\ SF_vars(QueryFok(t))
                           /\ SF_vars(SubmitAccepted(t))
    /\ \A x \in Txs : WF_vars(TxMine(x) \/ TxFail(x))
    /\ \A e \in Events : WF_vars(FokResolve(e))

FairSpec == Spec /\ Fairness

-----------------------------------------------------------------------------
\* Properties

\* Every variable has its type.
TypeOK ==
    /\ events \in [Events -> EventRow]
    /\ bal \in [Sides -> Nat]
    /\ gap \in Int
    /\ sells \in [Sides -> Nat]
    /\ fok \in [Events -> FokStates]
    /\ txs \in [Txs -> TxRow]
    /\ positions \in [Sides -> Nat]
    /\ openSells \in SUBSET Sides
    /\ managed \in SUBSET Sides
    /\ counted \in [Sides -> Int]
    /\ loc \in [Threads -> Local]

\* create_merge_event: a wallet never has two operations in progress in a
\* market, in every order of inserts, status updates and crashes.
OneActive == \A d, e \in ActiveEvents : d = e

\* The statuses a row may take next.
NextStatus ==
    [NONE |-> {"NONE", "READY"}, READY |-> {"READY", "SUBMITTED", "FAILED"},
     SUBMITTED |-> {"SUBMITTED", "CONFIRMED", "FAILED"},
     CONFIRMED |-> {"CONFIRMED"}, FAILED |-> {"FAILED"}]

\* A row is settled once: it passes from READY over SUBMITTED to CONFIRMED or
\* FAILED and never comes back, although every update_merge_event writes
\* unconditionally; and what was reserved is never rewritten.
SettledOnce ==
    [][\A e \in Events :
        /\ events'[e].status \in NextStatus[events[e].status]
        /\ events[e].status # "NONE" =>
            /\ events'[e].amount = events[e].amount
            /\ events'[e].route = events[e].route
            /\ events'[e].side = events[e].side]_vars

\* A row is SUBMITTED or CONFIRMED only with a transaction the Relayer took for
\* that very row.
SubmittedHasTx ==
    \A e \in Events :
        events[e].status \in {"SUBMITTED", "CONFIRMED"} =>
            /\ events[e].tx # 0
            /\ txs[events[e].tx].ev = e

\* _submit_merge: a Merge is never submitted twice for one reservation.
SubmittedOnce ==
    \A x, y \in Txs : txs[x].ev = txs[y].ev /\ txs[x].ev # 0 => x = y

\* No second FOK is sent while the first one is still undecided.
OneLiveFok ==
    \A d, e \in Events : fok[d] = "delayed" /\ fok[e] = "delayed" => d = e

\* A CONFIRMED row, which is booked as profit, was mined on chain.
ConfirmedWasMined ==
    \A e \in Events : events[e].status = "CONFIRMED" => txs[events[e].tx].state = "done"

\* While a Merge is under way no resting sell holds shares of the pair.
SharesFree ==
    (\E e \in Events : events[e].status = "SUBMITTED") => \A s \in Sides : sells[s] = 0

\* An operation in progress blocks the market's exits, so it must end.
ReservationEnds ==
    \A e \in Events : events[e].status \in Active ~> events[e].status \in Terminal

\* What MergeLedger sees of a row.
Burnt(e) == \E x \in Txs : txs[x].ev = e /\ txs[x].state = "done"

StageOf(e) ==
    LET st == events[e].status IN
    CASE st = "NONE" -> "unused"
      [] st \in Active /\ ~Burnt(e) -> "reserved"
      [] st \in Active /\ Burnt(e) -> "burnt"
      [] st = "CONFIRMED" /\ Burnt(e) -> "booked"
      [] st = "CONFIRMED" /\ ~Burnt(e) -> "presumed"
      [] st = "FAILED" /\ ~Burnt(e) -> "void"
      [] OTHER -> "wrong"

Stage == [e \in Events |-> StageOf(e)]

Ledger == INSTANCE MergeLedger WITH stage <- Stage, presumable <- Events

\* The router implements the ledger: what was burnt on chain is booked, once,
\* and never dropped; what was dropped was never burnt.
ImplementsLedger == Ledger!Spec

=============================================================================
