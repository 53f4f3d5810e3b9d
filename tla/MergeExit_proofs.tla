--------------------------- MODULE MergeExit_proofs ---------------------------
(***************************************************************************)
(* Proofs about MergeExit for every number of shares, rows, transactions   *)
(* and threads, and every set of disturbances.                             *)
(***************************************************************************)
EXTENDS MergeExit, TLAPS

\* A thread is in the middle of a call on a row.
Busy == {"row", "submit", "txReply", "fok", "fokReply", "upstream"}

\* A busy thread's row exists; a row read as SUBMITTED has its transaction; a
\* transaction id just received is that of the row.
ThreadOK(t) ==
    /\ loc[t].at \in Busy =>
        loc[t].ev \in Events /\ events[loc[t].ev].status # "NONE"
    /\ loc[t].at = "row" /\ loc[t].row.status = "SUBMITTED" =>
        events[loc[t].ev].tx # 0
    /\ loc[t].at = "txReply" =>
        /\ loc[t].tx \in Txs
        /\ txs[loc[t].tx].ev = loc[t].ev
        /\ txs[loc[t].tx].state # "none"

LocOK == \A t \in Threads : ThreadOK(t)

\* A transaction was submitted for some row.
TxsOK == \A x \in Txs : txs[x].state # "none" => txs[x].ev \in Events

\* The transaction a row stores was submitted for it.
RowsOK ==
    \A e \in Events :
        events[e].tx # 0 =>
            txs[events[e].tx].ev = e /\ txs[events[e].tx].state # "none"

IInv == TypeOK /\ LocOK /\ TxsOK /\ RowsOK /\ SubmittedHasTx /\ OneActive

\* A step that changes nothing, or only what is counted of the trades.
Still == UNCHANGED <<events, bal, gap, sells, fok, txs, positions, openSells, managed, loc>>

LEMMA StillSteps ==
    /\ UNCHANGED vars => Still
    /\ \A t \in Threads, s \in Sides : Recount(t, s) => Still
BY DEF vars, Recount, Still, world, db

-----------------------------------------------------------------------------
\* What the helpers return

LEMMA RowTypes == NoRow \in EventRow /\ Idle \in Local
BY DEF NoRow, EventRow, Idle, Local, Places, Statuses, Active, Terminal, Routes,
       Sides, Events, Txs

LEMMA OtherType == ASSUME NEW s \in Sides PROVE Other(s) \in Sides
BY DEF Other, Sides

LEMMA AfterCancelType ==
    ASSUME TypeOK, NEW S, NEW f \in AfterCancel(S)
    PROVE  f \in [Sides -> Nat]
BY DEF AfterCancel, TypeOK

LEMMA InitTypeOK == Init => TypeOK
BY RowTypes DEF Init, TypeOK, TxRow, FokStates, NoneCounted

LEMMA InitIInv == Init => IInv
<1> SUFFICES ASSUME Init PROVE IInv
  OBVIOUS
<1>2. TypeOK
  BY InitTypeOK
<1>3. LocOK
  BY DEF Init, LocOK, ThreadOK, Idle, Busy
<1>4. TxsOK /\ RowsOK /\ SubmittedHasTx /\ OneActive
  BY DEF Init, TxsOK, RowsOK, SubmittedHasTx, OneActive, ActiveEvents, NoRow, Active
<1> QED
  BY <1>2, <1>3, <1>4 DEF IInv

-----------------------------------------------------------------------------
\* Type correctness

LEMMA GoToType ==
    ASSUME TypeOK, NEW t \in Threads, NEW p \in Places, NEW e \in Events \cup {0},
           GoTo(t, p, e)
    PROVE  loc' \in [Threads -> Local]
BY RowTypes DEF GoTo, TypeOK, Local

LEMMA ResumeType ==
    ASSUME TypeOK, NEW t \in Threads, Resume(t)
    PROVE  loc' \in [Threads -> Local]
<1>1. [Idle EXCEPT !.at = "route", !.todo = loc[t].todo] \in Local
  BY RowTypes DEF TypeOK, Local, Places
<1> QED
  BY <1>1 DEF Resume, TypeOK

LEMMA BeginType ==
    ASSUME TypeOK, NEW t \in Threads, NEW s \in Sides, NEW p \in Places,
           NEW e \in Events \cup {0}, Begin(t, s, p, e)
    PROVE  loc' \in [Threads -> Local]
<1>1. [loc[t] EXCEPT !.at = p, !.ev = e, !.todo = loc[t].todo \ {s}] \in Local
  BY DEF TypeOK, Local
<1>2. loc' = [loc EXCEPT ![t] = [loc[t] EXCEPT !.at = p, !.ev = e, !.todo = loc[t].todo \ {s}]]
  BY DEF Begin, TypeOK, Local
<1> QED
  BY <1>1, <1>2 DEF TypeOK

LEMMA EventTypes ==
    ASSUME TypeOK, NEW e \in Events
    PROVE  /\ \A st \in Statuses : [events EXCEPT ![e].status = st] \in [Events -> EventRow]
           /\ \A x \in Txs : [events EXCEPT ![e].status = "SUBMITTED", ![e].tx = x]
                                 \in [Events -> EventRow]
           /\ [events EXCEPT ![e].order = TRUE] \in [Events -> EventRow]
           /\ \A r \in Routes, s \in Sides, q \in Nat :
                [events EXCEPT ![e] = [NoRow EXCEPT !.status = "READY", !.route = r,
                                            !.side = s, !.amount = q]]
                    \in [Events -> EventRow]
<1>1. ASSUME NEW st \in Statuses
      PROVE  [events EXCEPT ![e].status = st] \in [Events -> EventRow]
  BY DEF TypeOK, EventRow
<1>2. ASSUME NEW x \in Txs
      PROVE  [events EXCEPT ![e].status = "SUBMITTED", ![e].tx = x] \in [Events -> EventRow]
  BY DEF TypeOK, EventRow, Statuses, Active
<1>3. [events EXCEPT ![e].order = TRUE] \in [Events -> EventRow]
  BY DEF TypeOK, EventRow
<1>4. ASSUME NEW r \in Routes, NEW s \in Sides, NEW q \in Nat
      PROVE  [events EXCEPT ![e] = [NoRow EXCEPT !.status = "READY", !.route = r,
                                        !.side = s, !.amount = q]] \in [Events -> EventRow]
  BY DEF TypeOK, EventRow, NoRow, Statuses, Active
<1> QED
  BY <1>1, <1>2, <1>3, <1>4

LEMMA Quantities ==
    ASSUME TypeOK
    PROVE  /\ PairAmount(positions) \in Nat
           /\ PairAmount(bal) \in Nat
           /\ \A s \in Sides : PairAmount(bal) <= bal[s]
           /\ \A s \in Sides : positions[s] \in Nat /\ bal[s] \in Nat
           /\ \A e \in Events : events[e].amount \in Nat /\ events[e].side \in Sides
BY DEF TypeOK, PairAmount, SmallerOf, Sides, EventRow

\* The environment keeps every variable's type.
LEMMA EnvironmentType ==
    ASSUME TypeOK, TxsOK, Environment
    PROVE  TypeOK'
<1>1. ASSUME NEW s \in Sides, BuyFill(s) PROVE TypeOK'
  BY <1>1 DEF BuyFill, TypeOK, db, router
<1>2. ASSUME NEW s \in Sides, SellFill(s) PROVE TypeOK'
  BY <1>2 DEF SellFill, TypeOK, db, router, SmallerOf
<1>3. ASSUME NEW s \in Sides, OutsideSell(s) PROVE TypeOK'
  BY <1>3 DEF OutsideSell, TypeOK, db, router
<1>4. ASSUME NEW e \in Events, FokResolve(e) PROVE TypeOK'
  <2>1. Other(events[e].side) \in Sides /\ events[e].amount \in Nat
    BY Quantities, OtherType
  <2> QED
    BY <1>4, <2>1 DEF FokResolve, TypeOK, db, router, FokStates
<1>5. ASSUME NEW x \in Txs, TxMine(x) PROVE TypeOK'
  <2>1. txs[x].ev \in Events
    BY <1>5 DEF TxMine, TxsOK
  <2> DEFINE q == events[txs[x].ev].amount
  <2>2. q \in Nat /\ \A s \in Sides : bal[s] - q \in Nat
    BY <1>5, <2>1, Quantities DEF TxMine
  <2>3. [txs EXCEPT ![x].state = "done"] \in [Txs -> TxRow]
    BY DEF TypeOK, TxRow
  <2> QED
    BY <1>5, <2>2, <2>3 DEF TxMine, TypeOK, db, router
<1>6. ASSUME NEW x \in Txs, TxFail(x) PROVE TypeOK'
  <2>1. [txs EXCEPT ![x].state = "failed"] \in [Txs -> TxRow]
    BY DEF TypeOK, TxRow
  <2> QED
    BY <1>6, <2>1 DEF TxFail, TypeOK, db, router
<1>7. ASSUME Crash PROVE TypeOK'
  BY <1>7, RowTypes DEF Crash, TypeOK, world, db, NoneCounted
<1> QED
  BY <1>1, <1>2, <1>3, <1>4, <1>5, <1>6, <1>7 DEF Environment

\* A thread's step from the start of a tick to the end of the reconciliation
\* keeps every variable's type.
LEMMA FinalizeType ==
    ASSUME TypeOK, NEW e \in Events, FinalizeConfirmed(e)
    PROVE  /\ events' \in [Events -> EventRow]
           /\ gap' \in Int
           /\ counted' \in [Sides -> Int]
<1> DEFINE q == IF events[e].status = "CONFIRMED" THEN 0 ELSE events[e].amount
<1>1. q \in Int
  BY Quantities
<1>2. /\ events' = [events EXCEPT ![e].status = "CONFIRMED"]
      /\ gap' = gap - q
      /\ counted' = [s \in Sides |-> counted[s] - q]
  BY DEF FinalizeConfirmed
<1>3. events' \in [Events -> EventRow]
  BY <1>2, EventTypes DEF Statuses, Terminal
<1> HIDE DEF q
<1>4. gap' \in Int /\ counted' \in [Sides -> Int]
  BY <1>1, <1>2 DEF TypeOK
<1> QED
  BY <1>3, <1>4

LEMMA FailRowType ==
    ASSUME TypeOK, NEW t \in Threads, loc[t].ev \in Events, FailRow(t)
    PROVE  TypeOK'
<1>1. "FAILED" \in Statuses
  BY DEF Statuses, Terminal
<1> QED
  BY <1>1, EventTypes, ResumeType DEF FailRow, FailEvent, TypeOK, world, router

LEMMA BeginSubmitType ==
    ASSUME TypeOK, NEW t \in Threads, loc[t].ev \in Events, BeginSubmit(t)
    PROVE  TypeOK'
<1>1. sells' \in [Sides -> Nat]
  BY AfterCancelType DEF BeginSubmit, CancelSells
<1>2. loc' \in [Threads -> Local]
  BY GoToType DEF BeginSubmit, Places
<1> QED
  BY <1>1, <1>2 DEF BeginSubmit, CancelSells, ForgetSells, TypeOK, db

LEMMA ReconciliationType ==
    ASSUME TypeOK, LocOK, NEW t \in Threads,
           \/ ListOrders(t) \/ Reconcile(t) \/ ReadTrades(t) \/ ReadRow(t) \/ NoActiveRow(t)
           \/ RetryReady(t) \/ QueryFok(t) \/ PollMerge(t) \/ PollTimeout(t) \/ SkipRow(t)
    PROVE  TypeOK'
<1>1. CASE ListOrders(t)
  <2>1. [loc[t] EXCEPT !.at = "orders", !.ord = {s \in Sides : sells[s] > 0}] \in Local
    BY DEF TypeOK, Local, Places
  <2>2. loc' = [loc EXCEPT ![t] = [loc[t] EXCEPT !.at = "orders",
                                        !.ord = {s \in Sides : sells[s] > 0}]]
    BY <1>1 DEF ListOrders, TypeOK, Local
  <2> QED
    BY <1>1, <2>1, <2>2 DEF ListOrders, TypeOK, world, router, db
<1>2. CASE Reconcile(t)
  <2>1. PICK answer \in DataApi :
            /\ positions' = answer
            /\ loc' = [loc EXCEPT ![t].at = IF t = "tick" THEN "trades" ELSE "events",
                         ![t].ord = {},
                         ![t].todo = {s \in Sides : t = "tick" /\ answer[s] > 0}]
    BY <1>2 DEF Reconcile
  <2>2. answer \in [Sides -> Nat]
    BY DEF DataApi, TypeOK
  <2> DEFINE sides == {s \in Sides : t = "tick" /\ answer[s] > 0}
             p == IF t = "tick" THEN "trades" ELSE "events"
  <2>3. sides \in SUBSET Sides /\ p \in Places
    BY DEF Places
  <2> HIDE DEF sides, p
  <2>4. [loc[t] EXCEPT !.at = p, !.ord = {}, !.todo = sides] \in Local
    BY <2>3 DEF TypeOK, Local
  <2>5. loc' = [loc EXCEPT ![t] = [loc[t] EXCEPT !.at = p, !.ord = {}, !.todo = sides]]
    BY <2>1 DEF TypeOK, Local, sides, p
  <2>6. loc[t].ord \in SUBSET Sides
    BY DEF TypeOK, Local
  <2>8. loc' \in [Threads -> Local]
    BY <2>4, <2>5 DEF TypeOK
  <2>9. /\ openSells' = loc[t].ord
        /\ managed' = managed \cap loc[t].ord
        /\ UNCHANGED <<world, counted, db>>
    BY <1>2 DEF Reconcile
  <2> QED
    BY <2>1, <2>2, <2>6, <2>8, <2>9 DEF TypeOK, world, db
<1>9. CASE ReadTrades(t)
  <2>1. [loc[t] EXCEPT !.at = "events"] \in Local
    BY DEF TypeOK, Local, Places
  <2>2. loc' = [loc EXCEPT ![t] = [loc[t] EXCEPT !.at = "events"]]
    BY <1>9 DEF ReadTrades, TypeOK, Local
  <2> QED
    BY <1>9, <2>1, <2>2 DEF ReadTrades, TypeOK, world, db
<1>3. CASE ReadRow(t)
  <2>1. PICK e \in ActiveEvents :
            loc' = [loc EXCEPT ![t].at = "row", ![t].ev = e, ![t].row = events[e]]
    BY <1>3 DEF ReadRow
  <2>2. e \in Events /\ events[e] \in EventRow
    BY DEF ActiveEvents, TypeOK
  <2>3. [loc[t] EXCEPT !.at = "row", !.ev = e, !.row = events[e]] \in Local
    BY <2>2 DEF TypeOK, Local, Places
  <2>4. loc' = [loc EXCEPT ![t] = [loc[t] EXCEPT !.at = "row", !.ev = e, !.row = events[e]]]
    BY <2>1 DEF TypeOK, Local
  <2> QED
    BY <1>3, <2>3, <2>4 DEF ReadRow, TypeOK, world, router, db
<1>4. CASE NoActiveRow(t)
  BY <1>4, ResumeType DEF NoActiveRow, TypeOK, world, router, db
<1>5. CASE RetryReady(t)
  <2>1. loc[t].ev \in Events
    BY <1>5 DEF RetryReady, LocOK, ThreadOK, Busy
  <2> QED
    BY <1>5, <2>1, BeginSubmitType, FailRowType DEF RetryReady
<1>6. CASE QueryFok(t)
  <2>1. loc[t].ev \in Events
    BY <1>6 DEF QueryFok, LocOK, ThreadOK, Busy
  <2>2. CASE Resume(t) /\ UNCHANGED <<world, router, db>>
    BY <2>2, ResumeType DEF TypeOK, world, router, db
  <2> QED
    BY <1>6, <2>1, <2>2, BeginSubmitType, FailRowType DEF QueryFok
<1>7. CASE PollMerge(t) \/ PollTimeout(t)
  <2>1. loc[t].ev \in Events
    BY <1>7 DEF PollMerge, PollTimeout, LocOK, ThreadOK, Busy
  <2>2. CASE Resume(t) /\ UNCHANGED <<world, router, db>>
    BY <2>2, ResumeType DEF TypeOK, world, router, db
  <2>3. CASE /\ FinalizeConfirmed(loc[t].ev)
             /\ Resume(t)
             /\ UNCHANGED <<bal, sells, fok, txs, positions, openSells, managed>>
    BY <2>1, <2>3, ResumeType, FinalizeType DEF TypeOK
  <2> QED
    BY <1>7, <2>1, <2>2, <2>3, FailRowType DEF PollMerge, PollTimeout
<1>8. CASE SkipRow(t)
  BY <1>8, ResumeType DEF SkipRow, TypeOK, world, router, db
<1> QED
  BY <1>1, <1>2, <1>3, <1>4, <1>5, <1>6, <1>7, <1>8, <1>9

LEMMA SubmissionType ==
    ASSUME TypeOK, LocOK, NEW t \in Threads, Submit(t)
    PROVE  TypeOK'
<1>1. CASE SubmitAccepted(t)
  <2>1. PICK x \in Txs :
            /\ txs' = [txs EXCEPT ![x] = [ev |-> loc[t].ev, state |-> "pending"]]
            /\ loc' = [loc EXCEPT ![t].at = "txReply", ![t].tx = x]
    BY <1>1 DEF SubmitAccepted
  <2>2. [ev |-> loc[t].ev, state |-> "pending"] \in TxRow
    BY DEF TypeOK, Local, TxRow
  <2>3. [loc[t] EXCEPT !.at = "txReply", !.tx = x] \in Local
    BY DEF TypeOK, Local, Places
  <2>4. loc' = [loc EXCEPT ![t] = [loc[t] EXCEPT !.at = "txReply", !.tx = x]]
    BY <2>1 DEF TypeOK, Local
  <2>5. txs' \in [Txs -> TxRow] /\ loc' \in [Threads -> Local]
    BY <2>1, <2>2, <2>3, <2>4 DEF TypeOK
  <2> QED
    BY <1>1, <2>5 DEF SubmitAccepted, TypeOK, router, db
<1>2. CASE SubmitRaised(t)
  BY <1>2, ResumeType DEF SubmitRaised, TypeOK, world, router, db
<1>3. CASE SubmitLost(t)
  <2>1. PICK x \in Txs :
            txs' = [txs EXCEPT ![x] = [ev |-> loc[t].ev, state |-> "pending"]]
    BY <1>3 DEF SubmitLost
  <2>2. [ev |-> loc[t].ev, state |-> "pending"] \in TxRow
    BY DEF TypeOK, Local, TxRow
  <2>3. txs' \in [Txs -> TxRow]
    BY <2>1, <2>2 DEF TypeOK
  <2> QED
    BY <1>3, <2>3, ResumeType DEF SubmitLost, TypeOK, router, db
<1>4. CASE SubmitNoId(t)
  BY <1>4, FailRowType DEF SubmitNoId, LocOK, ThreadOK, Busy
<1>5. CASE RecordTx(t)
  <2>1. loc[t].ev \in Events /\ loc[t].tx \in Txs
    BY <1>5 DEF RecordTx, LocOK, ThreadOK, Busy
  <2>2. events' \in [Events -> EventRow]
    BY <1>5, <2>1, EventTypes DEF RecordTx, TypeOK
  <2> QED
    BY <1>5, <2>2, ResumeType DEF RecordTx, TypeOK, world, router
<1> QED
  BY <1>1, <1>2, <1>3, <1>4, <1>5 DEF Submit

LEMMA ReserveType ==
    ASSUME TypeOK, NEW e \in Events, NEW r \in Routes, NEW s \in Sides, NEW q \in Nat,
           Reserve(e, r, s, q)
    PROVE  events' \in [Events -> EventRow]
BY EventTypes DEF Reserve

LEMMA RouteType ==
    ASSUME TypeOK, NEW t \in Threads, NEW s \in Sides, Route(t, s)
    PROVE  TypeOK'
<1>1. CASE RouteNothing(t, s)
  BY <1>1, BeginType DEF RouteNothing, TypeOK, world, router, db, Places
<1>2. CASE RoutePair(t, s)
  <2>1. PICK e \in Events : /\ Reserve(e, "PAIR", s, PairAmount(positions))
                            /\ Begin(t, s, "submit", e)
    BY <1>2 DEF RoutePair
  <2>2. events' \in [Events -> EventRow]
    BY <2>1, ReserveType, Quantities DEF Routes
  <2>3. loc' \in [Threads -> Local]
    BY <2>1, BeginType DEF Places
  <2>4. sells' \in [Sides -> Nat] /\ ForgetSells(Sides)
    BY <1>2, AfterCancelType DEF RoutePair, CancelSells
  <2> QED
    BY <1>2, <2>2, <2>3, <2>4 DEF RoutePair, ForgetSells, TypeOK
<1>3. CASE RouteMaker(t, s)
  <2>1. PICK kept \in AfterCancel({s}) :
            \/ sells' = [kept EXCEPT ![s] = positions[s]]
            \/ sells' = kept
    BY <1>3 DEF RouteMaker
  <2>2. sells' \in [Sides -> Nat]
    BY <2>1, AfterCancelType, Quantities
  <2>3. managed' \in SUBSET Sides
    BY <1>3 DEF RouteMaker, TypeOK
  <2>4. loc' \in [Threads -> Local]
    BY <1>3, BeginType DEF RouteMaker, Places
  <2>5. openSells' = openSells \ {s} /\ UNCHANGED <<bal, gap, fok, txs, positions, counted, db>>
    BY <1>3 DEF RouteMaker
  <2> QED
    BY <2>2, <2>3, <2>4, <2>5 DEF TypeOK, db
<1>4. CASE RouteFak(t, s)
  <2>1. sells' \in [Sides -> Nat] /\ ForgetSells({s})
    BY <1>4, AfterCancelType DEF RouteFak, CancelSells
  <2>2. PICK k \in 0..SmallerOf(positions[s], bal[s]) : bal' = [bal EXCEPT ![s] = @ - k]
    BY <1>4 DEF RouteFak
  <2>3. bal' \in [Sides -> Nat]
    BY <2>2, Quantities DEF TypeOK, SmallerOf
  <2>4. loc' \in [Threads -> Local]
    BY <1>4, BeginType DEF RouteFak, Places
  <2> QED
    BY <1>4, <2>1, <2>3, <2>4 DEF RouteFak, ForgetSells, TypeOK, db
<1>5. CASE RouteFok(t, s)
  <2>1. PICK e \in Events : Reserve(e, "FOK_MERGE", s, positions[s]) /\ Begin(t, s, "fok", e)
    BY <1>5 DEF RouteFok
  <2>2. events' \in [Events -> EventRow]
    BY <2>1, ReserveType, Quantities DEF Routes
  <2>3. loc' \in [Threads -> Local]
    BY <2>1, BeginType DEF Places
  <2>4. /\ sells' \in [Sides -> Nat]
        /\ openSells' \in SUBSET Sides
        /\ managed' \in SUBSET Sides
    BY <1>5, AfterCancelType DEF RouteFok, CancelSells, ForgetSells, TypeOK
  <2> QED
    BY <1>5, <2>2, <2>3, <2>4 DEF RouteFok, TypeOK
<1> QED
  BY <1>1, <1>2, <1>3, <1>4, <1>5 DEF Route

LEMMA FokType ==
    ASSUME TypeOK, LocOK, NEW t \in Threads,
           FokAccepted(t) \/ FokRejected(t) \/ FokRaised(t) \/ RecordFok(t)
    PROVE  TypeOK'
<1> DEFINE e == loc[t].ev
<1>1. e \in Events
  BY DEF FokAccepted, FokRejected, FokRaised, RecordFok, LocOK, ThreadOK, Busy
<1>2. ASSUME AcceptFok(e)
      PROVE  fok' \in [Events -> FokStates] /\ bal' \in [Sides -> Nat]
  <2>1. Other(events[e].side) \in Sides /\ events[e].amount \in Nat
    BY <1>1, Quantities, OtherType
  <2> QED
    BY <1>1, <1>2, <2>1 DEF AcceptFok, TypeOK, FokStates
<1>3. CASE FokAccepted(t)
  <2>1. loc' \in [Threads -> Local]
    BY <1>1, <1>3, GoToType DEF FokAccepted, Places
  <2> QED
    BY <1>2, <1>3, <2>1 DEF FokAccepted, TypeOK, router, db
<1>4. CASE FokRejected(t)
  <2>1. events' \in [Events -> EventRow]
    BY <1>1, <1>4, EventTypes DEF FokRejected, FailEvent, Statuses, Terminal
  <2>2. fok' \in [Events -> FokStates]
    BY <1>4 DEF FokRejected, TypeOK, FokStates
  <2> QED
    BY <1>4, <2>1, <2>2, ResumeType DEF FokRejected, TypeOK, router
<1>5. CASE FokRaised(t)
  <2>1. loc' \in [Threads -> Local]
    BY <1>1, <1>5, GoToType DEF FokRaised, Places
  <2> QED
    BY <1>2, <1>5, <2>1 DEF FokRaised, TypeOK, router, db
<1>6. CASE RecordFok(t)
  <2>1. events' \in [Events -> EventRow]
    BY <1>1, <1>6, EventTypes DEF RecordFok
  <2> QED
    BY <1>6, <2>1, ResumeType DEF RecordFok, TypeOK, world, router
<1> QED
  BY <1>3, <1>4, <1>5, <1>6

LEMMA EndType ==
    ASSUME TypeOK, LocOK, NEW t \in Threads, UpstreamExit(t) \/ EndTick(t)
    PROVE  TypeOK'
<1>1. CASE UpstreamExit(t)
  <2> DEFINE s == events[loc[t].ev].side
  <2>1. s \in Sides
    BY <1>1, Quantities DEF UpstreamExit, LocOK, ThreadOK, Busy
  <2> HIDE DEF s
  <2>2. \/ UNCHANGED <<sells, bal>>
        \/ sells' = [sells EXCEPT ![s] = positions[s]] /\ bal' = bal
        \/ /\ sells' \in AfterCancel({s})
           /\ \E k \in 1..SmallerOf(positions[s], bal[s]) : bal' = [bal EXCEPT ![s] = @ - k]
    BY <1>1 DEF UpstreamExit, s
  <2>3. sells' \in [Sides -> Nat] /\ bal' \in [Sides -> Nat]
    <3>1. CASE UNCHANGED <<sells, bal>>
      BY <3>1 DEF TypeOK
    <3>2. CASE sells' = [sells EXCEPT ![s] = positions[s]] /\ bal' = bal
      BY <2>1, <3>2, Quantities DEF TypeOK
    <3>3. CASE /\ sells' \in AfterCancel({s})
               /\ \E k \in 1..SmallerOf(positions[s], bal[s]) :
                    bal' = [bal EXCEPT ![s] = @ - k]
      BY <2>1, <3>3, Quantities, AfterCancelType DEF TypeOK, SmallerOf
    <3> QED
      BY <2>2, <3>1, <3>2, <3>3
  <2>4. managed' = managed \ {s} /\ Resume(t)
        /\ UNCHANGED <<gap, fok, txs, positions, openSells, counted, db>>
    BY <1>1 DEF UpstreamExit, s
  <2> QED
    BY <2>3, <2>4, ResumeType DEF TypeOK, db
<1>2. CASE EndTick(t)
  <2>1. [Idle EXCEPT !.at = IF t = "tick" THEN "idle" ELSE "done"] \in Local
    BY RowTypes DEF Local, Places
  <2> QED
    BY <1>2, <2>1 DEF EndTick, TypeOK, world, db, NoneCounted
<1> QED
  BY <1>1, <1>2

LEMMA TypeStep ==
    ASSUME TypeOK, LocOK, TxsOK, [Next]_vars
    PROVE  TypeOK'
<1>1. CASE Environment
  BY <1>1, EnvironmentType
<1>2. ASSUME NEW t \in Threads, Step(t) PROVE TypeOK'
  BY <1>2, ReconciliationType, SubmissionType, RouteType, FokType, EndType DEF Step
<1>3. CASE UNCHANGED vars
  BY <1>3 DEF vars, TypeOK
<1>4. ASSUME NEW t \in Threads, NEW s \in Sides, Recount(t, s) PROVE TypeOK'
  BY <1>4 DEF Recount, TypeOK, world, db
<1> QED
  BY <1>1, <1>2, <1>3, <1>4 DEF Next

-----------------------------------------------------------------------------
\* What a step may do to the table and to the transactions

Reserved(e) ==
    /\ ActiveEvents = {}
    /\ \E r \in Routes, s \in Sides, q \in Nat : Reserve(e, r, s, q)

\* The index lets a row in where none is active.
LEMMA ReservedAlone ==
    ASSUME TypeOK, NEW e \in Events, NEW r \in Routes, NEW s \in Sides, NEW q \in Nat,
           Reserve(e, r, s, q)
    PROVE  Reserved(e)
BY DEF Reserve, Reserved, IsNewEvent, IndexAllows, ActiveEvents, Active

Failed(e) == events[e].status # "NONE" /\ FailEvent(e)

Confirmed(e) ==
    /\ events[e].status # "NONE" /\ events[e].tx # 0
    /\ events' = [events EXCEPT ![e].status = "CONFIRMED"]

Submitted(e) ==
    /\ events[e].status # "NONE"
    /\ IndexAllows(e)
    /\ \E x \in Txs :
        /\ txs[x].ev = e /\ txs[x].state # "none"
        /\ events' = [events EXCEPT ![e].status = "SUBMITTED", ![e].tx = x]

Ordered(e) ==
    events[e].status # "NONE" /\ events' = [events EXCEPT ![e].order = TRUE]

TableStep ==
    \/ events' = events
    \/ \E e \in Events :
        Reserved(e) \/ Failed(e) \/ Confirmed(e) \/ Submitted(e) \/ Ordered(e)

LEMMA TableChange ==
    ASSUME TypeOK, LocOK, [Next]_vars
    PROVE  TableStep
<1>1. CASE Still
  BY <1>1 DEF Still, TableStep
<1>2. CASE Environment
  BY <1>2 DEF Environment, BuyFill, SellFill, OutsideSell, FokResolve, TxMine, TxFail,
              Crash, db, TableStep
<1>3. ASSUME NEW t \in Threads, Step(t) PROVE TableStep
  <2> DEFINE e == loc[t].ev
  <2>1. CASE \/ ListOrders(t) \/ Reconcile(t) \/ ReadTrades(t) \/ ReadRow(t) \/ NoActiveRow(t)
             \/ SkipRow(t) \/ SubmitAccepted(t) \/ SubmitRaised(t) \/ SubmitLost(t)
             \/ FokAccepted(t) \/ FokRaised(t) \/ UpstreamExit(t) \/ EndTick(t)
    BY <2>1 DEF ListOrders, Reconcile, ReadTrades, ReadRow, NoActiveRow, SkipRow, SubmitAccepted,
                SubmitRaised, SubmitLost, FokAccepted, FokRaised, UpstreamExit, EndTick,
                db, TableStep
  <2>2. CASE RetryReady(t) \/ QueryFok(t) \/ SubmitNoId(t) \/ FokRejected(t)
    <3>1. e \in Events /\ events[e].status # "NONE"
      BY <2>2 DEF RetryReady, QueryFok, SubmitNoId, FokRejected, LocOK, ThreadOK, Busy
    <3>2. FailEvent(e) \/ events' = events
      BY <2>2 DEF RetryReady, QueryFok, SubmitNoId, FokRejected, FailRow, BeginSubmit, db
    <3> QED
      BY <3>1, <3>2 DEF TableStep, Failed
  <2>3. CASE PollMerge(t) \/ PollTimeout(t)
    <3>1. e \in Events /\ events[e].status # "NONE" /\ events[e].tx # 0
      BY <2>3 DEF PollMerge, PollTimeout, LocOK, ThreadOK, Busy
    <3>2. FailEvent(e) \/ events' = events \/ FinalizeConfirmed(e)
      BY <2>3 DEF PollMerge, PollTimeout, FailRow, db
    <3> QED
      BY <3>1, <3>2 DEF TableStep, Failed, Confirmed, FinalizeConfirmed
  <2>4. CASE RecordTx(t)
    <3>1. /\ e \in Events /\ events[e].status # "NONE"
          /\ loc[t].tx \in Txs
          /\ txs[loc[t].tx].ev = e /\ txs[loc[t].tx].state # "none"
      BY <2>4 DEF RecordTx, LocOK, ThreadOK, Busy
    <3>2. \/ events' = events
          \/ /\ IndexAllows(e)
             /\ events' = [events EXCEPT ![e].status = "SUBMITTED", ![e].tx = loc[t].tx]
      BY <2>4 DEF RecordTx
    <3> QED
      BY <3>1, <3>2 DEF TableStep, Submitted
  <2>5. CASE RecordFok(t)
    BY <2>5 DEF RecordFok, LocOK, ThreadOK, Busy, TableStep, Ordered
  <2>6. ASSUME NEW s \in Sides, Route(t, s) PROVE TableStep
    <3>1. CASE RouteNothing(t, s) \/ RouteMaker(t, s) \/ RouteFak(t, s)
      BY <3>1 DEF RouteNothing, RouteMaker, RouteFak, db, TableStep
    <3>2. CASE RoutePair(t, s)
      BY <3>2, ReservedAlone, Quantities DEF RoutePair, TableStep, Routes
    <3>3. CASE RouteFok(t, s)
      BY <3>3, ReservedAlone, Quantities DEF RouteFok, TableStep, Routes
    <3> QED
      BY <2>6, <3>1, <3>2, <3>3 DEF Route
  <2> QED
    BY <1>3, <2>1, <2>2, <2>3, <2>4, <2>5, <2>6 DEF Step, Submit
<1> QED
  BY <1>1, <1>2, <1>3, StillSteps DEF Next

\* A row once reserved stays, and keeps a transaction id once it has one.
LEMMA RowsKept ==
    ASSUME TypeOK, TableStep, NEW e \in Events, events[e].status # "NONE"
    PROVE  /\ events'[e].status # "NONE"
           /\ events[e].tx # 0 => events'[e].tx # 0
<1>1. CASE events' = events
  BY <1>1
<1>2. ASSUME NEW d \in Events, Reserved(d)
      PROVE  events'[e] = events[e]
  BY <1>2 DEF Reserved, Reserve, IsNewEvent, TypeOK
<1>3. ASSUME NEW d \in Events, Failed(d) \/ Confirmed(d) \/ Ordered(d)
      PROVE  events'[e].status # "NONE" /\ events'[e].tx = events[e].tx
  BY <1>3 DEF Failed, FailEvent, Confirmed, Ordered, TypeOK, EventRow
<1>4. ASSUME NEW d \in Events, Submitted(d)
      PROVE  events'[e].status # "NONE" /\ events'[e].tx \in {events[e].tx} \cup Txs
  BY <1>4 DEF Submitted, TypeOK, EventRow
<1>5. 0 \notin Txs
  BY DEF Txs
<1> QED
  BY <1>1, <1>2, <1>3, <1>4, <1>5 DEF TableStep

\* A transaction once submitted stays that of its row.
TxsKept ==
    \A x \in Txs : txs[x].state # "none" =>
        txs'[x].ev = txs[x].ev /\ txs'[x].state # "none"

LEMMA TxChange ==
    ASSUME TypeOK, LocOK, TxsOK, [Next]_vars
    PROVE  TxsKept /\ TxsOK'
<1>1. CASE txs' = txs
  BY <1>1 DEF TxsKept, TxsOK
<1>2. ASSUME NEW x \in Txs, NEW st \in {"done", "failed"}, txs[x].state = "pending",
             txs' = [txs EXCEPT ![x].state = st]
      PROVE  TxsKept /\ TxsOK'
  BY <1>2 DEF TxsKept, TxsOK, TypeOK, TxRow
<1>3. ASSUME NEW x \in Txs, NEW e \in Events, IsNewTx(x),
             txs' = [txs EXCEPT ![x] = [ev |-> e, state |-> "pending"]]
      PROVE  TxsKept /\ TxsOK'
  BY <1>3 DEF TxsKept, TxsOK, TypeOK, TxRow, IsNewTx
<1>4. CASE Still
  BY <1>1, <1>4 DEF Still
<1>5. CASE Environment
  BY <1>1, <1>2, <1>5 DEF Environment, BuyFill, SellFill, OutsideSell, FokResolve, TxMine,
                          TxFail, Crash, world
<1>6. ASSUME NEW t \in Threads, Step(t) PROVE TxsKept /\ TxsOK'
  <2>1. CASE SubmitAccepted(t) \/ SubmitLost(t)
    <3>1. loc[t].ev \in Events
      BY <2>1 DEF SubmitAccepted, SubmitLost, LocOK, ThreadOK, Busy
    <3> QED
      BY <1>3, <2>1, <3>1 DEF SubmitAccepted, SubmitLost
  <2>2. CASE \/ ListOrders(t) \/ Reconcile(t) \/ ReadTrades(t) \/ ReadRow(t) \/ NoActiveRow(t)
             \/ RetryReady(t) \/ QueryFok(t) \/ PollMerge(t) \/ PollTimeout(t) \/ SkipRow(t)
    BY <1>1, <2>2 DEF ListOrders, Reconcile, ReadTrades, ReadRow, NoActiveRow, RetryReady, QueryFok,
                      PollMerge, PollTimeout, SkipRow, BeginSubmit, FailRow, world
  <2>3. CASE \/ SubmitRaised(t) \/ SubmitNoId(t) \/ RecordTx(t)
             \/ FokAccepted(t) \/ FokRejected(t) \/ FokRaised(t) \/ RecordFok(t)
             \/ UpstreamExit(t) \/ EndTick(t)
    BY <1>1, <2>3 DEF SubmitRaised, SubmitNoId, RecordTx, FokAccepted, FokRejected,
                      FokRaised, RecordFok, UpstreamExit, EndTick, FailRow, world
  <2>4. ASSUME NEW s \in Sides, Route(t, s) PROVE TxsKept /\ TxsOK'
    BY <1>1, <2>4 DEF Route, RouteNothing, RoutePair, RouteMaker, RouteFak, RouteFok, world
  <2> QED
    BY <1>6, <2>1, <2>2, <2>3, <2>4 DEF Step, Submit
<1> QED
  BY <1>4, <1>5, <1>6, StillSteps DEF Next

-----------------------------------------------------------------------------
\* The parts of the invariant, preserved

LEMMA ThreadFrame ==
    ASSUME TypeOK, LocOK, TableStep, TxsKept, NEW u \in Threads, loc'[u] = loc[u]
    PROVE  ThreadOK(u)'
<1>1. ThreadOK(u)
  BY DEF LocOK
<1>2. CASE loc[u].at \notin Busy
  BY <1>2 DEF ThreadOK, Busy
<1>3. CASE loc[u].at \in Busy
  <2>1. /\ loc[u].ev \in Events
        /\ events'[loc[u].ev].status # "NONE"
        /\ events[loc[u].ev].tx # 0 => events'[loc[u].ev].tx # 0
    BY <1>1, <1>3, RowsKept DEF ThreadOK
  <2>2. loc[u].at = "txReply" =>
            /\ loc[u].tx \in Txs
            /\ txs'[loc[u].tx].ev = loc[u].ev
            /\ txs'[loc[u].tx].state # "none"
    BY <1>1 DEF ThreadOK, TxsKept
  <2> QED
    BY <1>1, <2>1, <2>2 DEF ThreadOK
<1> QED
  BY <1>2, <1>3

LEMMA NotBusy ==
    ASSUME NEW u \in Threads, loc'[u].at \notin Busy
    PROVE  ThreadOK(u)'
BY DEF ThreadOK, Busy

\* The acting thread goes on in the middle of its call, or leaves it.
LEMMA LocStep ==
    ASSUME TypeOK, LocOK, SubmittedHasTx, TableStep, TxsKept, [Next]_vars
    PROVE  LocOK'
<1>1. CASE UNCHANGED loc
  BY <1>1, ThreadFrame DEF LocOK
<1>2. CASE Crash
  BY <1>2, NotBusy DEF Crash, LocOK, Idle, Busy
<1>3. ASSUME NEW t \in Threads, Step(t) PROVE LocOK'
  <2>1. ASSUME NEW u \in Threads, u # t PROVE loc'[u] = loc[u]
    BY <1>3, <2>1 DEF Step, ListOrders, Reconcile, ReadTrades, ReadRow, NoActiveRow, RetryReady, QueryFok,
          PollMerge, PollTimeout, SkipRow, Submit, SubmitAccepted, SubmitRaised, SubmitLost,
          SubmitNoId, RecordTx, Route, RouteNothing, RoutePair, RouteMaker, RouteFak,
          RouteFok, FokAccepted, FokRejected, FokRaised, UpstreamExit, RecordFok, EndTick,
          BeginSubmit, FailRow, GoTo, Resume, Begin, TypeOK
  <2>2. ThreadOK(t)'
    <3> DEFINE e == loc[t].ev
    <3>1. ASSUME Resume(t) PROVE ThreadOK(t)'
      BY <3>1, NotBusy DEF Resume, TypeOK, Idle, Busy, Local
    <3>2. ASSUME NEW p \in {"submit", "fokReply", "upstream"}, GoTo(t, p, e), e \in Events,
                 loc[t].at \in Busy
          PROVE  ThreadOK(t)'
      <4>1. loc'[t].at = p /\ loc'[t].ev = e
        BY <3>2 DEF GoTo, TypeOK, Local
      <4>2. events'[e].status # "NONE"
        BY <3>2, RowsKept DEF LocOK, ThreadOK
      <4> QED
        BY <3>2, <4>1, <4>2 DEF ThreadOK
    <3>3. ASSUME NEW s \in Sides, NEW d \in Events, NEW p \in {"submit", "fok"},
                 Begin(t, s, p, d), events'[d].status = "READY"
          PROVE  ThreadOK(t)'
      <4>1. loc'[t].at = p /\ loc'[t].ev = d
        BY <3>3 DEF Begin, TypeOK, Local
      <4> QED
        BY <3>3, <4>1 DEF ThreadOK
    <3>4. ASSUME NEW s \in Sides, Begin(t, s, "route", 0) PROVE ThreadOK(t)'
      BY <3>4, NotBusy DEF Begin, TypeOK, Local, Busy
    <3>5. CASE ListOrders(t) \/ Reconcile(t) \/ ReadTrades(t) \/ EndTick(t)
      BY <3>5, NotBusy DEF ListOrders, Reconcile, ReadTrades, EndTick, TypeOK, Local, Idle, Busy
    <3>6. CASE ReadRow(t)
      <4>1. PICK d \in ActiveEvents :
                loc' = [loc EXCEPT ![t].at = "row", ![t].ev = d, ![t].row = events[d]]
        BY <3>6 DEF ReadRow
      <4>2. loc'[t].at = "row" /\ loc'[t].ev = d /\ loc'[t].row = events[d]
        BY <4>1 DEF TypeOK, Local
      <4>3. d \in Events /\ events[d].status # "NONE" /\ events' = events
        BY <3>6 DEF ReadRow, ActiveEvents, Active, db
      <4>4. events[d].status = "SUBMITTED" => events[d].tx # 0
        BY <4>3 DEF SubmittedHasTx
      <4> QED
        BY <4>2, <4>3, <4>4 DEF ThreadOK
    <3>7. CASE SubmitAccepted(t)
      <4>1. PICK x \in Txs :
                /\ txs' = [txs EXCEPT ![x] = [ev |-> e, state |-> "pending"]]
                /\ loc' = [loc EXCEPT ![t].at = "txReply", ![t].tx = x]
        BY <3>7 DEF SubmitAccepted
      <4>2. loc'[t].at = "txReply" /\ loc'[t].ev = e /\ loc'[t].tx = x
        BY <4>1 DEF TypeOK, Local
      <4>3. txs'[x].ev = e /\ txs'[x].state # "none"
        BY <4>1 DEF TypeOK
      <4>4. e \in Events /\ events'[e].status # "NONE"
        BY <3>7, RowsKept DEF SubmitAccepted, LocOK, ThreadOK, Busy
      <4> QED
        BY <4>2, <4>3, <4>4 DEF ThreadOK
    <3>8. CASE \/ NoActiveRow(t) \/ RetryReady(t) \/ QueryFok(t) \/ PollMerge(t)
               \/ PollTimeout(t) \/ SkipRow(t) \/ SubmitRaised(t) \/ SubmitLost(t)
               \/ SubmitNoId(t) \/ RecordTx(t) \/ FokRejected(t) \/ RecordFok(t)
               \/ UpstreamExit(t)
      <4>1. \/ Resume(t)
            \/ loc[t].at = "row" /\ GoTo(t, "submit", e)
        BY <3>8 DEF NoActiveRow, RetryReady, QueryFok, PollMerge, PollTimeout, SkipRow,
               SubmitRaised, SubmitLost, SubmitNoId, RecordTx, FokRejected, RecordFok,
               UpstreamExit, FailRow, BeginSubmit
      <4> QED
        BY <3>1, <3>2, <4>1 DEF LocOK, ThreadOK, Busy
    <3>9. CASE FokAccepted(t) \/ FokRaised(t)
      <4>1. loc[t].at = "fok" /\ (GoTo(t, "fokReply", e) \/ GoTo(t, "upstream", e))
        BY <3>9 DEF FokAccepted, FokRaised
      <4> QED
        BY <3>2, <4>1 DEF LocOK, ThreadOK, Busy
    <3>10. ASSUME NEW s \in Sides, Route(t, s) PROVE ThreadOK(t)'
      <4>1. CASE RouteNothing(t, s) \/ RouteMaker(t, s) \/ RouteFak(t, s)
        BY <3>4, <4>1 DEF RouteNothing, RouteMaker, RouteFak
      <4>2. CASE RoutePair(t, s)
        <5>1. PICK d \in Events :
                /\ Reserve(d, "PAIR", s, PairAmount(positions))
                /\ Begin(t, s, "submit", d)
          BY <4>2 DEF RoutePair
        <5>2. events'[d].status = "READY"
          BY <5>1 DEF Reserve, TypeOK, NoRow
        <5> QED
          BY <3>3, <5>1, <5>2
      <4>3. CASE RouteFok(t, s)
        <5>1. PICK d \in Events :
                Reserve(d, "FOK_MERGE", s, positions[s]) /\ Begin(t, s, "fok", d)
          BY <4>3 DEF RouteFok
        <5>2. events'[d].status = "READY"
          BY <5>1 DEF Reserve, TypeOK, NoRow
        <5> QED
          BY <3>3, <5>1, <5>2
      <4> QED
        BY <3>10, <4>1, <4>2, <4>3 DEF Route
    <3> QED
      BY <1>3, <3>5, <3>6, <3>7, <3>8, <3>9, <3>10 DEF Step, Submit
  <2> QED
    BY <2>1, <2>2, ThreadFrame DEF LocOK
<1>4. CASE Environment /\ ~Crash
  BY <1>1, <1>4 DEF Environment, BuyFill, SellFill, OutsideSell, FokResolve, TxMine, TxFail
<1>5. CASE Still
  BY <1>1, <1>5 DEF Still
<1> QED
  BY <1>2, <1>3, <1>4, <1>5, StillSteps DEF Next

LEMMA RowsStep ==
    ASSUME TypeOK, RowsOK, TableStep, TxsKept
    PROVE  RowsOK'
<1>1. SUFFICES ASSUME NEW e \in Events, events'[e].tx # 0
               PROVE  txs'[events'[e].tx].ev = e /\ txs'[events'[e].tx].state # "none"
  BY DEF RowsOK
<1>2. \/ events[e].tx = events'[e].tx
      \/ \E x \in Txs : events'[e].tx = x /\ txs[x].ev = e /\ txs[x].state # "none"
  <2>1. ASSUME NEW d \in Events, Reserved(d) PROVE events'[e].tx = events[e].tx
    BY <1>1, <2>1 DEF Reserved, Reserve, NoRow, TypeOK
  <2>2. ASSUME NEW d \in Events, Failed(d) \/ Confirmed(d) \/ Ordered(d)
        PROVE  events'[e].tx = events[e].tx
    BY <2>2 DEF Failed, FailEvent, Confirmed, Ordered, TypeOK, EventRow
  <2>3. ASSUME NEW d \in Events, Submitted(d)
        PROVE  \/ events'[e].tx = events[e].tx
               \/ \E x \in Txs : events'[e].tx = x /\ txs[x].ev = e /\ txs[x].state # "none"
    BY <2>3 DEF Submitted, TypeOK, EventRow
  <2> QED
    BY <2>1, <2>2, <2>3 DEF TableStep
<1>3. CASE events[e].tx = events'[e].tx
  <2>1. events[e].tx \in Txs
    BY <1>1, <1>3 DEF TypeOK, EventRow
  <2> QED
    BY <1>1, <1>3, <2>1 DEF RowsOK, TxsKept
<1>4. CASE \E x \in Txs : events'[e].tx = x /\ txs[x].ev = e /\ txs[x].state # "none"
  BY <1>4 DEF TxsKept
<1> QED
  BY <1>2, <1>3, <1>4

LEMMA SubmittedHasTxStep ==
    ASSUME TypeOK, RowsOK', SubmittedHasTx, TableStep
    PROVE  SubmittedHasTx'
<1>1. SUFFICES ASSUME NEW e \in Events, events'[e].status \in {"SUBMITTED", "CONFIRMED"}
               PROVE  events'[e].tx # 0
  BY DEF SubmittedHasTx, RowsOK
<1>2. ASSUME NEW d \in Events, Reserved(d) PROVE events'[e].tx # 0
  BY <1>1, <1>2 DEF Reserved, Reserve, NoRow, TypeOK, SubmittedHasTx
<1>3. ASSUME NEW d \in Events, Failed(d) \/ Confirmed(d) \/ Ordered(d)
      PROVE  events'[e].tx # 0
  BY <1>1, <1>3 DEF Failed, FailEvent, Confirmed, Ordered, TypeOK, EventRow, SubmittedHasTx
<1>4. ASSUME NEW d \in Events, Submitted(d) PROVE events'[e].tx # 0
  BY <1>1, <1>4 DEF Submitted, TypeOK, EventRow, SubmittedHasTx, Txs
<1>5. CASE events' = events
  BY <1>1, <1>5 DEF SubmittedHasTx
<1> QED
  BY <1>2, <1>3, <1>4, <1>5 DEF TableStep

LEMMA OneActiveStep ==
    ASSUME TypeOK, OneActive, TableStep
    PROVE  OneActive'
<1>1. ASSUME NEW d \in Events, Reserved(d) PROVE OneActive'
  <2>1. ActiveEvents' \subseteq {d}
    BY <1>1 DEF Reserved, Reserve, ActiveEvents, TypeOK
  <2> QED
    BY <2>1 DEF OneActive
<1>2. ASSUME NEW d \in Events, Failed(d) \/ Confirmed(d) \/ Ordered(d) PROVE OneActive'
  <2>1. ActiveEvents' \subseteq ActiveEvents
    BY <1>2 DEF Failed, FailEvent, Confirmed, Ordered, ActiveEvents, Active, TypeOK, EventRow
  <2> QED
    BY <2>1 DEF OneActive
<1>3. ASSUME NEW d \in Events, Submitted(d) PROVE OneActive'
  <2>1. ActiveEvents' \subseteq {d}
    BY <1>3 DEF Submitted, IndexAllows, ActiveEvents, TypeOK
  <2> QED
    BY <2>1 DEF OneActive
<1>4. CASE events' = events
  BY <1>4 DEF OneActive, ActiveEvents
<1> QED
  BY <1>1, <1>2, <1>3, <1>4 DEF TableStep

\* The inductive invariant is preserved by every step.
LEMMA NextIInv == IInv /\ [Next]_vars => IInv'
<1> SUFFICES ASSUME IInv, [Next]_vars PROVE IInv'
  OBVIOUS
<1> USE DEF IInv
<1>1. TypeOK'
  BY TypeStep
<1>2. TableStep /\ TxsKept /\ TxsOK'
  BY TableChange, TxChange
<1>3. LocOK' /\ RowsOK'
  BY <1>2, LocStep, RowsStep
<1>4. SubmittedHasTx' /\ OneActive'
  BY <1>2, <1>3, SubmittedHasTxStep, OneActiveStep
<1> QED
  BY <1>1, <1>2, <1>3, <1>4

THEOREM Invariance == Spec => []IInv
BY InitIInv, NextIInv, PTL DEF Spec

\* Every variable keeps its type, whatever the disturbances and the threads.
THEOREM TypeCorrect == Spec => []TypeOK
<1>1. IInv => TypeOK
  BY DEF IInv
<1> QED
  BY <1>1, Invariance, PTL

\* create_merge_event and the partial unique index: two operations are never in
\* progress at once, even with the recovery thread and the tick thread at work.
THEOREM OneActiveOperation == Spec => []OneActive
<1>1. IInv => OneActive
  BY DEF IInv
<1> QED
  BY <1>1, Invariance, PTL

\* A row is polled and booked under a transaction of its own only: no crash and
\* no lost answer lets a row take over the transaction of another one.
THEOREM SubmittedOwnsTx == Spec => []SubmittedHasTx
<1>1. IInv => SubmittedHasTx
  BY DEF IInv
<1> QED
  BY <1>1, Invariance, PTL

-----------------------------------------------------------------------------
\* One thread: a row is settled once

\* The tick thread alone runs the router.
Alone == Threads \subseteq {"tick"}

\* Nothing changes the row under a thread that is at work on it.
CallOK ==
    \A t \in Threads :
        /\ loc[t].at = "row" =>
            loc[t].row = events[loc[t].ev] /\ events[loc[t].ev].status \in Active
        /\ loc[t].at \in {"submit", "txReply", "fok", "fokReply", "upstream"} =>
            events[loc[t].ev].status = "READY"

SInv == IInv /\ CallOK

\* The updates of the table, each from the status its caller read.
SingleStep ==
    \/ events' = events
    \/ \E e \in Events :
        \/ Reserved(e)
        \/ /\ \/ events[e].status = "READY"
              \/ events[e].status = "SUBMITTED" /\ txs[events[e].tx].state = "failed"
           /\ Failed(e)
        \/ events[e].status = "SUBMITTED" /\ Confirmed(e)
        \/ events[e].status = "READY" /\ (Submitted(e) \/ Ordered(e))

LEMMA SingleChange ==
    ASSUME TypeOK, LocOK, CallOK, [Next]_vars
    PROVE  SingleStep
<1>1. CASE Still
  BY <1>1 DEF Still, SingleStep
<1>2. CASE Environment
  BY <1>2 DEF Environment, BuyFill, SellFill, OutsideSell, FokResolve, TxMine, TxFail,
              Crash, db, SingleStep
<1>3. ASSUME NEW t \in Threads, Step(t) PROVE SingleStep
  <2> DEFINE e == loc[t].ev
  <2>1. CASE \/ ListOrders(t) \/ Reconcile(t) \/ ReadTrades(t) \/ ReadRow(t) \/ NoActiveRow(t)
             \/ SkipRow(t) \/ SubmitAccepted(t) \/ SubmitRaised(t) \/ SubmitLost(t)
             \/ FokAccepted(t) \/ FokRaised(t) \/ UpstreamExit(t) \/ EndTick(t)
    BY <2>1 DEF ListOrders, Reconcile, ReadTrades, ReadRow, NoActiveRow, SkipRow, SubmitAccepted,
                SubmitRaised, SubmitLost, FokAccepted, FokRaised, UpstreamExit, EndTick,
                db, SingleStep
  <2>2. CASE RetryReady(t) \/ QueryFok(t) \/ SubmitNoId(t) \/ FokRejected(t)
    <3>1. e \in Events /\ events[e].status = "READY"
      BY <2>2 DEF RetryReady, QueryFok, SubmitNoId, FokRejected, LocOK, ThreadOK, Busy,
                  CallOK
    <3>2. FailEvent(e) \/ events' = events
      BY <2>2 DEF RetryReady, QueryFok, SubmitNoId, FokRejected, FailRow, BeginSubmit, db
    <3> QED
      BY <3>1, <3>2 DEF SingleStep, Failed
  <2>3. CASE PollMerge(t) \/ PollTimeout(t)
    <3>1. e \in Events /\ events[e].status = "SUBMITTED" /\ events[e].tx # 0
      BY <2>3 DEF PollMerge, PollTimeout, LocOK, ThreadOK, Busy, CallOK
    <3>2. \/ FailEvent(e) /\ txs[events[e].tx].state = "failed"
          \/ events' = events
          \/ FinalizeConfirmed(e)
      BY <2>3 DEF PollMerge, PollTimeout, FailRow, db, CallOK
    <3> QED
      BY <3>1, <3>2 DEF SingleStep, Failed, Confirmed, FinalizeConfirmed
  <2>4. CASE RecordTx(t)
    <3>1. /\ e \in Events /\ events[e].status = "READY"
          /\ loc[t].tx \in Txs
          /\ txs[loc[t].tx].ev = e /\ txs[loc[t].tx].state # "none"
      BY <2>4 DEF RecordTx, LocOK, ThreadOK, Busy, CallOK
    <3>2. \/ events' = events
          \/ /\ IndexAllows(e)
             /\ events' = [events EXCEPT ![e].status = "SUBMITTED", ![e].tx = loc[t].tx]
      BY <2>4 DEF RecordTx
    <3> QED
      BY <3>1, <3>2 DEF SingleStep, Submitted
  <2>5. CASE RecordFok(t)
    BY <2>5 DEF RecordFok, LocOK, ThreadOK, Busy, CallOK, SingleStep, Ordered
  <2>6. ASSUME NEW s \in Sides, Route(t, s) PROVE SingleStep
    <3>1. CASE RouteNothing(t, s) \/ RouteMaker(t, s) \/ RouteFak(t, s)
      BY <3>1 DEF RouteNothing, RouteMaker, RouteFak, db, SingleStep
    <3>2. CASE RoutePair(t, s)
      BY <3>2, ReservedAlone, Quantities DEF RoutePair, SingleStep, Routes
    <3>3. CASE RouteFok(t, s)
      BY <3>3, ReservedAlone, Quantities DEF RouteFok, SingleStep, Routes
    <3> QED
      BY <2>6, <3>1, <3>2, <3>3 DEF Route
  <2> QED
    BY <1>3, <2>1, <2>2, <2>3, <2>4, <2>5, <2>6 DEF Step, Submit
<1> QED
  BY <1>1, <1>2, <1>3, StillSteps DEF Next

LEMMA CallStep ==
    ASSUME Alone, TypeOK, LocOK, CallOK, [Next]_vars
    PROVE  CallOK'
<1> DEFINE InCall == {"submit", "txReply", "fok", "fokReply", "upstream"}
<1>1. ASSUME UNCHANGED <<loc, events>> PROVE CallOK'
  BY <1>1 DEF CallOK
<1>2. CASE Crash
  BY <1>2 DEF Crash, CallOK, Idle
<1>3. CASE Environment /\ ~Crash
  BY <1>1, <1>3 DEF Environment, BuyFill, SellFill, OutsideSell, FokResolve, TxMine, TxFail, db
<1>4. CASE Still
  BY <1>1, <1>4 DEF Still
<1>5. ASSUME NEW t \in Threads, Step(t) PROVE CallOK'
  <2> DEFINE e == loc[t].ev
  <2>1. Threads = {t}
    BY DEF Alone
  <2>2. ASSUME loc'[t].at \notin InCall \cup {"row"} PROVE CallOK'
    BY <2>1, <2>2 DEF CallOK
  <2>3. ASSUME Resume(t) PROVE CallOK'
    BY <2>2, <2>3 DEF Resume, TypeOK, Idle, Local
  <2>4. ASSUME NEW p \in InCall, loc'[t].at = p, loc'[t].ev = e, events'[e].status = "READY"
        PROVE  CallOK'
    BY <2>1, <2>4 DEF CallOK
  <2>5. CASE ListOrders(t) \/ Reconcile(t) \/ ReadTrades(t) \/ EndTick(t)
    BY <2>2, <2>5 DEF ListOrders, Reconcile, ReadTrades, EndTick, TypeOK, Local, Idle
  <2>6. CASE ReadRow(t)
    <3>1. PICK d \in ActiveEvents :
              loc' = [loc EXCEPT ![t].at = "row", ![t].ev = d, ![t].row = events[d]]
      BY <2>6 DEF ReadRow
    <3>2. loc'[t].at = "row" /\ loc'[t].ev = d /\ loc'[t].row = events[d] /\ events' = events
      BY <2>6, <3>1 DEF ReadRow, TypeOK, Local, db
    <3> QED
      BY <2>1, <3>2 DEF CallOK, ActiveEvents
  <2>7. CASE SubmitAccepted(t)
    <3>1. loc'[t].at = "txReply" /\ loc'[t].ev = e /\ events' = events
      BY <2>7 DEF SubmitAccepted, TypeOK, Local, db
    <3> QED
      BY <2>4, <2>7, <3>1 DEF SubmitAccepted, CallOK
  <2>8. CASE FokAccepted(t) \/ FokRaised(t)
    <3>1. loc'[t].at \in {"fokReply", "upstream"} /\ loc'[t].ev = e /\ events' = events
      BY <2>8 DEF FokAccepted, FokRaised, GoTo, TypeOK, Local, db
    <3> QED
      BY <2>4, <2>8, <3>1 DEF FokAccepted, FokRaised, CallOK
  <2>9. CASE \/ NoActiveRow(t) \/ PollMerge(t)
             \/ PollTimeout(t) \/ SkipRow(t) \/ SubmitRaised(t) \/ SubmitLost(t)
             \/ SubmitNoId(t) \/ RecordTx(t) \/ FokRejected(t) \/ RecordFok(t)
             \/ UpstreamExit(t)
    BY <2>3, <2>9 DEF NoActiveRow, PollMerge, PollTimeout, SkipRow, SubmitRaised, SubmitLost,
           SubmitNoId, RecordTx, FokRejected, RecordFok, UpstreamExit, FailRow
  <2>10. CASE RetryReady(t) \/ QueryFok(t)
    <3>1. \/ Resume(t)
          \/ GoTo(t, "submit", e) /\ events' = events
      BY <2>10 DEF RetryReady, QueryFok, FailRow, BeginSubmit, db
    <3>2. ASSUME GoTo(t, "submit", e), events' = events PROVE CallOK'
      <4>1. loc'[t].at = "submit" /\ loc'[t].ev = e
        BY <3>2 DEF GoTo, TypeOK, Local
      <4>2. events[e].status = "READY"
        BY <2>10 DEF RetryReady, QueryFok, CallOK
      <4> QED
        BY <2>4, <3>2, <4>1, <4>2
    <3> QED
      BY <2>3, <3>1, <3>2
  <2>11. ASSUME NEW s \in Sides, Route(t, s) PROVE CallOK'
    <3>1. CASE RouteNothing(t, s) \/ RouteMaker(t, s) \/ RouteFak(t, s)
      BY <2>2, <3>1 DEF RouteNothing, RouteMaker, RouteFak, Begin, TypeOK, Local
    <3>2. ASSUME NEW d \in Events, NEW p \in {"submit", "fok"}, NEW r \in Routes,
                 NEW q \in Nat, Reserve(d, r, s, q), Begin(t, s, p, d)
          PROVE  CallOK'
      <4>1. loc'[t].at = p /\ loc'[t].ev = d /\ events'[d].status = "READY"
        BY <3>2 DEF Reserve, Begin, TypeOK, Local, NoRow
      <4> QED
        BY <2>1, <4>1 DEF CallOK
    <3> QED
      BY <2>11, <3>1, <3>2, Quantities DEF Route, RoutePair, RouteFok, Routes
  <2> QED
    BY <1>5, <2>5, <2>6, <2>7, <2>8, <2>9, <2>10, <2>11 DEF Step, Submit
<1> QED
  BY <1>2, <1>3, <1>4, <1>5, StillSteps DEF Next

\* One step of the table, seen by the row e.
SettledStep(e) ==
    /\ events'[e].status \in NextStatus[events[e].status]
    /\ events[e].status # "NONE" =>
        /\ events'[e].amount = events[e].amount
        /\ events'[e].route = events[e].route
        /\ events'[e].side = events[e].side

LEMMA SettledStepHolds ==
    ASSUME TypeOK, SingleStep, NEW e \in Events
    PROVE  SettledStep(e)
<1>1. events[e].status \in Statuses
  BY DEF TypeOK, EventRow
<1>2. ASSUME events'[e] = events[e] PROVE SettledStep(e)
  BY <1>1, <1>2 DEF SettledStep, NextStatus, Statuses, Active, Terminal
<1>3. ASSUME Reserved(e) PROVE SettledStep(e)
  BY <1>3 DEF Reserved, Reserve, IsNewEvent, SettledStep, NextStatus, TypeOK, NoRow
<1>4. ASSUME events[e].status \in Active, Failed(e) PROVE SettledStep(e)
  BY <1>4 DEF Failed, FailEvent, SettledStep, NextStatus, TypeOK, EventRow, Active
<1>5. ASSUME events[e].status = "SUBMITTED", Confirmed(e) PROVE SettledStep(e)
  BY <1>5 DEF Confirmed, SettledStep, NextStatus, TypeOK, EventRow
<1>6. ASSUME events[e].status = "READY", Submitted(e) PROVE SettledStep(e)
  BY <1>6 DEF Submitted, SettledStep, NextStatus, TypeOK, EventRow
<1>7. ASSUME events[e].status = "READY", Ordered(e) PROVE SettledStep(e)
  BY <1>7 DEF Ordered, SettledStep, NextStatus, TypeOK, EventRow
<1>8. ASSUME NEW d \in Events, d # e,
             Reserved(d) \/ Failed(d) \/ Confirmed(d) \/ Submitted(d) \/ Ordered(d)
      PROVE  events'[e] = events[e]
  BY <1>8 DEF Reserved, Reserve, Failed, FailEvent, Confirmed, Submitted, Ordered, TypeOK
<1> QED
  BY <1>2, <1>3, <1>4, <1>5, <1>6, <1>7, <1>8 DEF SingleStep, Active

LEMMA SInvariance == ASSUME Alone PROVE Spec => []SInv
<1>1. Init => SInv
  BY InitIInv DEF SInv, Init, CallOK, Idle
<1>2. SInv /\ [Next]_vars => SInv'
  BY NextIInv, CallStep DEF SInv, IInv
<1> QED
  BY <1>1, <1>2, PTL DEF Spec

\* With the tick thread alone at work a row is settled once, whatever crashes,
\* answers lost and stale snapshots there are: no read-then-write of the router
\* moves a row back or drops one that is settled.
THEOREM RowSettledOnce == ASSUME Alone PROVE Spec => SettledOnce
<1>1. SInv /\ [Next]_vars =>
        [\A e \in Events :
            /\ events'[e].status \in NextStatus[events[e].status]
            /\ events[e].status # "NONE" =>
                /\ events'[e].amount = events[e].amount
                /\ events'[e].route = events[e].route
                /\ events'[e].side = events[e].side]_vars
  BY SingleChange, SettledStepHolds DEF SInv, IInv, SettledStep
<1> QED
  BY <1>1, SInvariance, PTL DEF Spec, SettledOnce

-----------------------------------------------------------------------------
\* One thread whose cancels work: no sell holds the shares of a Merge

\* A cancel that is asked for is carried out.
Obeyed == Env \cap {"cancelFails", "rowUnread"} = {}

\* The sells that rest are among those of the sides S.
Covered(S) == \A s \in Sides : sells[s] > 0 => s \in S

\* How the thread's snapshot covers the sells, so that cancelling those of the
\* snapshot frees every share.  In the loop over positions this is needed, and
\* true, only where a pair can be merged: there no maker sell is placed.
SellOK(t) ==
    /\ loc[t].at = "orders" => Covered(loc[t].ord)
    /\ loc[t].at \in {"trades", "events", "row"} => Covered(openSells)
    /\ loc[t].at = "route" /\ PairReady => Covered(openSells)
    /\ loc[t].at \in {"submit", "txReply"} => Covered({})
    /\ loc[t].at \in {"fok", "fokReply", "upstream"} => ~PairReady

SellInv == SharesFree /\ \A t \in Threads : SellOK(t)

\* Where nothing is submitted and no sell is placed.
LEMMA SharesFrame ==
    ASSUME TypeOK, SharesFree,
           \A s \in Sides : sells'[s] > 0 => sells[s] > 0, sells' \in [Sides -> Nat],
           \A e \in Events : events'[e].status = "SUBMITTED" => events[e].status = "SUBMITTED"
    PROVE  SharesFree'
BY DEF SharesFree, TypeOK

\* Cancelling every sell of the snapshot leaves none.
LEMMA AllFreed ==
    ASSUME Obeyed, TypeOK, Covered(openSells), CancelSells(Sides)
    PROVE  \A s \in Sides : sells'[s] = 0
BY DEF Obeyed, TypeOK, Covered, CancelSells, AfterCancel, Sides

LEMMA NoneSubmitted ==
    ASSUME SInv, NEW e \in Events, events[e].status = "READY"
    PROVE  \A f \in Events : events[f].status # "SUBMITTED"
BY DEF SInv, IInv, OneActive, ActiveEvents, Active

\* What the world does to the sells.
LEMMA SellWorld ==
    ASSUME TypeOK, SellInv, Environment
    PROVE  SellInv'
<1>1. /\ events' = events /\ positions' = positions
      /\ \A s \in Sides : sells'[s] > 0 => sells[s] > 0
      /\ sells' \in [Sides -> Nat]
  BY DEF TypeOK, Environment, BuyFill, SellFill, OutsideSell, FokResolve, TxMine, TxFail, Crash,
         world, router, db, SmallerOf
<1>2. \/ loc' = loc /\ openSells' = openSells
      \/ \A t \in Threads : loc'[t].at = "idle"
  BY DEF Environment, BuyFill, SellFill, OutsideSell, FokResolve, TxMine, TxFail, Crash, router,
         Idle
<1>3. SharesFree'
  BY <1>1, SharesFrame DEF SellInv
<1>4. PairReady' = PairReady
  BY <1>1 DEF PairReady, PairAmount
<1>5. ASSUME NEW t \in Threads PROVE SellOK(t)'
  <2>1. CASE loc'[t].at = "idle"
    BY <2>1 DEF SellOK
  <2>2. CASE loc' = loc /\ openSells' = openSells
    <3>1. SellOK(t)
      BY DEF SellInv
    <3>2. /\ Covered(loc[t].ord) => Covered(loc[t].ord)'
          /\ Covered(openSells) => Covered(openSells)'
          /\ Covered({}) => Covered({})'
      BY <1>1, <2>2 DEF Covered
    <3> QED
      BY <1>4, <2>2, <3>1, <3>2 DEF SellOK
  <2> QED
    BY <1>2, <2>1, <2>2
<1> QED
  BY <1>3, <1>5 DEF SellInv

LEMMA SellStep ==
    ASSUME Alone, Obeyed, SInv, SellInv, [Next]_vars
    PROVE  SellInv'
<1>1. TypeOK /\ LocOK /\ CallOK /\ SharesFree
  BY DEF SInv, IInv, SellInv
<1>2. CASE Still
  <2>1. SharesFree' /\ PairReady' = PairReady
    BY <1>1, <1>2 DEF Still, SharesFree, PairReady, PairAmount
  <2>2. ASSUME NEW t \in Threads PROVE SellOK(t)'
    BY <1>2, <2>1 DEF Still, SellInv, SellOK, Covered
  <2> QED
    BY <2>1, <2>2 DEF SellInv
<1>3. CASE Environment
  BY <1>1, <1>3, SellWorld
<1>4. ASSUME NEW t \in Threads, Step(t) PROVE SellInv'
  <2> DEFINE d == loc[t].ev
  <2>1. Threads = {t}
    BY DEF Alone
  <2>2. SellOK(t)
    BY DEF SellInv
  <2>3. ASSUME SharesFree', SellOK(t)' PROVE SellInv'
    BY <2>1, <2>3 DEF SellInv
  <2>4. TypeOK'
    BY NextIInv DEF SInv, IInv
  \* A step that leaves the sells and the submissions alone.
  <2>5. ASSUME sells' = sells,
               \A e \in Events : events'[e].status = "SUBMITTED" => events[e].status = "SUBMITTED"
        PROVE  SharesFree'
    BY <1>1, <2>4, <2>5, SharesFrame DEF TypeOK
  <2>6. ASSUME Resume(t) PROVE loc'[t].at = "route"
    BY <1>1, <2>6 DEF Resume, TypeOK, Idle, Local
  <2>7. ASSUME positions' = positions PROVE PairReady' = PairReady
    BY <2>7 DEF PairReady, PairAmount
  <2>8. ASSUME d \in Events, FailEvent(d) \/ FinalizeConfirmed(d) \/ events' = events
        PROVE  \A e \in Events : events'[e].status = "SUBMITTED" => events[e].status = "SUBMITTED"
    BY <1>1, <2>8 DEF FailEvent, FinalizeConfirmed, TypeOK, EventRow
  <2>9. ASSUME BeginSubmit(t), loc[t].at = "row" PROVE SellInv'
    <3>1. loc'[t].at = "submit" /\ events' = events
      BY <1>1, <2>9 DEF BeginSubmit, GoTo, TypeOK, Local, db
    <3>2. \A s \in Sides : sells'[s] = 0
      BY <1>1, <2>2, <2>9, AllFreed DEF SellOK, BeginSubmit
    <3> QED
      BY <2>3, <3>1, <3>2 DEF SellOK, SharesFree, Covered
  \* Back in the loop from a row, with the sells and the snapshot as they were.
  <2>10. ASSUME loc[t].at \in {"events", "row", "submit", "txReply"}, loc'[t].at = "route",
                sells' = sells, openSells' = openSells
         PROVE  SellOK(t)'
    BY <2>2, <2>10 DEF SellOK, Covered
  \* Back in the loop where no pair can be merged.
  <2>11. ASSUME ~PairReady, positions' = positions, loc'[t].at \in {"route", "fok", "fokReply", "upstream"}
         PROVE  SellOK(t)'
    BY <2>7, <2>11 DEF SellOK
  <2>12. CASE ListOrders(t)
    <3>1. loc'[t].at = "orders" /\ loc'[t].ord = {s \in Sides : sells[s] > 0}
                /\ sells' = sells /\ events' = events
      BY <1>1, <2>12 DEF ListOrders, TypeOK, Local, world, db
    <3> QED
      BY <2>3, <2>5, <3>1 DEF SellOK, Covered
  <2>13. CASE Reconcile(t)
    <3>1. loc[t].at = "orders" /\ loc'[t].at \in {"trades", "events"} /\ openSells' = loc[t].ord
                /\ sells' = sells /\ events' = events
      BY <1>1, <2>13 DEF Reconcile, TypeOK, Local, world, db
    <3> QED
      BY <2>2, <2>3, <2>5, <3>1 DEF SellOK, Covered
  <2>25. CASE ReadTrades(t)
    <3>1. loc[t].at = "trades" /\ loc'[t].at = "events" /\ openSells' = openSells
                /\ sells' = sells /\ events' = events
      BY <1>1, <2>25 DEF ReadTrades, TypeOK, Local, world, db
    <3> QED
      BY <2>2, <2>3, <2>5, <3>1 DEF SellOK, Covered
  <2>14. CASE ReadRow(t)
    <3>1. loc[t].at = "events" /\ loc'[t].at = "row" /\ openSells' = openSells
                /\ sells' = sells /\ events' = events
      BY <1>1, <2>14 DEF ReadRow, TypeOK, Local, world, router, db
    <3> QED
      BY <2>2, <2>3, <2>5, <3>1 DEF SellOK, Covered
  <2>15. CASE NoActiveRow(t) \/ SkipRow(t) \/ SubmitRaised(t)
    <3>1. loc[t].at \in {"events", "row", "submit"} /\ Resume(t) /\ openSells' = openSells
                /\ sells' = sells /\ events' = events
      BY <2>15 DEF NoActiveRow, SkipRow, SubmitRaised, world, router, db
    <3> QED
      BY <2>3, <2>5, <2>6, <2>10, <3>1
  <2>16. CASE SubmitLost(t)
    <3>1. loc[t].at = "submit" /\ Resume(t) /\ openSells' = openSells
                /\ sells' = sells /\ events' = events
      BY <2>16 DEF SubmitLost, router, db
    <3> QED
      BY <2>3, <2>5, <2>6, <2>10, <3>1
  <2>17. CASE SubmitAccepted(t)
    <3>1. loc[t].at = "submit" /\ loc'[t].at = "txReply" /\ sells' = sells /\ events' = events
      BY <1>1, <2>17 DEF SubmitAccepted, TypeOK, Local, db
    <3> QED
      BY <2>2, <2>3, <2>5, <3>1 DEF SellOK, Covered
  <2>18. CASE RetryReady(t) \/ QueryFok(t) \/ PollMerge(t) \/ PollTimeout(t) \/ SubmitNoId(t)
    <3>1. loc[t].at \in {"row", "submit"} /\ d \in Events
      BY <1>1, <2>18 DEF RetryReady, QueryFok, PollMerge, PollTimeout, SubmitNoId, LocOK, ThreadOK,
                         Busy
    <3>2. \/ BeginSubmit(t) /\ loc[t].at = "row"
          \/ /\ Resume(t) /\ sells' = sells /\ openSells' = openSells
             /\ FailEvent(d) \/ FinalizeConfirmed(d) \/ events' = events
      BY <2>18 DEF RetryReady, QueryFok, PollMerge, PollTimeout, SubmitNoId, FailRow, world, router, db
    <3> QED
      BY <2>3, <2>5, <2>6, <2>8, <2>9, <2>10, <3>1, <3>2
  \* The row becomes SUBMITTED: its sells were cancelled, and none came since.
  <2>19. CASE RecordTx(t)
    <3>1. loc[t].at = "txReply" /\ Resume(t) /\ sells' = sells /\ openSells' = openSells
      BY <2>19 DEF RecordTx, world, router
    <3>2. \A s \in Sides : sells'[s] = 0
      BY <1>1, <2>2, <3>1 DEF SellOK, Covered, TypeOK
    <3> QED
      BY <2>3, <2>6, <2>10, <3>1, <3>2 DEF SharesFree
  <2>20. CASE FokAccepted(t) \/ FokRaised(t)
    <3>1. loc[t].at = "fok" /\ loc'[t].at \in {"fokReply", "upstream"} /\ sells' = sells
                /\ events' = events /\ positions' = positions
      BY <1>1, <2>20 DEF FokAccepted, FokRaised, GoTo, TypeOK, Local, router, db
    <3> QED
      BY <2>2, <2>3, <2>5, <2>11, <3>1 DEF SellOK
  <2>21. CASE FokRejected(t) \/ RecordFok(t)
    <3>1. loc[t].at \in {"fok", "fokReply"} /\ d \in Events /\ Resume(t) /\ sells' = sells
                /\ positions' = positions
      BY <1>1, <2>21 DEF FokRejected, RecordFok, LocOK, ThreadOK, Busy, router, world
    <3>2. FailEvent(d) \/ events' = [events EXCEPT ![d].order = TRUE]
      BY <2>21 DEF FokRejected, RecordFok
    <3>3. \A e \in Events : events'[e].status = "SUBMITTED" => events[e].status = "SUBMITTED"
      BY <1>1, <3>1, <3>2 DEF FailEvent, TypeOK, EventRow
    <3> QED
      BY <2>2, <2>3, <2>5, <2>6, <2>11, <3>1, <3>3 DEF SellOK
  \* The monitor's own exit may rest a sell, but no row is SUBMITTED then.
  <2>22. CASE UpstreamExit(t)
    <3>1. loc[t].at = "upstream" /\ d \in Events /\ events[d].status = "READY" /\ Resume(t)
                /\ events' = events /\ positions' = positions
      BY <1>1, <2>22 DEF UpstreamExit, LocOK, ThreadOK, Busy, CallOK, db
    <3>2. SharesFree'
      BY <3>1, NoneSubmitted DEF SharesFree
    <3> QED
      BY <2>2, <2>3, <2>6, <2>11, <3>1, <3>2 DEF SellOK
  <2>23. CASE EndTick(t)
    <3>1. loc'[t].at \in {"idle", "done"} /\ sells' = sells /\ events' = events
      BY <1>1, <2>23 DEF EndTick, TypeOK, Idle, Local, world, db
    <3> QED
      BY <2>3, <2>5, <3>1 DEF SellOK
  <2>24. ASSUME NEW s \in Sides, Route(t, s) PROVE SellInv'
    <3>1. CASE RouteNothing(t, s)
      <4>1. loc[t].at = "route" /\ loc'[t].at = "route" /\ sells' = sells /\ events' = events
                /\ positions' = positions /\ openSells' = openSells
        BY <1>1, <3>1 DEF RouteNothing, Begin, TypeOK, Local, world, router, db
      <4> QED
        BY <2>2, <2>3, <2>5, <2>7, <4>1 DEF SellOK, Covered
    <3>2. CASE RoutePair(t, s)
      <4>1. PICK e \in Events : /\ Reserve(e, "PAIR", s, PairAmount(positions))
                                /\ Begin(t, s, "submit", e)
        BY <3>2 DEF RoutePair
      <4>2. loc'[t].at = "submit"
        BY <1>1, <4>1 DEF Begin, TypeOK, Local
      <4>3. \A x \in Sides : sells'[x] = 0
        BY <1>1, <2>2, <3>2, AllFreed DEF RoutePair, Routable, SellOK
      <4> QED
        BY <2>3, <4>2, <4>3 DEF SellOK, SharesFree, Covered
    \* A maker sell is placed only where no row is active.
    <3>3. CASE RouteMaker(t, s) \/ RouteFak(t, s)
      <4>1. /\ ~PairReady /\ ActiveEvents = {} /\ events' = events /\ positions' = positions
            /\ loc'[t].at = "route"
        BY <1>1, <3>3 DEF RouteMaker, RouteFak, Routable, Obeyed, Begin, TypeOK, Local, db
      <4>2. SharesFree'
        BY <4>1 DEF SharesFree, ActiveEvents, Active
      <4> QED
        BY <2>3, <2>11, <4>1, <4>2
    <3>4. CASE RouteFok(t, s)
      <4>1. PICK e \in Events : /\ Reserve(e, "FOK_MERGE", s, positions[s])
                                /\ Begin(t, s, "fok", e)
        BY <3>4 DEF RouteFok
      <4>2. loc'[t].at = "fok" /\ events'[e].status = "READY"
                /\ \A f \in Events \ {e} : events'[f] = events[f]
        BY <1>1, <4>1 DEF Begin, Reserve, TypeOK, Local, NoRow
      <4>3. ~PairReady /\ ActiveEvents = {} /\ positions' = positions
        <5>1. ActiveEvents = {}
          BY <1>1, <4>1, ReservedAlone, Quantities DEF Reserved, Routes
        <5> QED
          BY <3>4, <5>1 DEF RouteFok
      <4>4. SharesFree'
        BY <4>2, <4>3 DEF SharesFree, ActiveEvents, Active
      <4> QED
        BY <2>3, <2>11, <4>2, <4>3, <4>4
    <3> QED
      BY <2>24, <3>1, <3>2, <3>3, <3>4 DEF Route
  <2> QED
    BY <1>4, <2>12, <2>13, <2>14, <2>15, <2>16, <2>17, <2>18, <2>19, <2>20, <2>21, <2>22, <2>23,
       <2>24, <2>25 DEF Step, Submit
<1> QED
  BY <1>2, <1>3, <1>4, StillSteps DEF Next

\* While a Merge is under way no resting sell holds shares of the pair, across
\* crashes, lost answers and lagging positions, if cancels that are asked for are
\* carried out: _cancel_sells works on the snapshot of the tick, and the proof is
\* that this snapshot misses no sell where it matters.
THEOREM MergedSharesFree == ASSUME Alone, Obeyed PROVE Spec => []SharesFree
<1>1. Init => SellInv
  BY DEF Init, SellInv, SellOK, SharesFree, Idle, NoRow
<1>2. SInv /\ SellInv /\ [Next]_vars => SellInv'
  BY SellStep
<1>3. SellInv => SharesFree
  BY DEF SellInv
<1> QED
  BY <1>1, <1>2, <1>3, SInvariance, PTL DEF Spec

-----------------------------------------------------------------------------
\* One thread and no interruption: the router implements the ledger

\* The process stays up and every answer arrives.
Uninterrupted == Env \cap {"crash", "lostReply"} = {}

TxsOf(e) == {x \in Txs : txs[x].ev = e}

\* The transactions of a row, by its status.
TxInv ==
    /\ \A x \in Txs : txs[x].state = "none" => txs[x].ev = 0
    /\ \A e \in Events :
        /\ events[e].status = "NONE" => TxsOf(e) = {}
        /\ events[e].status = "READY" =>
            \A x \in TxsOf(e) : \E t \in Threads :
                loc[t].at = "txReply" /\ loc[t].ev = e /\ loc[t].tx = x
        /\ events[e].status \in {"SUBMITTED", "CONFIRMED"} => TxsOf(e) = {events[e].tx}
        /\ events[e].status = "FAILED" =>
            \A x \in TxsOf(e) : txs[x].state = "failed"

LInv == SInv /\ TxInv /\ SubmittedOnce

\* The transactions of e and their states.
SameTxs(e) ==
    \A x \in Txs : (txs'[x].ev = e \/ txs[x].ev = e) => txs'[x] = txs[x]

LEMMA SameTxsOf ==
    ASSUME NEW e, SameTxs(e)
    PROVE  /\ TxsOf(e)' = TxsOf(e)
           /\ Burnt(e)' = Burnt(e)
           /\ \A x \in TxsOf(e) : txs'[x] = txs[x]
BY DEF SameTxs, TxsOf, Burnt

\* What an uninterrupted step of the tick thread does to the transactions.
TxStep ==
    \/ txs' = txs
    \/ \E x \in Txs, t \in Threads :
        /\ IsNewTx(x) /\ SubmitAccepted(t)
        /\ txs' = [txs EXCEPT ![x] = [ev |-> loc[t].ev, state |-> "pending"]]
        /\ loc'[t].at = "txReply" /\ loc'[t].ev = loc[t].ev /\ loc'[t].tx = x
        /\ events' = events
    \/ \E x \in Txs : (TxMine(x) \/ TxFail(x))

LEMMA TxStepHolds ==
    ASSUME Uninterrupted, TypeOK, [Next]_vars
    PROVE  TxStep
<1>1. CASE Still
  BY <1>1 DEF Still, TxStep
<1>2. CASE Environment
  BY <1>2 DEF Environment, BuyFill, SellFill, OutsideSell, FokResolve, Crash, world, TxStep
<1>3. ASSUME NEW t \in Threads, Step(t) PROVE TxStep
  <2>1. CASE SubmitAccepted(t)
    <3>1. PICK x \in Txs :
              /\ IsNewTx(x)
              /\ txs' = [txs EXCEPT ![x] = [ev |-> loc[t].ev, state |-> "pending"]]
              /\ loc' = [loc EXCEPT ![t].at = "txReply", ![t].tx = x]
      BY <2>1 DEF SubmitAccepted
    <3>2. loc'[t].at = "txReply" /\ loc'[t].ev = loc[t].ev /\ loc'[t].tx = x
      BY <3>1 DEF TypeOK, Local
    <3> QED
      BY <2>1, <3>1, <3>2 DEF TxStep, SubmitAccepted, db
  <2>2. CASE \/ ListOrders(t) \/ Reconcile(t) \/ ReadTrades(t) \/ ReadRow(t) \/ NoActiveRow(t)
             \/ RetryReady(t) \/ QueryFok(t) \/ PollMerge(t) \/ PollTimeout(t) \/ SkipRow(t)
    BY <2>2 DEF ListOrders, Reconcile, ReadTrades, ReadRow, NoActiveRow, RetryReady, QueryFok,
                PollMerge, PollTimeout, SkipRow, BeginSubmit, FailRow, world, TxStep
  <2>3. CASE \/ SubmitRaised(t) \/ SubmitLost(t) \/ SubmitNoId(t) \/ RecordTx(t)
             \/ FokAccepted(t) \/ FokRejected(t) \/ FokRaised(t) \/ RecordFok(t)
             \/ UpstreamExit(t) \/ EndTick(t)
    BY <2>3 DEF SubmitRaised, SubmitLost, SubmitNoId, RecordTx, FokAccepted, FokRejected,
                FokRaised, RecordFok, UpstreamExit, EndTick, FailRow, world, TxStep,
                Uninterrupted
  <2>4. ASSUME NEW s \in Sides, Route(t, s) PROVE TxStep
    BY <2>4 DEF Route, RouteNothing, RoutePair, RouteMaker, RouteFak, RouteFok, world, TxStep
  <2> QED
    BY <1>3, <2>1, <2>2, <2>3, <2>4 DEF Step, Submit
<1> QED
  BY <1>1, <1>2, <1>3, StillSteps DEF Next

\* A thread that has an answer to store only stores it: the row becomes SUBMITTED.
LEMMA AnswerStored ==
    ASSUME Alone, Uninterrupted, LInv, [Next]_vars, NEW t \in Threads,
           loc[t].at = "txReply"
    PROVE  \/ loc' = loc /\ events' = events
           \/ /\ events' = [events EXCEPT ![loc[t].ev].status = "SUBMITTED",
                                          ![loc[t].ev].tx = loc[t].tx]
              /\ txs' = txs
<1>1. Threads = {t}
  BY DEF Alone
<1>2. CASE Still
  BY <1>2 DEF Still
<1>3. CASE Environment
  BY <1>3 DEF Environment, BuyFill, SellFill, OutsideSell, FokResolve, TxMine, TxFail, Crash,
              Uninterrupted, db
<1>4. CASE Step(t)
  <2>1. RecordTx(t)
    BY <1>4 DEF Step, ListOrders, Reconcile, ReadTrades, ReadRow, NoActiveRow, RetryReady, QueryFok,
          PollMerge, PollTimeout, SkipRow, Submit, SubmitAccepted, SubmitRaised, SubmitLost,
          SubmitNoId, Route, RouteNothing, RoutePair, RouteMaker, RouteFak, Routable,
          RouteFok, FokAccepted, FokRejected, FokRaised, UpstreamExit, RecordFok, EndTick
  <2>2. loc[t].ev \in ActiveEvents
    BY DEF LInv, SInv, IInv, LocOK, ThreadOK, Busy, CallOK, ActiveEvents, Active
  <2>3. IndexAllows(loc[t].ev)
    BY <2>2 DEF LInv, SInv, IInv, OneActive, IndexAllows
  <2> QED
    BY <2>1, <2>3 DEF RecordTx, world
<1> QED
  BY <1>1, <1>2, <1>3, <1>4, StillSteps DEF Next

LEMMA NoTxBefore ==
    ASSUME LInv, Alone, NEW t \in Threads, loc[t].at # "txReply", NEW e \in Events,
           events[e].status = "READY"
    PROVE  TxsOf(e) = {}
<1>1. \A x \in TxsOf(e) : \E s \in Threads : loc[s].at = "txReply"
  BY DEF LInv, TxInv
<1>2. \A s \in Threads : s = t
  BY DEF Alone
<1> QED
  BY <1>1, <1>2, Zenon

LEMMA TxInvStep ==
    ASSUME Alone, Uninterrupted, LInv, [Next]_vars
    PROVE  TxInv' /\ SubmittedOnce'
<1>1. TypeOK /\ LocOK /\ CallOK /\ TxInv /\ SubmittedOnce /\ TxsOK
  BY DEF LInv, SInv, IInv
<1>2. SingleStep /\ TxStep
  BY <1>1, SingleChange, TxStepHolds
<1>3. CASE txs' = txs
  <2>1. SubmittedOnce' /\ \A e : TxsOf(e)' = TxsOf(e)
    BY <1>1, <1>3 DEF SubmittedOnce, TxsOf
  <2>2. ASSUME NEW e \in Events
        PROVE  /\ events'[e].status = "NONE" => TxsOf(e) = {}
               /\ events'[e].status = "READY" =>
                    \A x \in TxsOf(e) : \E t \in Threads :
                        loc'[t].at = "txReply" /\ loc'[t].ev = e /\ loc'[t].tx = x
               /\ events'[e].status \in {"SUBMITTED", "CONFIRMED"} =>
                    TxsOf(e) = {events'[e].tx}
               /\ events'[e].status = "FAILED" =>
                    \A x \in TxsOf(e) : txs[x].state = "failed"
    <3> DEFINE Goal == /\ events'[e].status = "NONE" => TxsOf(e) = {}
                       /\ events'[e].status \in {"SUBMITTED", "CONFIRMED"} =>
                            TxsOf(e) = {events'[e].tx}
                       /\ events'[e].status = "FAILED" =>
                            \A x \in TxsOf(e) : txs[x].state = "failed"
    <3>1. ASSUME events[e].status = "READY", NEW x \in TxsOf(e)
          PROVE  \/ /\ events' = events
                    /\ \E t \in Threads :
                        loc'[t].at = "txReply" /\ loc'[t].ev = e /\ loc'[t].tx = x
                 \/ events'[e].status = "SUBMITTED"
      <4>1. PICK t \in Threads : loc[t].at = "txReply" /\ loc[t].ev = e /\ loc[t].tx = x
        BY <1>1, <3>1 DEF TxInv
      <4>2. \/ loc' = loc /\ events' = events
            \/ events' = [events EXCEPT ![e].status = "SUBMITTED", ![e].tx = x]
        BY <4>1, AnswerStored
      <4> QED
        BY <1>1, <4>1, <4>2 DEF TypeOK, EventRow
    <3>2. ASSUME events'[e].status = "READY", NEW x \in TxsOf(e)
          PROVE  \E t \in Threads :
                    loc'[t].at = "txReply" /\ loc'[t].ev = e /\ loc'[t].tx = x
      <4>1. events[e].status \in {"NONE", "READY"}
        BY <1>1, <1>2, <3>2, SettledStepHolds DEF SettledStep, NextStatus, TypeOK, EventRow,
           Statuses, Active, Terminal
      <4>2. events[e].status # "NONE"
        BY <1>1, <3>2 DEF TxInv
      <4> QED
        BY <3>1, <3>2, <4>1, <4>2
    <3>3. ASSUME events'[e] = events[e] PROVE Goal
      BY <1>1, <3>3 DEF TxInv
    <3>4. ASSUME Reserved(e) PROVE Goal
      BY <1>1, <3>4 DEF Reserved, Reserve, TypeOK, NoRow
    <3>5. ASSUME events[e].status = "READY", Failed(e) PROVE Goal
      <4>1. events'[e].status = "FAILED"
        BY <1>1, <3>5 DEF Failed, FailEvent, TypeOK, EventRow
      <4>2. TxsOf(e) = {}
        BY <3>1, <3>5, <4>1
      <4> QED
        BY <4>1, <4>2
    <3>6. ASSUME events[e].status = "SUBMITTED", txs[events[e].tx].state = "failed", Failed(e)
          PROVE  Goal
      <4>1. events'[e].status = "FAILED"
        BY <1>1, <3>6 DEF Failed, FailEvent, TypeOK, EventRow
      <4>2. TxsOf(e) = {events[e].tx}
        BY <1>1, <3>6 DEF TxInv
      <4> QED
        BY <3>6, <4>1, <4>2
    <3>7. ASSUME events[e].status = "SUBMITTED", Confirmed(e) PROVE Goal
      <4>1. events'[e].status = "CONFIRMED" /\ events'[e].tx = events[e].tx
        BY <1>1, <3>7 DEF Confirmed, TypeOK, EventRow
      <4>2. TxsOf(e) = {events[e].tx}
        BY <1>1, <3>7 DEF TxInv
      <4> QED
        BY <4>1, <4>2
    <3>8. ASSUME events[e].status = "READY", Submitted(e) PROVE Goal
      <4>1. PICK x \in Txs :
                /\ txs[x].ev = e
                /\ events' = [events EXCEPT ![e].status = "SUBMITTED", ![e].tx = x]
        BY <3>8 DEF Submitted
      <4>2. events'[e].status = "SUBMITTED" /\ events'[e].tx = x
        BY <1>1, <4>1 DEF TypeOK, EventRow
      <4>3. \A y \in TxsOf(e) : y = x
        BY <1>1, <4>1 DEF TxsOf, SubmittedOnce, Events
      <4> QED
        BY <4>1, <4>2, <4>3 DEF TxsOf
    <3>9. ASSUME events[e].status = "READY", Ordered(e) PROVE Goal
      <4>1. events'[e].status = "READY"
        BY <1>1, <3>9 DEF Ordered, TypeOK, EventRow
      <4> QED
        BY <4>1
    <3>10. ASSUME NEW d \in Events, d # e,
                  Reserved(d) \/ Failed(d) \/ Confirmed(d) \/ Submitted(d) \/ Ordered(d)
           PROVE  events'[e] = events[e]
      BY <1>1, <3>10 DEF Reserved, Reserve, Failed, FailEvent, Confirmed, Submitted,
                         Ordered, TypeOK
    <3>11. Goal
      BY <1>2, <3>3, <3>4, <3>5, <3>6, <3>7, <3>8, <3>9, <3>10 DEF SingleStep
    <3> QED
      BY <3>2, <3>11
  <2> QED
    BY <1>1, <1>3, <2>1, <2>2 DEF TxInv
<1>4. CASE \E x \in Txs, t \in Threads :
            /\ IsNewTx(x) /\ SubmitAccepted(t)
            /\ txs' = [txs EXCEPT ![x] = [ev |-> loc[t].ev, state |-> "pending"]]
            /\ loc'[t].at = "txReply" /\ loc'[t].ev = loc[t].ev /\ loc'[t].tx = x
            /\ events' = events
  <2>1. PICK x \in Txs, t \in Threads :
            /\ IsNewTx(x) /\ SubmitAccepted(t)
            /\ txs' = [txs EXCEPT ![x] = [ev |-> loc[t].ev, state |-> "pending"]]
            /\ loc'[t].at = "txReply" /\ loc'[t].ev = loc[t].ev /\ loc'[t].tx = x
            /\ events' = events
    BY <1>4
  <2>2. PICK e \in Events :
            e = loc[t].ev /\ events[e].status = "READY" /\ loc[t].at = "submit"
    BY <1>1, <2>1 DEF SubmitAccepted, LocOK, ThreadOK, Busy, CallOK
  <2>3. TxsOf(e) = {}
    BY <2>2, NoTxBefore
  <2>4. txs[x].ev = 0 /\ txs[x].state = "none"
    BY <1>1, <2>1 DEF IsNewTx, TxInv
  <2>5. TxsOf(e)' = {x} /\ \A d \in Events \ {e} : TxsOf(d)' = TxsOf(d)
    <3>1. txs'[x].ev = e /\ \A y \in Txs \ {x} : txs'[y] = txs[y]
      BY <1>1, <2>1, <2>2 DEF TypeOK
    <3>2. \A d \in Events : d # 0
      BY DEF Events
    <3>3. TxsOf(e)' = {x}
      BY <2>3, <3>1 DEF TxsOf
    <3>4. ASSUME NEW d \in Events, d # e PROVE TxsOf(d)' = TxsOf(d)
      BY <2>4, <3>1, <3>2, <3>4 DEF TxsOf
    <3> QED
      BY <3>3, <3>4
  <2>6. SubmittedOnce'
    <3>1. txs'[x].ev = e /\ \A y \in Txs \ {x} : txs'[y] = txs[y]
      BY <1>1, <2>1, <2>2 DEF TypeOK
    <3>2. \A y \in Txs : txs[y].ev # e
      BY <2>3 DEF TxsOf
    <3>3. \A y \in Txs \ {x} : txs'[y].ev # e
      BY <3>1, <3>2
    <3>4. \A y, z \in Txs \ {x} : txs'[y].ev = txs'[z].ev /\ txs'[y].ev # 0 => y = z
      BY <1>1, <3>1 DEF SubmittedOnce
    <3> QED
      BY <3>1, <3>3, <3>4 DEF SubmittedOnce
  <2>7. \A y \in Txs : txs'[y].state = "none" => txs'[y].ev = 0
    BY <1>1, <2>1, <2>2 DEF TxInv, TypeOK
  <2>8. \A d \in Events \ {e} : events[d].status = "READY" => TxsOf(d) = {}
    BY <2>2, NoTxBefore
  <2>9. \A d \in Events \ {e} : \A y \in TxsOf(d) : txs'[y] = txs[y]
    BY <1>1, <2>1, <2>2, <2>4 DEF TxsOf, TypeOK, Events
  <2> QED
    BY <1>1, <2>1, <2>2, <2>5, <2>6, <2>7, <2>8, <2>9 DEF TxInv
<1>5. ASSUME NEW x \in Txs, TxMine(x) \/ TxFail(x) PROVE TxInv' /\ SubmittedOnce'
  <2>1. txs[x].state = "pending" /\ UNCHANGED <<events, loc>>
    BY <1>5 DEF TxMine, TxFail, db
  <2>2. \E st \in {"done", "failed"} : txs' = [txs EXCEPT ![x].state = st]
    BY <1>5 DEF TxMine, TxFail
  <2>3. \A y \in Txs : /\ txs'[y].ev = txs[y].ev
                       /\ y # x => txs'[y].state = txs[y].state
                       /\ txs'[x].state # "none"
    BY <1>1, <2>2 DEF TypeOK, TxRow
  <2>4. \A e : TxsOf(e)' = TxsOf(e)
    BY <2>3 DEF TxsOf
  <2>5. \A e \in Events : events[e].status = "FAILED" => x \notin TxsOf(e)
    BY <1>1, <2>1 DEF TxInv
  <2>6. SubmittedOnce'
    BY <1>1, <2>3 DEF SubmittedOnce
  <2>7. \A y \in Txs : txs'[y].state = "none" => txs'[y].ev = 0
    BY <1>1, <2>3 DEF TxInv
  <2>8. \A e \in Events : events[e].status = "FAILED" =>
            \A y \in TxsOf(e) : txs'[y].state = "failed"
    BY <1>1, <2>3, <2>5 DEF TxInv, TxsOf
  <2> QED
    BY <1>1, <2>1, <2>4, <2>6, <2>7, <2>8 DEF TxInv
<1> QED
  <2>1. CASE \E x \in Txs : TxMine(x) \/ TxFail(x)
    BY <1>5, <2>1
  <2> QED
    BY <1>2, <1>3, <1>4, <2>1 DEF TxStep

LEMMA LInvariance == ASSUME Alone, Uninterrupted PROVE Spec => []LInv
<1>1. Init => LInv
  <2>1. Init => CallOK
    BY DEF Init, CallOK, Idle
  <2>2. ASSUME Init PROVE TxInv /\ SubmittedOnce
    <3>1. \A x \in Txs : txs[x].ev = 0
      BY <2>2 DEF Init
    <3>2. \A e \in Events : events[e].status = "NONE" /\ TxsOf(e) = {}
      BY <2>2, <3>1 DEF Init, NoRow, TxsOf, Events
    <3> QED
      BY <3>1, <3>2 DEF TxInv, SubmittedOnce
  <2> QED
    BY <2>1, <2>2, InitIInv DEF LInv, SInv
<1>2. LInv /\ [Next]_vars => LInv'
  <2> SUFFICES ASSUME LInv, [Next]_vars PROVE LInv'
    OBVIOUS
  <2>1. IInv'
    BY NextIInv DEF LInv, SInv
  <2>2. CallOK'
    BY CallStep DEF LInv, SInv, IInv
  <2>3. TxInv' /\ SubmittedOnce'
    BY TxInvStep
  <2> QED
    BY <2>1, <2>2, <2>3 DEF LInv, SInv
<1> QED
  BY <1>1, <1>2, PTL DEF Spec

\* _submit_merge: with the tick thread alone at work and every answer arriving, no
\* reservation is submitted twice, however the account and the snapshots change.
THEOREM MergeSubmittedOnce == ASSUME Alone, Uninterrupted PROVE Spec => []SubmittedOnce
<1>1. LInv => SubmittedOnce
  BY DEF LInv
<1> QED
  BY <1>1, LInvariance, PTL

-----------------------------------------------------------------------------
\* One thread and no interruption: one undecided FOK

\* A delayed FOK belongs to a READY row that knows of its order, or is about to:
\* so no such row is dropped, and the next operation waits for it.
FokInv ==
    /\ \A e \in Events : fok[e] = "delayed" =>
        /\ events[e].status = "READY" /\ events[e].route = "FOK_MERGE"
        /\ \/ events[e].order
           \/ \E t \in Threads : loc[t].at = "fokReply" /\ loc[t].ev = e
    /\ \A t \in Threads :
        /\ loc[t].at \in {"submit", "txReply", "fok", "upstream"} => fok[loc[t].ev] # "delayed"
        /\ loc[t].at \in {"fok", "fokReply"} => events[loc[t].ev].route = "FOK_MERGE"

\* Where a step leaves every row's part in FokInv as it is.
LEMMA FokFrame ==
    ASSUME Alone, FokInv, UNCHANGED <<events, loc>>,
           \A e \in Events : fok'[e] = "delayed" => fok[e] = "delayed",
           TypeOK, LocOK
    PROVE  FokInv'
<1>1. \A t \in Threads : loc[t].at \in Busy => loc[t].ev \in Events
  BY DEF LocOK, ThreadOK
<1> QED
  BY <1>1 DEF FokInv, Busy

\* Back in the loop, the thread holds no row: what is delayed must be stored.
LEMMA FokResume ==
    ASSUME TypeOK, NEW t \in Threads, Alone, loc'[t].at \in {"idle", "orders", "trades", "events", "route", "done"},
           \A e \in Events : fok'[e] = "delayed" =>
                events'[e].status = "READY" /\ events'[e].route = "FOK_MERGE" /\ events'[e].order
    PROVE  FokInv'
<1>1. Threads = {t}
  BY DEF Alone
<1> QED
  BY <1>1 DEF FokInv

\* The row of a thread that may drop it or submit it has no delayed FOK.
LEMMA FokFree ==
    ASSUME Alone, SInv, FokInv, NEW t \in Threads, loc[t].at \notin {"fokReply"},
           NEW e \in Events, fok[e] = "delayed"
    PROVE  events[e].status = "READY" /\ events[e].route = "FOK_MERGE" /\ events[e].order
<1>1. Threads = {t}
  BY DEF Alone
<1> QED
  BY <1>1 DEF FokInv

LEMMA FokStep ==
    ASSUME Alone, Uninterrupted, SInv, FokInv, [Next]_vars
    PROVE  FokInv'
<1>1. TypeOK /\ LocOK /\ CallOK
  BY DEF SInv, IInv
<1>2. CASE Still
  BY <1>1, <1>2, FokFrame DEF Still
<1>3. CASE Environment
  <2>1. UNCHANGED <<events, loc>>
    BY <1>3 DEF Environment, BuyFill, SellFill, OutsideSell, FokResolve, TxMine, TxFail, Crash,
                Uninterrupted, db
  <2>2. \A e \in Events : fok'[e] = "delayed" => fok[e] = "delayed"
    BY <1>1, <1>3 DEF Environment, BuyFill, SellFill, OutsideSell, FokResolve, TxMine, TxFail,
                Crash, world, TypeOK
  <2> QED
    BY <1>1, <2>1, <2>2, FokFrame
<1>4. ASSUME NEW t \in Threads, Step(t) PROVE FokInv'
  <2> DEFINE d == loc[t].ev
             Stored(e) == events'[e].status = "READY" /\ events'[e].route = "FOK_MERGE"
                            /\ events'[e].order
             InLoop == loc'[t].at \in {"idle", "orders", "trades", "events", "route", "done"}
  <2>1. Threads = {t}
    BY DEF Alone
  <2>2. ASSUME loc[t].at # "fokReply", InLoop, UNCHANGED <<events, fok>>
        PROVE  FokInv'
    BY <1>1, <2>2, FokFree, FokResume
  <2>3. ASSUME Resume(t) PROVE InLoop
    BY <1>1, <2>3 DEF Resume, TypeOK, Idle, Local
  <2>4. CASE ListOrders(t) \/ Reconcile(t) \/ ReadTrades(t) \/ EndTick(t)
    BY <1>1, <2>2, <2>4 DEF ListOrders, Reconcile, ReadTrades, EndTick, TypeOK, Local, Idle, world, db
  <2>5. CASE NoActiveRow(t) \/ SkipRow(t) \/ SubmitRaised(t) \/ UpstreamExit(t)
    <3>1. loc[t].at # "fokReply" /\ Resume(t) /\ UNCHANGED <<events, fok>>
      BY <2>5 DEF NoActiveRow, SkipRow, SubmitRaised, UpstreamExit, world, db
    <3> QED
      BY <2>2, <2>3, <3>1
  <2>6. CASE SubmitLost(t)
    BY <2>6 DEF SubmitLost, Uninterrupted
  <2>7. CASE ReadRow(t)
    <3>1. loc'[t].at = "row" /\ loc[t].at = "events" /\ UNCHANGED <<events, fok>>
      BY <1>1, <2>7 DEF ReadRow, TypeOK, Local, world, db
    <3> QED
      BY <1>1, <2>1, <3>1, FokFree DEF FokInv
  \* A row is dropped, and it is not one whose FOK is delayed.
  <2>8. ASSUME loc[t].at # "fokReply", d \in Events, InLoop,
               \A e \in Events : fok'[e] = "delayed" => fok[e] = "delayed" /\ e # d,
               \A e \in Events \ {d} : events'[e] = events[e]
        PROVE  FokInv'
    <3>1. \A e \in Events : fok'[e] = "delayed" => Stored(e)
      BY <2>8, FokFree
    <3> QED
      BY <1>1, <2>8, <3>1, FokResume
  \* The thread goes on to submit a row whose FOK is not delayed.
  <2>9. ASSUME loc[t].at # "fokReply", UNCHANGED <<events, fok>>, d \in Events,
               loc'[t].at \in {"submit", "txReply", "upstream"}, loc'[t].ev = d, fok[d] # "delayed"
        PROVE  FokInv'
    <3>1. \A e \in Events : fok'[e] = "delayed" => Stored(e)
      BY <2>9, FokFree
    <3> QED
      BY <2>1, <2>9, <3>1 DEF FokInv
  <2>10. ASSUME BeginSubmit(t) PROVE loc'[t].at = "submit" /\ loc'[t].ev = d /\ UNCHANGED <<events, fok>>
    BY <1>1, <2>10 DEF BeginSubmit, GoTo, TypeOK, Local, db
  <2>11. ASSUME FailRow(t), d \in Events
         PROVE  InLoop /\ fok' = fok /\ \A e \in Events \ {d} : events'[e] = events[e]
    BY <1>1, <2>3, <2>11 DEF FailRow, FailEvent, TypeOK, world
  <2>12. CASE RetryReady(t)
    <3>1. loc[t].at = "row" /\ d \in Events /\ loc[t].row = events[d]
      BY <1>1, <2>12 DEF RetryReady, LocOK, ThreadOK, Busy, CallOK
    <3>2. fok[d] # "delayed"
      BY <2>12, <3>1, FokFree DEF RetryReady
    <3>3. BeginSubmit(t) \/ FailRow(t)
      BY <2>12 DEF RetryReady
    <3> QED
      BY <2>8, <2>9, <2>10, <2>11, <3>1, <3>2, <3>3
  <2>13. CASE QueryFok(t)
    <3>1. loc[t].at = "row" /\ d \in Events
      BY <1>1, <2>13 DEF QueryFok, LocOK, ThreadOK, Busy
    <3>2. \/ fok[d] # "delayed" /\ (BeginSubmit(t) \/ FailRow(t))
          \/ Resume(t) /\ UNCHANGED <<events, fok>>
      BY <2>13 DEF QueryFok, world, db
    <3> QED
      BY <2>2, <2>3, <2>8, <2>9, <2>10, <2>11, <3>1, <3>2
  <2>14. CASE PollMerge(t) \/ PollTimeout(t)
    <3>1. loc[t].at = "row" /\ d \in Events /\ events[d].status = "SUBMITTED"
      BY <1>1, <2>14 DEF PollMerge, PollTimeout, LocOK, ThreadOK, Busy, CallOK
    <3>2. fok[d] # "delayed"
      BY <3>1, FokFree
    <3>3. /\ Resume(t) /\ fok' = fok
          /\ FailEvent(d) \/ FinalizeConfirmed(d) \/ events' = events
      BY <2>14 DEF PollMerge, PollTimeout, FailRow, world, db
    <3>4. \A e \in Events \ {d} : events'[e] = events[e]
      BY <1>1, <3>3 DEF FailEvent, FinalizeConfirmed, TypeOK
    <3> QED
      BY <2>3, <2>8, <3>1, <3>2, <3>3, <3>4
  <2>15. CASE SubmitNoId(t) \/ FokRejected(t)
    <3>1. loc[t].at \in {"submit", "fok"} /\ d \in Events /\ fok[d] # "delayed"
      BY <1>1, <2>15 DEF SubmitNoId, FokRejected, LocOK, ThreadOK, Busy, FokInv
    <3>2. Resume(t) /\ FailEvent(d)
      BY <2>15 DEF SubmitNoId, FokRejected, FailRow
    <3>3. fok' = fok \/ fok' = [fok EXCEPT ![d] = "dead"]
      BY <2>15 DEF SubmitNoId, FokRejected, FailRow, world
    <3>4. \A e \in Events : fok'[e] = "delayed" => fok[e] = "delayed" /\ e # d
      BY <1>1, <3>1, <3>3 DEF TypeOK
    <3>5. \A e \in Events \ {d} : events'[e] = events[e]
      BY <1>1, <3>2 DEF FailEvent, TypeOK
    <3> QED
      BY <2>3, <2>8, <3>1, <3>2, <3>4, <3>5
  <2>16. CASE SubmitAccepted(t)
    <3>1. loc[t].at = "submit" /\ d \in Events /\ fok[d] # "delayed"
      BY <1>1, <2>16 DEF SubmitAccepted, LocOK, ThreadOK, Busy, FokInv
    <3>2. loc'[t].at = "txReply" /\ loc'[t].ev = d /\ UNCHANGED <<events, fok>>
      BY <1>1, <2>16 DEF SubmitAccepted, TypeOK, Local, db
    <3> QED
      BY <2>9, <3>1, <3>2
  <2>17. CASE RecordTx(t)
    <3>1. loc[t].at = "txReply" /\ d \in Events /\ fok[d] # "delayed"
      BY <1>1, <2>17 DEF RecordTx, LocOK, ThreadOK, Busy, FokInv
    <3>2. Resume(t) /\ fok' = fok
      BY <2>17 DEF RecordTx, world
    <3>3. \A e \in Events \ {d} : events'[e] = events[e]
      BY <1>1, <2>17 DEF RecordTx, TypeOK
    <3> QED
      BY <2>3, <2>8, <3>1, <3>2, <3>3
  <2>18. CASE FokAccepted(t)
    <3>1. loc[t].at = "fok" /\ d \in Events /\ events[d].status = "READY"
                /\ events[d].route = "FOK_MERGE"
      BY <1>1, <2>18 DEF FokAccepted, LocOK, ThreadOK, Busy, CallOK, FokInv
    <3>2. loc'[t].at = "fokReply" /\ loc'[t].ev = d /\ events' = events
      BY <1>1, <2>18 DEF FokAccepted, GoTo, TypeOK, Local, db
    <3>3. \A e \in Events \ {d} : fok'[e] = fok[e]
      BY <1>1, <2>18 DEF FokAccepted, AcceptFok, TypeOK
    <3>4. \A e \in Events \ {d} : fok'[e] = "delayed" => Stored(e)
      BY <3>1, <3>2, <3>3, FokFree
    <3> QED
      BY <2>1, <3>1, <3>2, <3>4 DEF FokInv
  <2>19. CASE FokRaised(t)
    <3>1. loc[t].at = "fok" /\ d \in Events /\ fok[d] # "delayed"
      BY <1>1, <2>19 DEF FokRaised, LocOK, ThreadOK, Busy, FokInv
    <3>2. loc'[t].at = "upstream" /\ loc'[t].ev = d /\ UNCHANGED <<events, fok>>
      BY <1>1, <2>19 DEF FokRaised, GoTo, TypeOK, Local, db, Uninterrupted
    <3> QED
      BY <2>9, <3>1, <3>2
  <2>20. CASE RecordFok(t)
    <3>1. loc[t].at = "fokReply" /\ d \in Events /\ events' = [events EXCEPT ![d].order = TRUE]
                /\ Resume(t) /\ fok' = fok
      BY <1>1, <2>20 DEF RecordFok, LocOK, ThreadOK, Busy, world
    <3>2. ASSUME NEW e \in Events, fok[e] = "delayed" PROVE Stored(e)
      <4>1. events[e].status = "READY" /\ events[e].route = "FOK_MERGE" /\ (events[e].order \/ e = d)
        BY <2>1, <3>1, <3>2 DEF FokInv
      <4> QED
        BY <1>1, <3>1, <4>1 DEF TypeOK, EventRow
    <3> QED
      BY <1>1, <2>3, <3>1, <3>2, FokResume
  <2>21. ASSUME NEW s \in Sides, Route(t, s) PROVE FokInv'
    <3>1. CASE RouteNothing(t, s) \/ RouteMaker(t, s) \/ RouteFak(t, s)
      BY <1>1, <2>2, <3>1 DEF RouteNothing, RouteMaker, RouteFak, Routable, Begin, TypeOK, Local,
                world, db
    <3>2. ASSUME NEW e \in Events, NEW p \in {"submit", "fok"}, NEW r \in Routes, NEW q \in Nat,
                 p = "fok" => r = "FOK_MERGE",
                 loc[t].at = "route", Reserve(e, r, s, q), Begin(t, s, p, e), fok' = fok
          PROVE  FokInv'
      <4>1. loc'[t].at = p /\ loc'[t].ev = e /\ events'[e].route = r
        BY <1>1, <3>2 DEF Reserve, Begin, TypeOK, Local, NoRow
      <4>2. \A f \in Events \ {e} : events'[f] = events[f]
        BY <1>1, <3>2 DEF Reserve, TypeOK
      <4>3. fok[e] # "delayed"
        BY <3>2, FokFree DEF Reserve, IsNewEvent
      <4>4. \A f \in Events : fok[f] = "delayed" => Stored(f)
        BY <3>2, <4>2, <4>3, FokFree
      <4> QED
        BY <2>1, <3>2, <4>1, <4>3, <4>4 DEF FokInv
    <3>3. CASE RoutePair(t, s)
      BY <1>1, <3>2, <3>3, Quantities DEF RoutePair, Routable, Routes
    <3>4. CASE RouteFok(t, s)
      BY <1>1, <3>2, <3>4, Quantities DEF RouteFok, Routable, Routes
    <3> QED
      BY <2>21, <3>1, <3>3, <3>4 DEF Route
  <2> QED
    BY <1>4, <2>4, <2>5, <2>6, <2>7, <2>12, <2>13, <2>14, <2>15, <2>16, <2>17, <2>18, <2>19,
       <2>20, <2>21 DEF Step, Submit
<1> QED
  BY <1>2, <1>3, <1>4, StillSteps DEF Next

\* No second FOK is sent while the first one is undecided, however long it stays
\* delayed and whatever the account does meanwhile, as long as the process stays
\* up and every answer arrives.
THEOREM OneUndecidedFok == ASSUME Alone, Uninterrupted PROVE Spec => []OneLiveFok
<1>1. Init => FokInv
  BY DEF Init, FokInv, Idle
<1>2. SInv /\ FokInv /\ [Next]_vars => FokInv'
  BY FokStep
<1>3. SInv /\ FokInv => OneLiveFok
  BY DEF SInv, IInv, OneActive, ActiveEvents, Active, FokInv, OneLiveFok
<1> QED
  BY <1>1, <1>2, <1>3, SInvariance, PTL DEF Spec

-----------------------------------------------------------------------------
\* The refinement

\* A row whose status and whose transactions stay keeps its stage.
LEMMA StageFrame ==
    ASSUME NEW e \in Events, events'[e].status = events[e].status, Burnt(e)' = Burnt(e)
    PROVE  StageOf(e)' = StageOf(e)
BY DEF StageOf

\* One row moves, the others stay.
LEMMA OneMoves ==
    ASSUME NEW e \in Events, NEW a, NEW b, StageOf(e) = a, StageOf(e)' = b,
           \A d \in Events \ {e} : StageOf(d)' = StageOf(d)
    PROVE  Ledger!Move(e, a, b)
<1>1. Stage[e] = a
  BY DEF Stage
<1>2. Stage' = [Stage EXCEPT ![e] = b]
  BY DEF Stage
<1> QED
  BY <1>1, <1>2 DEF Ledger!Move

\* A step of the table moves one row at most, as the ledger allows.
LEMMA TableRefines ==
    ASSUME LInv, LInv', SingleStep, txs' = txs
    PROVE  [Ledger!Next]_Stage
<1>1. TypeOK /\ TxInv /\ TxInv'
  BY DEF LInv, SInv, IInv
<1>2. \A e : Burnt(e)' = Burnt(e)
  BY DEF Burnt
<1>3. ASSUME NEW e \in Events,
             Reserved(e) \/ Failed(e) \/ Confirmed(e) \/ Submitted(e) \/ Ordered(e)
      PROVE  \A d \in Events \ {e} : StageOf(d)' = StageOf(d)
  <2>1. \A d \in Events \ {e} : events'[d] = events[d]
    BY <1>1, <1>3 DEF Reserved, Reserve, Failed, FailEvent, Confirmed, Submitted, Ordered,
                      TypeOK
  <2> QED
    BY <1>2, <2>1, StageFrame
<1>4. CASE events' = events
  BY <1>2, <1>4, StageFrame DEF Stage
<1>5. ASSUME NEW e \in Events, Reserved(e) PROVE Ledger!Next
  <2>1. events[e].status = "NONE" /\ events'[e].status = "READY"
    BY <1>1, <1>5 DEF Reserved, Reserve, IsNewEvent, TypeOK, NoRow
  <2>2. ~Burnt(e)
    BY <1>1, <2>1 DEF TxInv, TxsOf, Burnt
  <2>3. StageOf(e) = "unused" /\ StageOf(e)' = "reserved"
    BY <1>2, <2>1, <2>2 DEF StageOf, Active
  <2>4. Ledger!Open = {}
    <3>1. \A d \in Events : events[d].status \notin Active
      BY <1>5 DEF Reserved, ActiveEvents
    <3>2. \A d \in Events : StageOf(d) \notin {"reserved", "burnt"}
      BY <3>1 DEF StageOf
    <3> QED
      BY <3>2 DEF Ledger!Open, Stage
  <2> QED
    BY <1>3, <1>5, <2>3, <2>4, OneMoves DEF Ledger!Next, Ledger!Reserve
<1>6. ASSUME NEW e \in Events, Failed(e),
             \/ events[e].status = "READY"
             \/ events[e].status = "SUBMITTED" /\ txs[events[e].tx].state = "failed"
      PROVE  Ledger!Next
  <2>1. events'[e].status = "FAILED"
    BY <1>1, <1>6 DEF Failed, FailEvent, TypeOK, EventRow
  <2>2. ~Burnt(e)
    <3>1. \A x \in TxsOf(e)' : txs'[x].state = "failed"
      BY <1>1, <2>1 DEF TxInv
    <3> QED
      BY <3>1 DEF TxsOf, Burnt
  <2>3. StageOf(e) = "reserved" /\ StageOf(e)' = "void"
    BY <1>2, <1>6, <2>1, <2>2 DEF StageOf, Active
  <2> QED
    BY <1>3, <1>6, <2>3, OneMoves DEF Ledger!Next, Ledger!Drop
<1>7. ASSUME NEW e \in Events, Confirmed(e), events[e].status = "SUBMITTED"
      PROVE  Ledger!Next
  <2>1. events'[e].status = "CONFIRMED"
    BY <1>1, <1>7 DEF Confirmed, TypeOK, EventRow
  <2>2. CASE Burnt(e)
    <3>1. StageOf(e) = "burnt" /\ StageOf(e)' = "booked"
      BY <1>2, <1>7, <2>1, <2>2 DEF StageOf, Active
    <3> QED
      BY <1>3, <1>7, <3>1, OneMoves DEF Ledger!Next, Ledger!Book
  <2>3. CASE ~Burnt(e)
    <3>1. StageOf(e) = "reserved" /\ StageOf(e)' = "presumed"
      BY <1>2, <1>7, <2>1, <2>3 DEF StageOf, Active
    <3> QED
      BY <1>3, <1>7, <3>1, OneMoves DEF Ledger!Next, Ledger!Presume
  <2> QED
    BY <2>2, <2>3
<1>8. ASSUME NEW e \in Events, Submitted(e) \/ Ordered(e), events[e].status = "READY"
      PROVE  UNCHANGED Stage
  <2>1. events'[e].status \in Active
    BY <1>1, <1>8 DEF Submitted, Ordered, TypeOK, EventRow, Active
  <2>2. StageOf(e)' = StageOf(e)
    BY <1>2, <1>8, <2>1 DEF StageOf, Active
  <2>3. \A d \in Events : StageOf(d)' = StageOf(d)
    BY <1>3, <1>8, <2>2
  <2> QED
    BY <2>3 DEF Stage
<1> QED
  BY <1>4, <1>5, <1>6, <1>7, <1>8 DEF SingleStep

\* A transaction that is mined moves its row; one that is submitted or reverts
\* moves none.
LEMMA TxRefines ==
    ASSUME LInv, TxStep, txs' # txs
    PROVE  [Ledger!Next]_Stage
<1>1. TypeOK /\ LocOK /\ TxInv /\ SubmittedOnce /\ TxsOK
  BY DEF LInv, SInv, IInv
<1>2. ASSUME events' = events, \A e \in Events : Burnt(e)' = Burnt(e)
      PROVE  UNCHANGED Stage
  BY <1>2, StageFrame DEF Stage
<1>3. ASSUME NEW x \in Txs, NEW t \in Threads, IsNewTx(x), SubmitAccepted(t),
             txs' = [txs EXCEPT ![x] = [ev |-> loc[t].ev, state |-> "pending"]],
             events' = events
      PROVE  UNCHANGED Stage
  <2>1. txs[x].state = "none" /\ txs'[x].state = "pending"
    BY <1>1, <1>3 DEF IsNewTx, TypeOK
  <2>2. \A y \in Txs \ {x} : txs'[y] = txs[y]
    BY <1>1, <1>3 DEF TypeOK
  <2> QED
    BY <1>2, <1>3, <2>1, <2>2 DEF Burnt
<1>4. ASSUME NEW x \in Txs, TxFail(x) PROVE UNCHANGED Stage
  <2>1. txs[x].state = "pending" /\ txs'[x].state = "failed" /\ events' = events
    BY <1>1, <1>4 DEF TxFail, TypeOK, TxRow, db
  <2>2. \A y \in Txs \ {x} : txs'[y] = txs[y]
    BY <1>1, <1>4 DEF TxFail, TypeOK
  <2> QED
    BY <1>2, <2>1, <2>2 DEF Burnt
<1>5. ASSUME NEW x \in Txs, TxMine(x) PROVE Ledger!Next
  <2>1. PICK e \in Events : txs[x].ev = e
    BY <1>1, <1>5 DEF TxMine, TxsOK
  <2>2. /\ txs[x].state = "pending" /\ events' = events
        /\ txs'[x].state = "done" /\ txs'[x].ev = e
    BY <1>1, <1>5, <2>1 DEF TxMine, TypeOK, TxRow, db
  <2>3. \A y \in Txs \ {x} : txs'[y] = txs[y]
    BY <1>1, <1>5 DEF TxMine, TypeOK
  <2>4. \A y \in Txs : txs[y].ev = e => y = x
    BY <1>1, <2>1 DEF SubmittedOnce, Events
  <2>5. ~Burnt(e) /\ Burnt(e)'
    BY <2>2, <2>4 DEF Burnt
  <2>6. \A d \in Events \ {e} : StageOf(d)' = StageOf(d)
    BY <2>1, <2>2, <2>3, StageFrame DEF Burnt
  <2>7. events[e].status \in Active \cup {"CONFIRMED"}
    BY <1>1, <2>1, <2>2 DEF TxInv, TxsOf, TypeOK, EventRow, Statuses, Terminal
  <2>8. CASE events[e].status \in Active
    <3>1. StageOf(e) = "reserved" /\ StageOf(e)' = "burnt"
      BY <2>2, <2>5, <2>8 DEF StageOf, Active
    <3> QED
      BY <2>6, <3>1, OneMoves DEF Ledger!Next, Ledger!Burn
  <2>9. CASE events[e].status = "CONFIRMED"
    <3>1. StageOf(e) = "presumed" /\ StageOf(e)' = "booked"
      BY <2>2, <2>5, <2>9 DEF StageOf, Active
    <3> QED
      BY <2>6, <3>1, OneMoves DEF Ledger!Next, Ledger!Burn
  <2> QED
    BY <2>7, <2>8, <2>9
<1>6. CASE \E x \in Txs, t \in Threads :
            /\ IsNewTx(x) /\ SubmitAccepted(t)
            /\ txs' = [txs EXCEPT ![x] = [ev |-> loc[t].ev, state |-> "pending"]]
            /\ events' = events
  BY <1>3, <1>6
<1>7. CASE \E x \in Txs : TxMine(x) \/ TxFail(x)
  BY <1>4, <1>5, <1>7
<1> QED
  BY <1>6, <1>7 DEF TxStep

LEMMA StepRefines ==
    ASSUME Uninterrupted, LInv, LInv', [Next]_vars
    PROVE  [Ledger!Next]_Stage
<1>1. SingleStep /\ TxStep
  BY SingleChange, TxStepHolds DEF LInv, SInv, IInv
<1> QED
  BY <1>1, TableRefines, TxRefines

\* With the tick thread alone at work and every answer arriving, every behaviour of
\* the router is one of the ledger, whatever the account and its snapshots do: what
\* was burnt on chain is booked once and never dropped, and what was dropped was
\* never burnt.  A row may also be booked on the presumption that it was burnt.
THEOREM RouterImplementsLedger ==
    ASSUME Alone, Uninterrupted
    PROVE  Spec => ImplementsLedger
<1>1. Init => Ledger!Init
  <2> SUFFICES ASSUME Init PROVE Ledger!Init
    OBVIOUS
  <2>1. \A e \in Events : events[e].status = "NONE"
    BY DEF Init, NoRow
  <2>2. \A e \in Events : StageOf(e) = "unused"
    BY <2>1 DEF StageOf, Active
  <2> QED
    BY <2>2 DEF Ledger!Init, Stage
<1>2. LInv /\ LInv' /\ [Next]_vars => [Ledger!Next]_Stage
  BY StepRefines
<1> QED
  BY <1>1, <1>2, LInvariance, PTL DEF Spec, ImplementsLedger, Ledger!Spec

=============================================================================
