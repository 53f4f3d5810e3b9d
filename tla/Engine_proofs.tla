---------------------------- MODULE Engine_proofs ----------------------------
(***************************************************************************)
(* Proofs about Engine: its types for every Env and any number of request  *)
(* threads; one scanner loop, one monitor per wallet and no unwatched buys *)
(* under the assumptions that each of them needs.                          *)
(***************************************************************************)
EXTENDS Engine, TLAPS

\* A thread at work on one wallet has named it, and the worker it waits for.
AtWork == {"placing", "build", "joinMonitor", "cancel"}
WalletNamed ==
    \A t \in Threads :
        /\ th[t].at \in AtWork => th[t].wallet \in Wallets
        /\ th[t].at = "joinMonitor" => th[t].slot \in Monitors
TInv == TypeOK /\ WalletNamed

LEMMA GoneType == Gone \in Thread
BY DEF Gone, Thread, Pools

LEMMA InitTypes == Init => TInv
<1>. SUFFICES ASSUME Init PROVE TInv
    OBVIOUS
<1>1. th \in [Threads -> Thread]
    BY GoneType DEF Init
<1>2. WalletNamed
    BY DEF Init, WalletNamed, AtWork, Gone
<1>3. monitor \in [Wallets -> [Monitors -> {"none", "on", "told"}]]
    BY DEF Init
<1>4. scans \in [Scans -> Scan] /\ pool \in Pools
    BY DEF Init, Scan, Pools
<1>5. /\ engines \in [Wallets -> {0} \cup Monitors]
      /\ stopEvent \in BOOLEAN /\ scanner \in Scanners \cup {None}
    BY DEF Init
<1>6. saved \in Nat /\ status \in BOOLEAN /\ scannerApi \in BOOLEAN /\ buys \subseteq Wallets
    BY DEF Init
<1>7. generation \in 0..MaxScans
    <2>1. MaxScans \in Nat /\ generation = 0
        BY ThreadsAssumption DEF Init
    <2>. QED
        BY <2>1
<1>. QED
    BY <1>1, <1>2, <1>3, <1>4, <1>5, <1>6, <1>7 DEF TInv, TypeOK

\* A thread that moves to well-typed locals keeps everybody's types.
LEMMA GoesTyped ==
    ASSUME TInv, NEW t \in Threads, NEW l \in Thread, Goes(t, l),
           l.at \in AtWork => l.wallet \in Wallets,
           l.at = "joinMonitor" => l.slot \in Monitors
    PROVE  th' \in [Threads -> Thread] /\ WalletNamed'
BY DEF TInv, TypeOK, WalletNamed, Goes

LEMMA ScansTyped ==
    ASSUME TInv,
           \/ StartScan
           \/ \E g \in Scans : ScanStep(g) \/ ScanFound(g)
    PROVE  TInv'
<1>1. TypeOK /\ WalletNamed
    BY DEF TInv
<1>2. \A p \in Pools : Grown(p) \in Pools
    BY DEF Grown, Pools
<1>3. CASE StartScan
    <2>1. generation + 1 \in Scans
        BY <1>1, <1>3, ThreadsAssumption DEF StartScan, TypeOK, Scans
    <2>2. scans' \in [Scans -> Scan]
        BY <1>1, <1>3, <2>1 DEF StartScan, TypeOK, Scan
    <2>. QED
        BY <1>1, <1>3, <2>1, <2>2, ThreadsAssumption
           DEF StartScan, TInv, TypeOK, WalletNamed, lifeVars, Scans
<1>4. CASE \E g \in Scans : ScanFound(g)
    BY <1>1, <1>2, <1>4 DEF ScanFound, TInv, TypeOK, WalletNamed, lifeVars, scanVars
<1>5. CASE \E g \in Scans : ScanStep(g)
    <2>1. PICK g \in Scans : ScanStep(g)
        BY <1>5
    <2>2. UNCHANGED <<lifeVars, generation, th, buys>>
        BY <2>1 DEF ScanStep, ScanWithoutApi, ScanBegin, ScanSuperseded, ScanFails, ScanDone, ScanChecks,
                    ScanSave, ScanEnd, lifeVars
    <2>3. scans' \in [Scans -> Scan] /\ saved' \in Nat
        BY <1>1, <2>1, ThreadsAssumption
           DEF ScanStep, ScanWithoutApi, ScanBegin, ScanSuperseded, ScanFails, ScanDone, ScanChecks,
               ScanSave, ScanEnd, ScanGoes, TypeOK, Scan, Pools, Scans
    <2>4. pool' \in Pools /\ status' \in BOOLEAN /\ scannerApi' \in BOOLEAN
        BY <1>1, <2>1
           DEF ScanStep, ScanWithoutApi, ScanBegin, ScanSuperseded, ScanFails, ScanDone, ScanChecks,
               ScanSave, ScanEnd, TypeOK, Scan, Pools, Blank, Commit, Restore
    <2>. QED
        BY <1>1, <2>2, <2>3, <2>4 DEF TInv, TypeOK, WalletNamed, lifeVars
<1>. QED
    BY <1>3, <1>4, <1>5

LEMMA LoopTyped ==
    ASSUME TInv, NEW s \in Scanners, LoopStep(s) \/ DiscoveryFound(s)
    PROVE  TInv'
<1>1. TypeOK /\ WalletNamed /\ s \in Threads /\ th[s] \in Thread
    BY DEF TInv, TypeOK, Threads
<1>2. CASE DiscoveryFound(s)
    BY <1>1, <1>2 DEF DiscoveryFound, Grown, Pools, TInv, TypeOK, WalletNamed, lifeVars, scanVars
<1>3. CASE LoopStep(s)
    <2>1. UNCHANGED <<lifeVars, saved, generation, scannerApi, scans, buys>>
        BY <1>3 DEF LoopStep, LoopEnds, LoopDiscovers, LoopPlaces, DiscoveryEnds, RoundBegins,
                    RoundSkipped, lifeVars, scanVars
    <2>2. pool' \in Pools /\ status' \in BOOLEAN
        BY <1>1, <1>3
           DEF LoopStep, LoopEnds, LoopDiscovers, LoopPlaces, DiscoveryEnds, RoundBegins,
               RoundSkipped, scanVars, TypeOK, Pools, Thread, Blank, Commit, Restore
    <2>3. PICK l \in Thread : Goes(s, l) /\ l.at \notin AtWork
        <3>1. CASE LoopEnds(s)
            BY <3>1, GoneType DEF LoopEnds, Returns, Gone, AtWork
        <3>2. CASE LoopDiscovers(s)
            <4>1. [th[s] EXCEPT !.at = "discover", !.prev = pool] \in Thread
                BY <1>1 DEF TypeOK, Thread
            <4>. QED
                BY <3>2, <4>1 DEF LoopDiscovers, AtWork, Thread
        <3>3. CASE LoopPlaces(s)
            BY <1>1, <3>3 DEF LoopPlaces, Thread, AtWork
        <3>4. CASE DiscoveryEnds(s)
            BY <3>4, GoneType DEF DiscoveryEnds, Gone, Thread, AtWork
        <3>5. CASE RoundBegins(s)
            <4>1. Running \in SUBSET Wallets
                BY DEF Running
            <4>2. [th[s] EXCEPT !.at = "place", !.todo = Running] \in Thread
                BY <1>1, <4>1 DEF Thread
            <4>. QED
                BY <3>5, <4>2 DEF RoundBegins, AtWork, Thread
        <3>6. CASE RoundSkipped(s)
            BY <1>1, <3>6 DEF RoundSkipped, Thread, AtWork
        <3>. QED
            BY <1>3, <3>1, <3>2, <3>3, <3>4, <3>5, <3>6 DEF LoopStep
    <2>4. th' \in [Threads -> Thread] /\ WalletNamed'
        BY <1>1, <2>3, GoesTyped DEF AtWork
    <2>. QED
        BY <1>1, <2>1, <2>2, <2>4 DEF TInv, TypeOK, lifeVars
<1>. QED
    BY <1>2, <1>3

LEMMA PlaceTyped ==
    ASSUME TInv, NEW t \in Threads, PlaceStep(t) \/ Placing(t)
    PROVE  TInv'
<1>1. TypeOK /\ WalletNamed /\ th[t] \in Thread
    BY DEF TInv, TypeOK
<1>2. CASE Placing(t)
    BY <1>1, <1>2 DEF Placing, TInv, TypeOK, WalletNamed, AtWork, lifeVars, scanVars
<1>3. CASE PlaceStep(t)
    <2>1. UNCHANGED <<lifeVars, pool, scanVars, buys>>
        BY <1>3 DEF PlaceStep, PlaceWallet, WalletPlaced, PlaceEnds
    <2>2. PICK l \in Thread : Goes(t, l) /\ l.at # "joinMonitor" /\
                              (l.at \in AtWork => l.wallet \in Wallets)
        <3>1. CASE PlaceWallet(t)
            <4>1. PICK w \in th[t].todo :
                    Goes(t, IF w \in Running THEN [th[t] EXCEPT !.at = "placing", !.wallet = w]
                            ELSE [th[t] EXCEPT !.todo = @ \ {w}])
                BY <3>1 DEF PlaceWallet
            <4>2. w \in Wallets /\ th[t].at = "place"
                BY <1>1, <3>1, <4>1 DEF PlaceWallet, Thread
            <4>3. [th[t] EXCEPT !.at = "placing", !.wallet = w] \in Thread
                BY <1>1, <4>2 DEF Thread
            <4>4. [th[t] EXCEPT !.todo = @ \ {w}] \in Thread
                BY <1>1 DEF Thread
            <4>5. CASE w \in Running
                BY <4>1, <4>2, <4>3, <4>5 DEF Thread
            <4>6. CASE w \notin Running
                BY <4>1, <4>2, <4>4, <4>6 DEF Thread, AtWork
            <4>. QED
                BY <4>5, <4>6
        <3>2. CASE WalletPlaced(t)
            <4>1. [th[t] EXCEPT !.at = "place", !.todo = @ \ {th[t].wallet}, !.wallet = None]
                    \in Thread
                BY <1>1 DEF Thread
            <4>. QED
                BY <3>2, <4>1 DEF WalletPlaced, AtWork, Thread
        <3>3. CASE PlaceEnds(t)
            BY <3>3, GoneType DEF PlaceEnds, Returns, Gone, Thread, AtWork
        <3>. QED
            BY <1>3, <3>1, <3>2, <3>3 DEF PlaceStep
    <2>3. th' \in [Threads -> Thread] /\ WalletNamed'
        BY <2>2, GoesTyped
    <2>. QED
        BY <1>1, <2>1, <2>3 DEF TInv, TypeOK, lifeVars, scanVars
<1>. QED
    BY <1>2, <1>3

LEMMA RequestTyped ==
    ASSUME TInv, NEW r \in Routes, Request(r)
    PROVE  TInv'
<1>1. TypeOK /\ WalletNamed /\ r \in Threads
    BY DEF TInv, Threads
<1>2. UNCHANGED <<engines, monitor, scanner, scanVars, buys>>
    BY DEF Request, PlaceAll, CancelAll, StartAll, StartMonitors, StopAll, TestPlace, StopOne,
           lifeVars
<1>3. stopEvent' \in BOOLEAN /\ pool' \in Pools
    BY <1>1 DEF Request, PlaceAll, CancelAll, StartAll, StartMonitors, StopAll, TestPlace, StopOne,
                lifeVars, TypeOK, Pools
<1>4. Running \in SUBSET Wallets
    BY DEF Running
<1>5. PICK l \in Thread : Goes(r, l) /\ l.at # "joinMonitor" /\
                          (l.at \in AtWork => l.wallet \in Wallets)
    <2>1. \A at \in {"place", "cancelAll"} : [Gone EXCEPT !.at = at, !.todo = Running] \in Thread
        BY <1>4, GoneType DEF Gone, Thread
    <2>2. \A op \in {"all", "monitors", "stop", "restart"}, ws \in SUBSET Wallets :
            /\ [Gone EXCEPT !.at = "start", !.op = op, !.todo = ws] \in Thread
            /\ [Gone EXCEPT !.at = "stop", !.op = op, !.todo = ws] \in Thread
            /\ [Gone EXCEPT !.at = "join", !.op = op] \in Thread
        BY GoneType DEF Gone, Thread
    <2>3. \A w \in Wallets : [Gone EXCEPT !.at = "placing", !.wallet = w] \in Thread
        BY GoneType DEF Gone, Thread
    <2>4. CASE PlaceAll(r)
        BY <2>1, <2>4 DEF PlaceAll, AtWork, Gone
    <2>5. CASE CancelAll(r)
        BY <2>1, <2>5 DEF CancelAll, AtWork, Gone
    <2>6. CASE StartAll(r)
        <3>1. [Gone EXCEPT !.at = "start", !.op = "all", !.todo = Wallets] \in Thread
            BY <2>2
        <3>. QED
            BY <2>6, <3>1 DEF StartAll, Starting, AtWork, Gone
    <2>7. CASE StartMonitors(r)
        <3>1. PICK ws \in SUBSET Wallets : Starting(r, "monitors", ws)
            BY <2>7 DEF StartMonitors
        <3>. QED
            BY <2>2, <3>1 DEF Starting, AtWork, Gone
    <2>8. CASE \E op \in {"stop", "restart"} : StopAll(r, op)
        BY <2>2, <2>8 DEF StopAll, AtWork, Gone
    <2>9. CASE \E w \in Wallets : TestPlace(r, w)
        BY <2>3, <2>9 DEF TestPlace, AtWork, Gone
    <2>10. CASE \E w \in Wallets : StopOne(r, w)
        <3>1. PICK w \in Wallets : StopOne(r, w)
            BY <2>10
        <3>2. [Gone EXCEPT !.at = "stop", !.op = "stop", !.todo = {w}] \in Thread
            BY <2>2
        <3>. QED
            BY <3>1, <3>2 DEF StopOne, AtWork, Gone
    <2>. QED
        BY <2>4, <2>5, <2>6, <2>7, <2>8, <2>9, <2>10 DEF Request
<1>6. th' \in [Threads -> Thread] /\ WalletNamed'
    BY <1>1, <1>5, GoesTyped
<1>. QED
    BY <1>1, <1>2, <1>3, <1>6 DEF TInv, TypeOK, scanVars

LEMMA RequestStepTyped ==
    ASSUME TInv, NEW r \in Routes, RequestStep(r)
    PROVE  TInv'
<1>1. TypeOK /\ WalletNamed /\ r \in Threads /\ th[r] \in Thread
    BY DEF TInv, TypeOK, Threads
<1>2. UNCHANGED <<saved, status, generation, scans>> /\ scannerApi' \in BOOLEAN
    <2>1. CASE WalletBuilt(r)
        BY <2>1 DEF WalletBuilt
    <2>2. CASE ~WalletBuilt(r)
        <3>1. UNCHANGED scanVars
            BY <2>2 DEF RequestStep, CancelNext, StartNext, WalletFails, StartEnds, JoinScanner,
                        StopNext, JoinMonitor, CancelBuys, StopEnds
        <3>. QED
            BY <1>1, <3>1 DEF scanVars, TypeOK
    <2>. QED
        BY <2>1, <2>2
<1>3. pool' \in Pools /\ buys' \subseteq Wallets
    BY <1>1 DEF RequestStep, CancelNext, StartNext, WalletBuilt, WalletFails, StartEnds, JoinScanner,
                StopNext, JoinMonitor, CancelBuys, StopEnds, TypeOK, Pools
<1>4. stopEvent' \in BOOLEAN /\ scanner' \in Scanners \cup {None}
    BY <1>1 DEF RequestStep, CancelNext, StartNext, WalletBuilt, WalletFails, StartEnds, JoinScanner,
                StopNext, JoinMonitor, CancelBuys, StopEnds, lifeVars, TypeOK
<1>5. engines' \in [Wallets -> {0} \cup Monitors]
    BY <1>1 DEF RequestStep, CancelNext, StartNext, WalletBuilt, WalletFails, StartEnds, JoinScanner,
                StopNext, JoinMonitor, CancelBuys, StopEnds, lifeVars, TypeOK
<1>6. monitor' \in [Wallets -> [Monitors -> {"none", "on", "told"}]]
    <2>0. /\ monitor \in [Wallets -> [Monitors -> {"none", "on", "told"}]]
          /\ \A w \in Wallets : \A k \in Monitors : \A x \in {"on", "told"} :
                [monitor EXCEPT ![w][k] = x] \in [Wallets -> [Monitors -> {"none", "on", "told"}]]
        BY <1>1 DEF TypeOK
    <2>1. CASE WalletBuilt(r)
        <3>1. th[r].wallet \in Wallets
            BY <1>1, <2>1 DEF WalletBuilt, WalletNamed, AtWork
        <3>. QED
            BY <2>0, <2>1, <3>1 DEF WalletBuilt
    <2>2. CASE StopNext(r)
        <3>1. PICK w \in th[r].todo :
                \/ UNCHANGED monitor
                \/ w \in Running /\ monitor' = [monitor EXCEPT ![w][engines[w]] = "told"]
            BY <2>2 DEF StopNext
        <3>2. w \in Wallets /\ (w \in Running => engines[w] \in Monitors)
            BY <1>1 DEF TypeOK, Running, Thread
        <3>. QED
            BY <2>0, <3>1, <3>2
    <2>3. CASE ~WalletBuilt(r) /\ ~StopNext(r)
        BY <1>1, <2>3 DEF RequestStep, CancelNext, StartNext, WalletFails, StartEnds, JoinScanner,
                          JoinMonitor, CancelBuys, StopEnds, lifeVars, TypeOK
    <2>. QED
        BY <2>1, <2>2, <2>3
<1>7. th' \in [Threads -> Thread] /\ WalletNamed'
    <2>1. \A w \in Wallets \cup {None} : [th[r] EXCEPT !.todo = @ \ {w}] \in Thread
        BY <1>1 DEF Thread
    <2>2. \A w \in Wallets : [th[r] EXCEPT !.at = "build", !.wallet = w] \in Thread
        BY <1>1 DEF Thread
    <2>3. /\ [th[r] EXCEPT !.at = "start", !.todo = @ \ {th[r].wallet}, !.wallet = None] \in Thread
          /\ [th[r] EXCEPT !.at = "stop", !.todo = @ \ {th[r].wallet}, !.wallet = None, !.slot = 0]
                \in Thread
          /\ [th[r] EXCEPT !.at = "cancel"] \in Thread
        BY <1>1 DEF Thread
    <2>4. [Gone EXCEPT !.at = "start", !.op = "all", !.todo = Wallets] \in Thread
        BY GoneType DEF Gone, Thread
    <2>5. CASE CancelNext(r)
        <3>1. PICK l \in Thread : Goes(r, l) /\ l.at \notin AtWork
            <4>1. CASE Returns(r)
                BY <4>1, GoneType DEF Returns, Gone, AtWork
            <4>2. CASE \E w \in th[r].todo : Goes(r, [th[r] EXCEPT !.todo = @ \ {w}])
                BY <1>1, <2>1, <2>5, <4>2 DEF CancelNext, Thread, AtWork
            <4>. QED
                BY <2>5, <4>1, <4>2 DEF CancelNext
        <3>. QED
            BY <1>1, <3>1, GoesTyped DEF AtWork
    <2>6. CASE StartNext(r)
        <3>1. PICK w \in th[r].todo :
                Goes(r, IF w \in Running THEN [th[r] EXCEPT !.todo = @ \ {w}]
                        ELSE [th[r] EXCEPT !.at = "build", !.wallet = w])
            BY <2>6 DEF StartNext
        <3>2. w \in Wallets /\ th[r].at = "start"
            BY <1>1, <2>6 DEF StartNext, Thread
        <3>3. PICK l \in Thread : Goes(r, l) /\ l.at \in {"start", "build"} /\
                                  (l.at = "build" => l.wallet \in Wallets)
            <4>1. CASE w \in Running
                BY <2>1, <3>1, <3>2, <4>1 DEF Thread
            <4>2. CASE w \notin Running
                <5>1. [th[r] EXCEPT !.at = "build", !.wallet = w] \in Thread
                    BY <2>2, <3>2
                <5>2. /\ [th[r] EXCEPT !.at = "build", !.wallet = w].at = "build"
                      /\ [th[r] EXCEPT !.at = "build", !.wallet = w].wallet = w
                    BY <1>1 DEF Thread
                <5>. QED
                    BY <3>1, <3>2, <4>2, <5>1, <5>2
            <4>. QED
                BY <4>1, <4>2
        <3>. QED
            BY <1>1, <3>3, GoesTyped DEF AtWork
    <2>7. CASE WalletBuilt(r)
        <3>1. PICK l \in Thread : Goes(r, l) /\ l.at = "start"
            BY <2>3, <2>7 DEF WalletBuilt, Thread
        <3>. QED
            BY <1>1, <3>1, GoesTyped DEF AtWork
    <2>8. CASE WalletFails(r)
        BY <1>1, <2>8, GoneType, GoesTyped DEF WalletFails, Returns, Gone, AtWork
    <2>9. CASE StartEnds(r)
        <3>1. CASE Returns(r)
            BY <1>1, <3>1, GoneType, GoesTyped DEF Returns, Gone, AtWork
        <3>2. CASE \E s \in Scanners : th' = [th EXCEPT ![r] = Gone, ![s] = [Gone EXCEPT !.at = "loop"]]
            <4>1. [Gone EXCEPT !.at = "loop"] \in Thread /\ [Gone EXCEPT !.at = "loop"].at \notin AtWork
                BY GoneType DEF Gone, Thread, AtWork
            <4>2. Gone.at \notin AtWork
                BY DEF Gone, AtWork
            <4>. QED
                BY <1>1, <3>2, <4>1, <4>2, GoneType DEF TypeOK, WalletNamed, Threads, AtWork
        <3>. QED
            BY <2>9, <3>1, <3>2 DEF StartEnds, Live
    <2>10. CASE JoinScanner(r)
        <3>1. Running \in SUBSET Wallets
            BY DEF Running
        <3>2. [th[r] EXCEPT !.at = "stop", !.todo = Running] \in Thread
            BY <1>1, <3>1 DEF Thread
        <3>3. PICK l \in Thread : Goes(r, l) /\ l.at = "stop"
            BY <2>10, <3>2 DEF JoinScanner, Thread
        <3>. QED
            BY <1>1, <3>3, GoesTyped DEF AtWork
    <2>11. CASE StopNext(r)
        <3>1. PICK w \in th[r].todo :
                Goes(r, IF w \notin Running THEN [th[r] EXCEPT !.todo = @ \ {w}]
                        ELSE [th[r] EXCEPT !.at = "joinMonitor", !.wallet = w, !.slot = engines[w]])
            BY <2>11 DEF StopNext
        <3>2. w \in Wallets /\ th[r].at = "stop"
            BY <1>1, <2>11 DEF StopNext, Thread
        <3>3. CASE w \notin Running
            <4>1. PICK l \in Thread : Goes(r, l) /\ l.at = "stop"
                BY <2>1, <3>1, <3>2, <3>3 DEF Thread
            <4>. QED
                BY <1>1, <4>1, GoesTyped DEF AtWork
        <3>4. CASE w \in Running
            <4>1. engines[w] \in Monitors
                BY <1>1, <3>2, <3>4 DEF TypeOK, Running
            <4>2. [th[r] EXCEPT !.at = "joinMonitor", !.wallet = w, !.slot = engines[w]] \in Thread
                BY <1>1, <3>2, <4>1 DEF Thread
            <4>3. PICK l \in Thread : Goes(r, l) /\ l.wallet = w /\ l.slot = engines[w]
                BY <1>1, <3>1, <3>4, <4>2 DEF Thread
            <4>. QED
                BY <1>1, <3>2, <4>1, <4>3, GoesTyped
        <3>. QED
            BY <3>3, <3>4
    <2>12. CASE JoinMonitor(r)
        <3>1. PICK l \in Thread : Goes(r, l) /\ l.at = "cancel" /\ l.wallet = th[r].wallet
            BY <1>1, <2>3, <2>12 DEF JoinMonitor, Thread
        <3>2. th[r].wallet \in Wallets
            BY <1>1, <2>12 DEF JoinMonitor, WalletNamed, AtWork
        <3>. QED
            BY <1>1, <3>1, <3>2, GoesTyped
    <2>13. CASE CancelBuys(r)
        <3>1. PICK l \in Thread : Goes(r, l) /\ l.at = "stop"
            BY <2>3, <2>13 DEF CancelBuys, Thread
        <3>. QED
            BY <1>1, <3>1, GoesTyped DEF AtWork
    <2>14. CASE StopEnds(r)
        <3>1. PICK l \in Thread : Goes(r, l) /\ l.at \notin AtWork
            BY <2>4, <2>14, GoneType DEF StopEnds, Starting, Returns, Gone, AtWork
        <3>. QED
            BY <1>1, <3>1, GoesTyped DEF AtWork
    <2>. QED
        BY <2>5, <2>6, <2>7, <2>8, <2>9, <2>10, <2>11, <2>12, <2>13, <2>14 DEF RequestStep
<1>. QED
    BY <1>2, <1>3, <1>4, <1>5, <1>6, <1>7 DEF TInv, TypeOK, scanVars

LEMMA NextTyped ==
    ASSUME TInv, [Next]_vars
    PROVE  TInv'
<1>1. CASE StartScan \/ \E g \in Scans : ScanStep(g) \/ ScanFound(g)
    BY <1>1, ScansTyped
<1>2. CASE \E s \in Scanners : LoopStep(s) \/ DiscoveryFound(s)
    BY <1>2, LoopTyped
<1>3. CASE \E t \in Threads : PlaceStep(t) \/ Placing(t)
    BY <1>3, PlaceTyped
<1>4. CASE \E r \in Routes : Request(r) \/ RequestStep(r)
    BY <1>4, RequestTyped, RequestStepTyped
<1>5. CASE \E w \in Wallets, k \in Monitors : MonitorEnds(w, k)
    <2>1. monitor' \in [Wallets -> [Monitors -> {"none", "on", "told"}]]
        BY <1>5 DEF MonitorEnds, TInv, TypeOK
    <2>. QED
        BY <1>5, <2>1 DEF MonitorEnds, TInv, TypeOK, WalletNamed, scanVars
<1>6. CASE UNCHANGED vars
    BY <1>6 DEF TInv, TypeOK, WalletNamed, vars
<1>. QED
    BY <1>1, <1>2, <1>3, <1>4, <1>5, <1>6 DEF Next

\* The manager's fields and every thread's locals keep their types, whatever Env
\* admits and however many request threads there are.
THEOREM EngineTypeCorrect == Spec => []TypeOK
<1>1. TInv => TypeOK
    BY DEF TInv
<1>. QED
    BY <1>1, InitTypes, NextTyped, PTL DEF Spec

-----------------------------------------------------------------------------
\* One scanner loop.

\* One request thread: the owner's start, stop and restart come one by one.
Alone == \A q, r \in Routes : q = r

\* Nobody starts a running engine, and every thread ends while stop waits for it.
Sequential == "startTwice" \notin Env /\ "slowJoin" \notin Env

\* A request that is about to start a loop knows that none runs.
RouteOK(l) ==
    \/ l.at \in {"start", "build"} /\ l.op = "all"
    \/ l.at \in {"stop", "joinMonitor", "cancel"} /\ l.op = "restart"
    => scanner = None

SInv ==
    /\ TInv
    /\ \A s \in Live : s = scanner
    /\ \A r \in Routes : RouteOK(th[r])

\* A move that revives no scanner thread and leaves the manager's as it is.
LEMMA MoveOne ==
    ASSUME SInv, TInv', NEW t \in Threads, NEW l, Goes(t, l), UNCHANGED scanner,
           t \in Scanners /\ th[t].at = "none" => l.at = "none",
           t \in Routes => RouteOK(l)
    PROVE  SInv'
<1>1. \A q \in Threads : th'[q] = IF q = t THEN l ELSE th[q]
    BY DEF SInv, TInv, TypeOK, Goes
<1>2. Live' \subseteq Live
    BY <1>1 DEF Live, Threads
<1>3. \A r \in Routes : RouteOK(th[r])'
    BY <1>1 DEF SInv, RouteOK, Threads
<1>. QED
    BY <1>2, <1>3 DEF SInv

LEMMA ScansOne ==
    ASSUME SInv, TInv', UNCHANGED <<scanner, th>>
    PROVE  SInv'
BY DEF SInv, RouteOK, Live

LEMMA LoopOne ==
    ASSUME SInv, TInv', NEW s \in Scanners, LoopStep(s) \/ DiscoveryFound(s)
    PROVE  SInv'
<1>1. CASE DiscoveryFound(s)
    BY <1>1, ScansOne DEF DiscoveryFound, lifeVars
<1>2. CASE LoopStep(s)
    <2>1. s \in Threads /\ s \notin Routes /\ UNCHANGED scanner
        BY <1>2, ThreadsAssumption
           DEF Threads, LoopStep, LoopEnds, LoopDiscovers, LoopPlaces, DiscoveryEnds,
               RoundBegins, RoundSkipped, lifeVars
    <2>2. PICK l : Goes(s, l)
        BY <1>2 DEF LoopStep, LoopEnds, LoopDiscovers, LoopPlaces, DiscoveryEnds, RoundBegins,
                    RoundSkipped, Returns
    <2>3. th[s].at # "none"
        BY <1>2 DEF LoopStep, LoopEnds, LoopDiscovers, LoopPlaces, DiscoveryEnds, RoundBegins,
                    RoundSkipped
    <2>. QED
        BY <2>1, <2>2, <2>3, MoveOne
<1>. QED
    BY <1>1, <1>2

\* Where a step of a placing round or test takes its thread.
LEMMA PlaceMoves ==
    ASSUME TInv, NEW t \in Threads, PlaceStep(t)
    PROVE  /\ UNCHANGED <<lifeVars, pool, scanVars, buys>>
           /\ th[t].at \in {"place", "placing"}
           /\ \E l \in Thread : /\ Goes(t, l) /\ l.at \in {"place", "placing", "loop", "none"}
                                /\ l.at = "placing" => l.wallet \in Running
<1>1. TypeOK /\ th[t] \in Thread
    BY DEF TInv, TypeOK
<1>2. CASE PlaceWallet(t)
    <2>1. PICK w \in th[t].todo :
            Goes(t, IF w \in Running THEN [th[t] EXCEPT !.at = "placing", !.wallet = w]
                    ELSE [th[t] EXCEPT !.todo = @ \ {w}])
        BY <1>2 DEF PlaceWallet
    <2>2. w \in Wallets /\ th[t].at = "place"
        BY <1>1, <1>2 DEF PlaceWallet, Thread
    <2>3. [th[t] EXCEPT !.at = "placing", !.wallet = w] \in Thread
        BY <1>1, <2>2 DEF Thread
    <2>4. [th[t] EXCEPT !.todo = @ \ {w}] \in Thread
        BY <1>1 DEF Thread
    <2>5. PICK l \in Thread : /\ Goes(t, l) /\ l.at \in {"place", "placing"}
                              /\ l.at = "placing" => l.wallet \in Running
        <3>1. CASE w \in Running
            BY <2>1, <2>2, <2>3, <3>1 DEF Thread
        <3>2. CASE w \notin Running
            BY <2>1, <2>2, <2>4, <3>2 DEF Thread
        <3>. QED
            BY <3>1, <3>2
    <2>. QED
        BY <1>2, <2>2, <2>5 DEF PlaceWallet
<1>3. CASE WalletPlaced(t)
    <2>1. [th[t] EXCEPT !.at = "place", !.todo = @ \ {th[t].wallet}, !.wallet = None] \in Thread
        BY <1>1 DEF Thread
    <2>2. [th[t] EXCEPT !.at = "place", !.todo = @ \ {th[t].wallet}, !.wallet = None].at = "place"
        BY <1>1 DEF Thread
    <2>. QED
        BY <1>3, <2>1, <2>2 DEF WalletPlaced
<1>4. CASE PlaceEnds(t)
    <2>1. [Gone EXCEPT !.at = "loop"] \in Thread /\ [Gone EXCEPT !.at = "loop"].at = "loop"
        BY GoneType DEF Gone, Thread
    <2>2. Gone.at = "none"
        BY DEF Gone
    <2>. QED
        BY <1>4, <2>1, <2>2, GoneType DEF PlaceEnds, Returns
<1>. QED
    BY <1>2, <1>3, <1>4 DEF PlaceStep

LEMMA PlaceOne ==
    ASSUME SInv, TInv', NEW t \in Threads, PlaceStep(t) \/ Placing(t)
    PROVE  SInv'
<1>1. CASE Placing(t)
    BY <1>1, ScansOne DEF Placing, lifeVars
<1>2. CASE PlaceStep(t)
    <2>1. UNCHANGED scanner /\ th[t].at # "none"
        BY <1>2, PlaceMoves DEF lifeVars, SInv
    <2>2. PICK l \in Thread : Goes(t, l) /\ l.at \in {"place", "placing", "loop", "none"}
        BY <1>2, PlaceMoves DEF SInv
    <2>3. RouteOK(l)
        BY <2>2 DEF RouteOK
    <2>. QED
        BY <2>1, <2>2, <2>3, MoveOne
<1>. QED
    BY <1>1, <1>2

LEMMA RequestOne ==
    ASSUME Sequential, SInv, TInv', NEW r \in Routes, Request(r)
    PROVE  SInv'
<1>1. r \in Threads /\ r \notin Scanners /\ UNCHANGED scanner
    BY ThreadsAssumption
       DEF Threads, Request, PlaceAll, CancelAll, StartAll, StartMonitors, StopAll, TestPlace,
           StopOne, lifeVars
<1>2. PICK l : Goes(r, l) /\ RouteOK(l)
    <2>1. CASE PlaceAll(r) \/ CancelAll(r)
        <3>1. PICK at \in {"place", "cancelAll"} : Goes(r, [Gone EXCEPT !.at = at, !.todo = Running])
            BY <2>1 DEF PlaceAll, CancelAll
        <3>2. RouteOK([Gone EXCEPT !.at = at, !.todo = Running])
            BY DEF RouteOK, Gone
        <3>. QED
            BY <3>1, <3>2
    <2>2. CASE StartAll(r)
        <3>1. scanner = None
            BY <2>2 DEF StartAll, Sequential
        <3>. QED
            BY <2>2, <3>1 DEF StartAll, Starting, RouteOK
    <2>3. CASE StartMonitors(r)
        <3>1. PICK ws : Starting(r, "monitors", ws)
            BY <2>3 DEF StartMonitors
        <3>2. RouteOK([Gone EXCEPT !.at = "start", !.op = "monitors", !.todo = ws])
            BY DEF RouteOK, Gone
        <3>. QED
            BY <3>1, <3>2 DEF Starting
    <2>4. CASE \E op \in {"stop", "restart"} : StopAll(r, op)
        <3>1. PICK op : Goes(r, [Gone EXCEPT !.at = "join", !.op = op])
            BY <2>4 DEF StopAll
        <3>2. RouteOK([Gone EXCEPT !.at = "join", !.op = op])
            BY DEF RouteOK, Gone
        <3>. QED
            BY <3>1, <3>2
    <2>5. CASE \E w \in Wallets : TestPlace(r, w)
        <3>1. PICK w : Goes(r, [Gone EXCEPT !.at = "placing", !.wallet = w])
            BY <2>5 DEF TestPlace
        <3>2. RouteOK([Gone EXCEPT !.at = "placing", !.wallet = w])
            BY DEF RouteOK, Gone
        <3>. QED
            BY <3>1, <3>2
    <2>6. CASE \E w \in Wallets : StopOne(r, w)
        <3>1. PICK w : Goes(r, [Gone EXCEPT !.at = "stop", !.op = "stop", !.todo = {w}])
            BY <2>6 DEF StopOne
        <3>2. RouteOK([Gone EXCEPT !.at = "stop", !.op = "stop", !.todo = {w}])
            BY DEF RouteOK, Gone
        <3>. QED
            BY <3>1, <3>2
    <2>. QED
        BY <2>1, <2>2, <2>3, <2>4, <2>5, <2>6 DEF Request
<1>. QED
    BY <1>1, <1>2, MoveOne

\* A step of a request that leaves the scanner thread alone keeps what it knows.
LEMMA SteadyRequest ==
    ASSUME TInv, NEW r \in Routes, RequestStep(r), RouteOK(th[r])
    PROVE  \/ StartEnds(r) \/ JoinScanner(r)
           \/ UNCHANGED scanner /\ \E l : Goes(r, l) /\ RouteOK(l)
<1>1. th[r] \in Thread
    BY DEF TInv, TypeOK, Threads
<1>2. RouteOK(Gone)
    BY DEF RouteOK, Gone
<1>3. CASE CancelNext(r)
    <2>1. CASE Returns(r)
        BY <1>2, <1>3, <2>1 DEF CancelNext, Returns, lifeVars
    <2>2. CASE \E w \in th[r].todo : Goes(r, [th[r] EXCEPT !.todo = @ \ {w}])
        BY <1>1, <1>3, <2>2 DEF CancelNext, RouteOK, Thread, lifeVars
    <2>. QED
        BY <1>3, <2>1, <2>2 DEF CancelNext
<1>4. CASE StartNext(r)
    <2>1. PICK w \in th[r].todo :
            Goes(r, IF w \in Running THEN [th[r] EXCEPT !.todo = @ \ {w}]
                    ELSE [th[r] EXCEPT !.at = "build", !.wallet = w])
        BY <1>4 DEF StartNext
    <2>2. th[r].at = "start" /\ UNCHANGED scanner
        BY <1>4 DEF StartNext, lifeVars
    <2>3. RouteOK([th[r] EXCEPT !.todo = @ \ {w}])
        BY <1>1 DEF RouteOK, Thread
    <2>4. RouteOK([th[r] EXCEPT !.at = "build", !.wallet = w])
        BY <1>1, <2>2 DEF RouteOK, Thread
    <2>. QED
        BY <2>1, <2>2, <2>3, <2>4
<1>5. CASE WalletBuilt(r)
    <2>1. /\ UNCHANGED scanner /\ th[r].at = "build"
          /\ Goes(r, [th[r] EXCEPT !.at = "start", !.todo = @ \ {th[r].wallet}, !.wallet = None])
        BY <1>5 DEF WalletBuilt
    <2>2. RouteOK([th[r] EXCEPT !.at = "start", !.todo = @ \ {th[r].wallet}, !.wallet = None])
        BY <1>1, <2>1 DEF RouteOK, Thread
    <2>. QED
        BY <2>1, <2>2
<1>6. CASE WalletFails(r)
    BY <1>2, <1>6 DEF WalletFails, Returns, lifeVars
<1>7. CASE StopNext(r)
    <2>1. PICK w \in th[r].todo :
            Goes(r, IF w \notin Running THEN [th[r] EXCEPT !.todo = @ \ {w}]
                    ELSE [th[r] EXCEPT !.at = "joinMonitor", !.wallet = w, !.slot = engines[w]])
        BY <1>7 DEF StopNext
    <2>2. th[r].at = "stop" /\ UNCHANGED scanner
        BY <1>7 DEF StopNext
    <2>3. RouteOK([th[r] EXCEPT !.todo = @ \ {w}])
        BY <1>1 DEF RouteOK, Thread
    <2>4. RouteOK([th[r] EXCEPT !.at = "joinMonitor", !.wallet = w, !.slot = engines[w]])
        BY <1>1, <2>2 DEF RouteOK, Thread
    <2>. QED
        BY <2>1, <2>2, <2>3, <2>4
<1>8. CASE JoinMonitor(r)
    BY <1>1, <1>8 DEF JoinMonitor, RouteOK, Thread, lifeVars
<1>9. CASE CancelBuys(r)
    <2>1. /\ UNCHANGED scanner /\ th[r].at = "cancel"
          /\ Goes(r, [th[r] EXCEPT !.at = "stop", !.todo = @ \ {th[r].wallet},
                                   !.wallet = None, !.slot = 0])
        BY <1>9 DEF CancelBuys, lifeVars
    <2>2. RouteOK([th[r] EXCEPT !.at = "stop", !.todo = @ \ {th[r].wallet},
                                !.wallet = None, !.slot = 0])
        BY <1>1, <2>1 DEF RouteOK, Thread
    <2>. QED
        BY <2>1, <2>2
<1>10. CASE StopEnds(r)
    <2>1. CASE th[r].op = "restart"
        <3>1. scanner = None
            BY <1>10, <2>1 DEF StopEnds, RouteOK
        <3>. QED
            BY <1>10, <2>1, <3>1 DEF StopEnds, Starting, RouteOK, lifeVars
    <2>2. CASE th[r].op # "restart"
        BY <1>2, <1>10, <2>2 DEF StopEnds, Returns, lifeVars
    <2>. QED
        BY <2>1, <2>2
<1>. QED
    BY <1>3, <1>4, <1>5, <1>6, <1>7, <1>8, <1>9, <1>10 DEF RequestStep

LEMMA RequestStepOne ==
    ASSUME Alone, Sequential, SInv, TInv', NEW r \in Routes, RequestStep(r)
    PROVE  SInv'
<1>1. r \in Threads /\ r \notin Scanners /\ TInv /\ th \in [Threads -> Thread]
    BY ThreadsAssumption DEF Threads, SInv, TInv, TypeOK
<1>2. CASE UNCHANGED scanner /\ \E l : Goes(r, l) /\ RouteOK(l)
    BY <1>1, <1>2, MoveOne
<1>3. CASE StartEnds(r) /\ th[r].op = "monitors"
    <2>1. UNCHANGED scanner /\ Goes(r, Gone)
        BY <1>3 DEF StartEnds, Returns
    <2>2. RouteOK(Gone)
        BY DEF RouteOK, Gone
    <2>. QED
        BY <1>1, <2>1, <2>2, MoveOne
<1>4. CASE StartEnds(r) /\ th[r].op # "monitors"
    <2>1. PICK s \in Scanners \ Live :
            /\ th[r].op = "all" /\ scanner' = s
            /\ th' = [th EXCEPT ![r] = Gone, ![s] = [Gone EXCEPT !.at = "loop"]]
        BY <1>4 DEF StartEnds
    <2>2. scanner = None
        BY <1>4, <2>1 DEF StartEnds, SInv, RouteOK
    <2>3. Live = {}
        BY <2>2, ThreadsAssumption DEF SInv, Live
    <2>4. \A q \in Threads : th'[q] = IF q = r THEN Gone
                                      ELSE IF q = s THEN [Gone EXCEPT !.at = "loop"] ELSE th[q]
        BY <1>1, <2>1 DEF Threads
    <2>5. Live' \subseteq {s}
        BY <1>1, <2>3, <2>4 DEF Live, Gone, Threads
    <2>6. \A q \in Routes : RouteOK(th[q])'
        <3>1. \A q \in Routes : th'[q] = Gone
            BY <2>4 DEF Alone, Threads
        <3>. QED
            BY <3>1 DEF RouteOK, Gone
    <2>. QED
        BY <2>1, <2>5, <2>6 DEF SInv
<1>5. CASE JoinScanner(r)
    <2>1. scanner \notin Live /\ scanner' = None
        BY <1>5 DEF JoinScanner, Sequential
    <2>2. Live = {}
        BY <2>1 DEF SInv
    <2>3. \A s \in Scanners : th'[s] = th[s]
        BY <1>1, <1>5 DEF JoinScanner, Goes, Threads
    <2>4. Live' = {}
        BY <2>2, <2>3 DEF Live
    <2>5. \A q \in Routes : RouteOK(th[q])'
        BY <2>1 DEF RouteOK
    <2>. QED
        BY <2>4, <2>5 DEF SInv
<1>. QED
    BY <1>1, <1>2, <1>3, <1>4, <1>5, SteadyRequest DEF SInv

LEMMA InitOne == Init => SInv
<1>. SUFFICES ASSUME Init PROVE SInv
    OBVIOUS
<1>1. \A q \in Threads : th[q] = Gone
    BY DEF Init
<1>2. Live = {}
    BY <1>1 DEF Live, Threads, Gone
<1>3. \A r \in Routes : RouteOK(th[r])
    BY DEF Init, RouteOK
<1>. QED
    BY <1>2, <1>3, InitTypes DEF SInv

LEMMA NextOne ==
    ASSUME Alone, Sequential, SInv, [Next]_vars
    PROVE  SInv'
<1>1. TInv'
    BY NextTyped DEF SInv
<1>2. CASE StartScan \/ \E g \in Scans : ScanStep(g) \/ ScanFound(g)
    <2>1. UNCHANGED <<scanner, th>>
        BY <1>2 DEF StartScan, ScanFound, ScanStep, ScanWithoutApi, ScanBegin, ScanSuperseded,
                    ScanFails, ScanDone, ScanChecks, ScanSave, ScanEnd, lifeVars
    <2>. QED
        BY <1>1, <2>1, ScansOne
<1>3. CASE \E s \in Scanners : LoopStep(s) \/ DiscoveryFound(s)
    BY <1>1, <1>3, LoopOne
<1>4. CASE \E t \in Threads : PlaceStep(t) \/ Placing(t)
    BY <1>1, <1>4, PlaceOne
<1>5. CASE \E r \in Routes : Request(r) \/ RequestStep(r)
    BY <1>1, <1>5, RequestOne, RequestStepOne
<1>6. CASE \E w \in Wallets, k \in Monitors : MonitorEnds(w, k)
    BY <1>1, <1>6, ScansOne DEF MonitorEnds
<1>7. CASE UNCHANGED vars
    BY <1>1, <1>7, ScansOne DEF vars
<1>. QED
    BY <1>2, <1>3, <1>4, <1>5, <1>6, <1>7 DEF Next

\* With one request thread at a time, a start only of a stopped engine and threads
\* that end within the join, there is never a second scanner loop: through every
\* stop, restart and start that fails half way, with any number of wallets.
THEOREM OneScannerLoop ==
    ASSUME Alone, Sequential
    PROVE  Spec => []OneScanner
<1>1. SInv => OneScanner
    BY DEF SInv, OneScanner
<1>2. SInv /\ [Next]_vars => SInv'
    BY NextOne
<1>. QED
    BY <1>1, <1>2, InitOne, PTL DEF Spec

-----------------------------------------------------------------------------
\* One monitor per wallet, and no unwatched buys.

\* Nothing but what the code does in order: stops wait, cancels go through.
Calm == Env = {}

\* Orders rest only for a running wallet.
PlacingOK(l) == l.at = "placing" => l.wallet \in Running

\* A stop works on its wallets when no scanner runs; a wallet about to be started,
\* or being stopped, has no running worker.
RequestOK(l) ==
    /\ l.at \in {"stop", "joinMonitor", "cancel"} => scanner = None
    /\ l.at \in {"build", "joinMonitor", "cancel"} => l.wallet \notin Running

WorkersOK ==
    /\ \A w \in Running : monitor[w][engines[w]] = "on"
    /\ \A w \in Wallets : \A k \in Monitors : monitor[w][k] = "on" => engines[w] = k

\* A monitor told to stop is waited for by a stop.
ToldAreAwaited ==
    \A w \in Wallets : \A k \in Monitors :
        monitor[w][k] = "told" =>
            \E r \in Routes : th[r].at = "joinMonitor" /\ th[r].wallet = w /\ th[r].slot = k

WInv ==
    /\ SInv
    /\ \A t \in Threads : PlacingOK(th[t])
    /\ \A r \in Routes : RequestOK(th[r])
    /\ WorkersOK /\ ToldAreAwaited /\ BuysAreWatched

\* A move of a thread that has no stop under way and starts none of its steps.
LEMMA MoveWatched ==
    ASSUME WInv, SInv', NEW t \in Threads, NEW l, Goes(t, l),
           UNCHANGED <<engines, monitor, scanner>>, buys' \subseteq buys,
           th[t].at \notin {"joinMonitor", "cancel"}, PlacingOK(l),
           t \in Routes => RequestOK(l)
    PROVE  WInv'
<1>1. \A q \in Threads : th'[q] = IF q = t THEN l ELSE th[q]
    BY DEF WInv, SInv, TInv, TypeOK, Goes
<1>2. Running' = Running
    BY DEF Running
<1>3. \A q \in Threads : PlacingOK(th[q])'
    BY <1>1, <1>2 DEF WInv, PlacingOK
<1>4. \A r \in Routes : RequestOK(th[r])'
    BY <1>1, <1>2 DEF WInv, RequestOK, Threads
<1>5. \A r \in Routes : th[r].at \in {"joinMonitor", "cancel"} => th'[r] = th[r]
    BY <1>1 DEF Threads
<1>6. WorkersOK'
    BY <1>2 DEF WInv, WorkersOK
<1>7. ToldAreAwaited'
    BY <1>5 DEF WInv, ToldAreAwaited
<1>8. BuysAreWatched'
    BY <1>2, <1>5 DEF WInv, BuysAreWatched
<1>. QED
    BY <1>3, <1>4, <1>6, <1>7, <1>8 DEF WInv

LEMMA IdleWatched ==
    ASSUME WInv, SInv', UNCHANGED <<engines, monitor, scanner, th, buys>>
    PROVE  WInv'
<1>1. Running' = Running
    BY DEF Running
<1>. QED
    BY <1>1 DEF WInv, PlacingOK, RequestOK, WorkersOK, ToldAreAwaited, BuysAreWatched

LEMMA LoopWatched ==
    ASSUME WInv, SInv', NEW s \in Scanners, LoopStep(s) \/ DiscoveryFound(s)
    PROVE  WInv'
<1>1. CASE DiscoveryFound(s)
    BY <1>1, IdleWatched DEF DiscoveryFound, lifeVars
<1>2. CASE LoopStep(s)
    <2>1. /\ s \in Threads /\ s \notin Routes /\ UNCHANGED <<lifeVars, buys>>
          /\ th[s].at \in {"loop", "discover", "round"} /\ th[s] \in Thread
        BY <1>2, ThreadsAssumption
           DEF Threads, LoopStep, LoopEnds, LoopDiscovers, LoopPlaces, DiscoveryEnds,
               RoundBegins, RoundSkipped, WInv, SInv, TInv, TypeOK
    <2>2. PICK l : Goes(s, l) /\ l.at # "placing"
        <3>1. /\ [th[s] EXCEPT !.at = "discover", !.prev = pool].at = "discover"
              /\ [th[s] EXCEPT !.at = "round"].at = "round"
              /\ [th[s] EXCEPT !.at = "place", !.todo = Running].at = "place"
              /\ [th[s] EXCEPT !.at = "loop"].at = "loop"
            BY <2>1 DEF Thread
        <3>2. Gone.at = "none" /\ [Gone EXCEPT !.at = "round"].at = "round"
            BY DEF Gone
        <3>. QED
            BY <1>2, <3>1, <3>2
               DEF LoopStep, LoopEnds, LoopDiscovers, LoopPlaces, DiscoveryEnds, RoundBegins,
                   RoundSkipped, Returns
    <2>. QED
        BY <2>1, <2>2, MoveWatched DEF PlacingOK, lifeVars
<1>. QED
    BY <1>1, <1>2

LEMMA PlaceWatched ==
    ASSUME WInv, SInv', NEW t \in Threads, PlaceStep(t) \/ Placing(t)
    PROVE  WInv'
<1>1. CASE PlaceStep(t)
    <2>1. TInv /\ UNCHANGED <<lifeVars, buys>> /\ th[t].at \in {"place", "placing"}
        BY <1>1, PlaceMoves DEF WInv, SInv
    <2>2. PICK l : /\ Goes(t, l) /\ l.at \in {"place", "placing", "loop", "none"}
                   /\ l.at = "placing" => l.wallet \in Running
        BY <1>1, <2>1, PlaceMoves
    <2>3. PlacingOK(l) /\ RequestOK(l)
        BY <2>2 DEF PlacingOK, RequestOK
    <2>. QED
        BY <2>1, <2>2, <2>3, MoveWatched DEF lifeVars
<1>2. CASE Placing(t)
    <2>1. /\ UNCHANGED <<engines, monitor, scanner, th>> /\ buys' \subseteq buys \cup {th[t].wallet}
          /\ th[t].wallet \in Running
        BY <1>2 DEF Placing, lifeVars, WInv, PlacingOK
    <2>2. Running' = Running
        BY <2>1 DEF Running
    <2>3. BuysAreWatched'
        BY <2>1, <2>2 DEF WInv, BuysAreWatched, WorkersOK
    <2>. QED
        BY <2>1, <2>2, <2>3 DEF WInv, PlacingOK, RequestOK, WorkersOK, ToldAreAwaited
<1>. QED
    BY <1>1, <1>2

LEMMA RequestWatched ==
    ASSUME Calm, WInv, SInv', NEW r \in Routes, Request(r)
    PROVE  WInv'
<1>1. /\ r \in Threads /\ UNCHANGED <<engines, monitor, scanner, buys>> /\ th[r].at = "none"
    BY DEF Threads, Request, PlaceAll, CancelAll, StartAll, StartMonitors, StopAll, TestPlace,
           StopOne, lifeVars
<1>2. PICK l : Goes(r, l) /\ PlacingOK(l) /\ RequestOK(l)
    <2>1. CASE PlaceAll(r) \/ CancelAll(r)
        <3>1. PICK at \in {"place", "cancelAll"} : Goes(r, [Gone EXCEPT !.at = at, !.todo = Running])
            BY <2>1 DEF PlaceAll, CancelAll
        <3>2. [Gone EXCEPT !.at = at, !.todo = Running].at = at
            BY DEF Gone
        <3>. QED
            BY <3>1, <3>2 DEF PlacingOK, RequestOK
    <2>2. CASE StartAll(r) \/ StartMonitors(r)
        <3>1. PICK op, ws : Starting(r, op, ws)
            BY <2>2 DEF StartAll, StartMonitors
        <3>2. [Gone EXCEPT !.at = "start", !.op = op, !.todo = ws].at = "start"
            BY DEF Gone
        <3>. QED
            BY <3>1, <3>2 DEF Starting, PlacingOK, RequestOK
    <2>3. CASE \E op \in {"stop", "restart"} : StopAll(r, op)
        <3>1. PICK op : Goes(r, [Gone EXCEPT !.at = "join", !.op = op])
            BY <2>3 DEF StopAll
        <3>2. [Gone EXCEPT !.at = "join", !.op = op].at = "join"
            BY DEF Gone
        <3>. QED
            BY <3>1, <3>2 DEF PlacingOK, RequestOK
    <2>4. CASE \E w \in Wallets : TestPlace(r, w)
        <3>1. PICK w \in Running : Goes(r, [Gone EXCEPT !.at = "placing", !.wallet = w])
            BY <2>4 DEF TestPlace, Calm
        <3>2. /\ [Gone EXCEPT !.at = "placing", !.wallet = w].at = "placing"
              /\ [Gone EXCEPT !.at = "placing", !.wallet = w].wallet = w
            BY DEF Gone
        <3>. QED
            BY <3>1, <3>2 DEF PlacingOK, RequestOK
    <2>5. CASE \E w \in Wallets : StopOne(r, w)
        <3>1. PICK w : /\ scanner = None
                       /\ Goes(r, [Gone EXCEPT !.at = "stop", !.op = "stop", !.todo = {w}])
            BY <2>5 DEF StopOne, Calm
        <3>2. [Gone EXCEPT !.at = "stop", !.op = "stop", !.todo = {w}].at = "stop"
            BY DEF Gone
        <3>. QED
            BY <3>1, <3>2 DEF PlacingOK, RequestOK
    <2>. QED
        BY <2>1, <2>2, <2>3, <2>4, <2>5 DEF Request
<1>. QED
    BY <1>1, <1>2, MoveWatched

\* While the only request waits for no monitor, none is told to stop.
LEMMA NoneTold ==
    ASSUME Alone, WInv, NEW r \in Routes, th[r].at # "joinMonitor"
    PROVE  \A w \in Wallets : \A k \in Monitors : monitor[w][k] # "told"
BY DEF Alone, WInv, ToldAreAwaited

\* While a stop works on its wallets, nobody places.
LEMMA NobodyPlaces ==
    ASSUME Alone, WInv, NEW r \in Routes, th[r].at \in {"stop", "joinMonitor", "cancel"}
    PROVE  \A t \in Threads : th[t].at # "placing"
<1>1. scanner = None
    BY DEF WInv, RequestOK
<1>2. \A s \in Scanners : th[s].at = "none"
    BY <1>1, ThreadsAssumption DEF WInv, SInv, Live
<1>3. \A q \in Routes : th[q].at # "placing"
    BY DEF Alone
<1>. QED
    BY <1>2, <1>3 DEF Threads

LEMMA StartWatched ==
    ASSUME Alone, Calm, WInv, SInv', NEW r \in Routes,
           CancelNext(r) \/ StartNext(r) \/ WalletFails(r) \/ StartEnds(r)
    PROVE  WInv'
<1>1. r \in Threads /\ th[r] \in Thread /\ th \in [Threads -> Thread]
    BY DEF Threads, WInv, SInv, TInv, TypeOK
<1>2. Gone.at = "none"
    BY DEF Gone
<1>3. PlacingOK(Gone) /\ RequestOK(Gone)
    BY <1>2 DEF PlacingOK, RequestOK
<1>4. CASE CancelNext(r)
    <2>1. UNCHANGED lifeVars /\ buys' \subseteq buys /\ th[r].at = "cancelAll"
        BY <1>4 DEF CancelNext
    <2>2. PICK l : Goes(r, l) /\ l.at \in {"none", "cancelAll"}
        <3>1. CASE Returns(r)
            BY <1>2, <3>1 DEF Returns
        <3>2. CASE \E w \in th[r].todo : Goes(r, [th[r] EXCEPT !.todo = @ \ {w}])
            <4>1. PICK w \in th[r].todo : Goes(r, [th[r] EXCEPT !.todo = @ \ {w}])
                BY <3>2
            <4>2. [th[r] EXCEPT !.todo = @ \ {w}].at = "cancelAll"
                BY <1>1, <2>1 DEF Thread
            <4>. QED
                BY <4>1, <4>2
        <3>. QED
            BY <1>4, <3>1, <3>2 DEF CancelNext
    <2>3. PlacingOK(l) /\ RequestOK(l)
        BY <2>2 DEF PlacingOK, RequestOK
    <2>. QED
        BY <1>1, <2>1, <2>2, <2>3, MoveWatched DEF lifeVars
<1>5. CASE StartNext(r)
    <2>1. PICK w \in th[r].todo :
            Goes(r, IF w \in Running THEN [th[r] EXCEPT !.todo = @ \ {w}]
                    ELSE [th[r] EXCEPT !.at = "build", !.wallet = w])
        BY <1>5 DEF StartNext
    <2>2. th[r].at = "start" /\ UNCHANGED <<engines, monitor, scanner, buys>>
        BY <1>5 DEF StartNext, lifeVars
    <2>3. [th[r] EXCEPT !.todo = @ \ {w}].at = "start"
        BY <1>1, <2>2 DEF Thread
    <2>4. /\ [th[r] EXCEPT !.at = "build", !.wallet = w].at = "build"
          /\ [th[r] EXCEPT !.at = "build", !.wallet = w].wallet = w
        BY <1>1 DEF Thread
    <2>5. CASE w \in Running
        <3>1. PICK l : Goes(r, l) /\ l.at = "start"
            BY <2>1, <2>3, <2>5
        <3>2. PlacingOK(l) /\ RequestOK(l)
            BY <3>1 DEF PlacingOK, RequestOK
        <3>. QED
            BY <1>1, <2>2, <3>1, <3>2, MoveWatched
    <2>6. CASE w \notin Running
        <3>1. PICK l : Goes(r, l) /\ l.at = "build" /\ l.wallet = w
            BY <2>1, <2>4, <2>6
        <3>2. PlacingOK(l) /\ RequestOK(l)
            BY <2>6, <3>1 DEF PlacingOK, RequestOK
        <3>. QED
            BY <1>1, <2>2, <3>1, <3>2, MoveWatched
    <2>. QED
        BY <2>5, <2>6
<1>6. CASE WalletFails(r)
    <2>1. th[r].at = "build" /\ Goes(r, Gone) /\ UNCHANGED <<engines, monitor, scanner, buys>>
        BY <1>6 DEF WalletFails, Returns, lifeVars
    <2>. QED
        BY <1>1, <1>3, <2>1, MoveWatched
<1>7. CASE StartEnds(r)
    <2>1. th[r].at = "start" /\ UNCHANGED <<engines, monitor, buys>>
        BY <1>7 DEF StartEnds
    <2>2. CASE UNCHANGED scanner /\ Returns(r)
        BY <1>1, <1>3, <2>1, <2>2, MoveWatched DEF Returns
    <2>3. CASE \E s \in Scanners : th' = [th EXCEPT ![r] = Gone, ![s] = [Gone EXCEPT !.at = "loop"]]
        <3>1. PICK s \in Scanners : th' = [th EXCEPT ![r] = Gone, ![s] = [Gone EXCEPT !.at = "loop"]]
            BY <2>3
        <3>2. [Gone EXCEPT !.at = "loop"].at = "loop"
            BY DEF Gone
        <3>3. \A q \in Threads : th'[q] = IF q = s THEN [Gone EXCEPT !.at = "loop"]
                                          ELSE IF q = r THEN Gone ELSE th[q]
            BY <1>1, <3>1 DEF Threads
        <3>4. Running' = Running
            BY <2>1 DEF Running
        <3>5. \A q \in Threads : PlacingOK(th[q])'
            BY <1>2, <3>2, <3>3, <3>4 DEF WInv, PlacingOK
        <3>6. \A q \in Routes : th'[q] = Gone
            BY <3>3, ThreadsAssumption DEF Alone, Threads
        <3>7. \A q \in Routes : RequestOK(th[q])'
            BY <1>2, <3>6 DEF RequestOK
        <3>8. ToldAreAwaited'
            BY <2>1, NoneTold DEF ToldAreAwaited
        <3>9. BuysAreWatched'
            <4>1. \A w \in buys : w \in Running /\ monitor[w][engines[w]] = "on"
                BY <2>1 DEF Alone, WInv, BuysAreWatched
            <4>. QED
                BY <2>1, <3>4, <4>1 DEF BuysAreWatched
        <3>10. WorkersOK'
            BY <2>1, <3>4 DEF WInv, WorkersOK
        <3>. QED
            BY <3>5, <3>7, <3>8, <3>9, <3>10 DEF WInv
    <2>. QED
        BY <1>7, <2>2, <2>3 DEF StartEnds
<1>. QED
    BY <1>4, <1>5, <1>6, <1>7

LEMMA BuiltWatched ==
    ASSUME Alone, WInv, SInv', NEW r \in Routes, WalletBuilt(r)
    PROVE  WInv'
<1>1. r \in Threads /\ th[r] \in Thread /\ th \in [Threads -> Thread] /\ TypeOK
    BY DEF Threads, WInv, SInv, TInv, TypeOK
<1>2. th[r].at = "build" /\ th[r].wallet \in Wallets /\ UNCHANGED <<scanner, buys>>
    BY <1>1 DEF WalletBuilt, WInv, SInv, TInv, WalletNamed, AtWork
<1>3. th[r].wallet \notin Running
    BY <1>2 DEF WInv, RequestOK
<1>4. PICK k \in Monitors :
        /\ monitor[th[r].wallet][k] = "none"
        /\ monitor' = [monitor EXCEPT ![th[r].wallet][k] = "on"]
        /\ engines' = [engines EXCEPT ![th[r].wallet] = k]
    BY DEF WalletBuilt
<1>5. \A w \in Wallets : engines'[w] = IF w = th[r].wallet THEN k ELSE engines[w]
    BY <1>1, <1>4 DEF TypeOK
<1>6. \A w \in Wallets : \A l \in Monitors :
        monitor'[w][l] = IF w = th[r].wallet /\ l = k THEN "on" ELSE monitor[w][l]
    BY <1>1, <1>2, <1>4 DEF TypeOK
<1>7. k # 0
    BY DEF Monitors
<1>8. Running' = Running \cup {th[r].wallet}
    BY <1>2, <1>5, <1>7 DEF Running
<1>9. th[r].wallet \in Wallets /\ engines[th[r].wallet] = 0
    BY <1>2, <1>3 DEF Running
<1>10. \A l \in Monitors : monitor[th[r].wallet][l] # "on"
    BY <1>9 DEF WInv, WorkersOK, Monitors
<1>11. WorkersOK'
    <2>1. \A w \in Running' : monitor'[w][engines'[w]] = "on"
        <3>1. SUFFICES ASSUME NEW w \in Running' PROVE monitor'[w][engines'[w]] = "on"
            OBVIOUS
        <3>2. CASE w = th[r].wallet
            BY <1>2, <1>5, <1>6, <3>2
        <3>3. CASE w # th[r].wallet
            <4>1. w \in Running /\ w \in Wallets /\ engines[w] \in Monitors
                BY <1>1, <1>8, <3>1, <3>3 DEF Running, TypeOK
            <4>2. monitor[w][engines[w]] = "on"
                BY <4>1 DEF WInv, WorkersOK
            <4>. QED
                BY <1>5, <1>6, <3>3, <4>1, <4>2
        <3>. QED
            BY <3>2, <3>3
    <2>2. \A w \in Wallets : \A l \in Monitors : monitor'[w][l] = "on" => engines'[w] = l
        BY <1>5, <1>6, <1>10 DEF WInv, WorkersOK
    <2>. QED
        BY <2>1, <2>2 DEF WorkersOK
<1>12. ToldAreAwaited'
    <2>1. \A w \in Wallets : \A l \in Monitors : monitor'[w][l] # "told"
        BY <1>2, <1>6, NoneTold
    <2>. QED
        BY <2>1 DEF ToldAreAwaited
<1>13. PICK l : Goes(r, l) /\ l.at = "start"
    <2>1. [th[r] EXCEPT !.at = "start", !.todo = @ \ {th[r].wallet}, !.wallet = None].at = "start"
        BY <1>1 DEF Thread
    <2>. QED
        BY <2>1 DEF WalletBuilt
<1>14. \A q \in Threads : th'[q] = IF q = r THEN l ELSE th[q]
    BY <1>1, <1>13 DEF Goes
<1>15. \A q \in Threads : PlacingOK(th[q])'
    BY <1>8, <1>13, <1>14 DEF WInv, PlacingOK
<1>16. \A q \in Routes : RequestOK(th[q])'
    BY <1>1, <1>13, <1>14 DEF Alone, RequestOK
<1>17. BuysAreWatched'
    <2>1. \A w \in buys : w \in Running
        BY <1>2 DEF Alone, WInv, BuysAreWatched
    <2>. QED
        BY <1>2, <1>8, <1>11, <2>1 DEF BuysAreWatched, WorkersOK
<1>. QED
    BY <1>11, <1>12, <1>15, <1>16, <1>17 DEF WInv

LEMMA JoinWatched ==
    ASSUME Alone, WInv, SInv', NEW r \in Routes, JoinScanner(r) \/ StopEnds(r)
    PROVE  WInv'
<1>1. r \in Threads /\ th[r] \in Thread /\ th \in [Threads -> Thread]
    BY DEF Threads, WInv, SInv, TInv, TypeOK
<1>2. CASE StopEnds(r)
    <2>1. th[r].at = "stop" /\ UNCHANGED <<engines, monitor, scanner, buys>>
        BY <1>2 DEF StopEnds, lifeVars
    <2>2. PICK l : Goes(r, l) /\ l.at \in {"none", "start"}
        <3>1. Gone.at = "none" /\ [Gone EXCEPT !.at = "start", !.op = "all", !.todo = Wallets].at = "start"
            BY DEF Gone
        <3>. QED
            BY <1>2, <3>1 DEF StopEnds, Starting, Returns
    <2>3. PlacingOK(l) /\ RequestOK(l)
        BY <2>2 DEF PlacingOK, RequestOK
    <2>. QED
        BY <1>1, <2>1, <2>2, <2>3, MoveWatched
<1>3. CASE JoinScanner(r)
    <2>1. th[r].at = "join" /\ UNCHANGED <<engines, monitor, buys>> /\ scanner' = None
        BY <1>3 DEF JoinScanner
    <2>2. PICK l : Goes(r, l) /\ l.at = "stop"
        <3>1. [th[r] EXCEPT !.at = "stop", !.todo = Running].at = "stop"
            BY <1>1 DEF Thread
        <3>. QED
            BY <1>3, <3>1 DEF JoinScanner
    <2>3. \A q \in Threads : th'[q] = IF q = r THEN l ELSE th[q]
        BY <1>1, <2>2 DEF Goes
    <2>4. Running' = Running
        BY <2>1 DEF Running
    <2>5. \A q \in Threads : PlacingOK(th[q])'
        BY <2>2, <2>3, <2>4 DEF WInv, PlacingOK
    <2>6. \A q \in Routes : RequestOK(th[q])'
        BY <1>1, <2>1, <2>2, <2>3 DEF Alone, RequestOK
    <2>7. ToldAreAwaited'
        BY <2>1, NoneTold DEF ToldAreAwaited
    <2>8. BuysAreWatched'
        <3>1. \A w \in buys : w \in Running /\ monitor[w][engines[w]] = "on"
            BY <2>1 DEF Alone, WInv, BuysAreWatched
        <3>. QED
            BY <2>1, <2>4, <3>1 DEF BuysAreWatched
    <2>9. WorkersOK'
        BY <2>1, <2>4 DEF WInv, WorkersOK
    <2>. QED
        BY <2>5, <2>6, <2>7, <2>8, <2>9 DEF WInv
<1>. QED
    BY <1>2, <1>3

LEMMA StopWatched ==
    ASSUME Alone, WInv, SInv', NEW r \in Routes, StopNext(r)
    PROVE  WInv'
<1>1. r \in Threads /\ th[r] \in Thread /\ th \in [Threads -> Thread] /\ TypeOK
    BY DEF Threads, WInv, SInv, TInv, TypeOK
<1>2. th[r].at = "stop" /\ UNCHANGED <<scanner, buys>>
    BY DEF StopNext
<1>3. scanner = None
    BY <1>2 DEF WInv, RequestOK
<1>4. PICK w \in th[r].todo :
        IF w \notin Running
        THEN Goes(r, [th[r] EXCEPT !.todo = @ \ {w}]) /\ UNCHANGED <<engines, monitor>>
        ELSE /\ engines' = [engines EXCEPT ![w] = 0]
             /\ monitor' = [monitor EXCEPT ![w][engines[w]] = "told"]
             /\ Goes(r, [th[r] EXCEPT !.at = "joinMonitor", !.wallet = w, !.slot = engines[w]])
    BY DEF StopNext
<1>5. CASE w \notin Running
    <2>1. PICK l : Goes(r, l) /\ l.at = "stop"
        <3>1. [th[r] EXCEPT !.todo = @ \ {w}].at = "stop"
            BY <1>1, <1>2 DEF Thread
        <3>. QED
            BY <1>4, <1>5, <3>1
    <2>2. PlacingOK(l) /\ RequestOK(l)
        BY <1>3, <2>1 DEF PlacingOK, RequestOK
    <2>. QED
        BY <1>1, <1>2, <1>4, <1>5, <2>1, <2>2, MoveWatched
<1>6. CASE w \in Running
    <2>1. w \in Wallets /\ engines[w] \in Monitors
        BY <1>1, <1>6 DEF TypeOK, Running
    <2>2. \A v \in Wallets : engines'[v] = IF v = w THEN 0 ELSE engines[v]
        BY <1>1, <1>4, <1>6 DEF TypeOK
    <2>3. \A v \in Wallets : \A k \in Monitors :
            monitor'[v][k] = IF v = w /\ k = engines[w] THEN "told" ELSE monitor[v][k]
        BY <1>1, <1>4, <1>6, <2>1 DEF TypeOK
    <2>4. Running' = Running \ {w}
        BY <2>2 DEF Running
    <2>5. PICK l : Goes(r, l) /\ l.at = "joinMonitor" /\ l.wallet = w /\ l.slot = engines[w]
        <3>1. /\ [th[r] EXCEPT !.at = "joinMonitor", !.wallet = w, !.slot = engines[w]].at = "joinMonitor"
              /\ [th[r] EXCEPT !.at = "joinMonitor", !.wallet = w, !.slot = engines[w]].wallet = w
              /\ [th[r] EXCEPT !.at = "joinMonitor", !.wallet = w, !.slot = engines[w]].slot = engines[w]
            BY <1>1 DEF Thread
        <3>. QED
            BY <1>4, <1>6, <3>1
    <2>6. \A q \in Threads : th'[q] = IF q = r THEN l ELSE th[q]
        BY <1>1, <2>5 DEF Goes
    <2>7. \A q \in Threads : PlacingOK(th[q])'
        BY <1>2, <2>5, <2>6, NobodyPlaces DEF PlacingOK
    <2>8. \A q \in Routes : RequestOK(th[q])'
        BY <1>1, <1>2, <1>3, <2>4, <2>5, <2>6 DEF Alone, RequestOK
    <2>9. WorkersOK'
        <3>1. \A v \in Running' : v \in Running /\ v \in Wallets /\ v # w /\ engines[v] \in Monitors
            BY <1>1, <2>4 DEF Running, TypeOK
        <3>2. \A v \in Running' : monitor'[v][engines'[v]] = "on"
            BY <2>2, <2>3, <3>1 DEF WInv, WorkersOK
        <3>3. \A v \in Wallets : \A k \in Monitors : monitor'[v][k] = "on" => engines'[v] = k
            BY <2>2, <2>3 DEF WInv, WorkersOK
        <3>. QED
            BY <3>2, <3>3 DEF WorkersOK
    <2>10. ToldAreAwaited'
        <3>1. \A v \in Wallets : \A k \in Monitors :
                monitor'[v][k] = "told" => v = w /\ k = engines[w]
            BY <1>2, <2>3, NoneTold
        <3>2. th'[r].at = "joinMonitor" /\ th'[r].wallet = w /\ th'[r].slot = engines[w]
            BY <1>1, <2>5, <2>6
        <3>. QED
            BY <3>1, <3>2 DEF ToldAreAwaited
    <2>11. BuysAreWatched'
        <3>1. \A v \in buys : v \in Running
            BY <1>2 DEF Alone, WInv, BuysAreWatched
        <3>2. th'[r].at = "joinMonitor" /\ th'[r].wallet = w
            BY <1>1, <2>5, <2>6
        <3>3. \A v \in buys : v # w => v \in Running'
            BY <2>4, <3>1
        <3>. QED
            BY <1>2, <2>9, <3>2, <3>3 DEF BuysAreWatched, WorkersOK
    <2>. QED
        BY <2>7, <2>8, <2>9, <2>10, <2>11 DEF WInv
<1>. QED
    BY <1>5, <1>6

LEMMA CancelWatched ==
    ASSUME Alone, Calm, WInv, SInv', NEW r \in Routes, JoinMonitor(r) \/ CancelBuys(r)
    PROVE  WInv'
<1>1. r \in Threads /\ th[r] \in Thread /\ th \in [Threads -> Thread]
    BY DEF Threads, WInv, SInv, TInv, TypeOK
<1>2. th[r].at \in {"joinMonitor", "cancel"} /\ UNCHANGED <<engines, monitor, scanner>>
    BY DEF JoinMonitor, CancelBuys, lifeVars
<1>3. scanner = None
    BY <1>2 DEF WInv, RequestOK
<1>4. Running' = Running
    BY <1>2 DEF Running
<1>5. WorkersOK'
    BY <1>2, <1>4 DEF WInv, WorkersOK
<1>6. CASE JoinMonitor(r)
    <2>1. th[r].at = "joinMonitor" /\ monitor[th[r].wallet][th[r].slot] = "none" /\ UNCHANGED buys
        BY <1>6 DEF JoinMonitor, Calm
    <2>2. PICK l : Goes(r, l) /\ l.at = "cancel" /\ l.wallet = th[r].wallet
        <3>1. [th[r] EXCEPT !.at = "cancel"].at = "cancel" /\ [th[r] EXCEPT !.at = "cancel"].wallet = th[r].wallet
            BY <1>1 DEF Thread
        <3>. QED
            BY <1>6, <3>1 DEF JoinMonitor
    <2>3. \A q \in Threads : th'[q] = IF q = r THEN l ELSE th[q]
        BY <1>1, <2>2 DEF Goes
    <2>4. \A q \in Threads : PlacingOK(th[q])'
        BY <1>2, <2>2, <2>3, NobodyPlaces DEF PlacingOK
    <2>5. \A q \in Routes : RequestOK(th[q])'
        <3>1. th[r].wallet \notin Running
            BY <2>1 DEF WInv, RequestOK
        <3>. QED
            BY <1>1, <1>2, <1>3, <1>4, <2>2, <2>3, <3>1 DEF Alone, RequestOK
    <2>6. ToldAreAwaited'
        <3>1. \A w \in Wallets : \A k \in Monitors : monitor[w][k] # "told"
            BY <2>1 DEF Alone, WInv, ToldAreAwaited
        <3>. QED
            BY <1>2, <3>1 DEF ToldAreAwaited
    <2>7. BuysAreWatched'
        <3>1. \A w \in buys : (w \in Running /\ monitor[w][engines[w]] = "on") \/ w = th[r].wallet
            BY DEF Alone, WInv, BuysAreWatched
        <3>2. th'[r].at = "cancel" /\ th'[r].wallet = th[r].wallet
            BY <1>1, <2>2, <2>3
        <3>. QED
            BY <1>2, <1>4, <2>1, <3>1, <3>2 DEF BuysAreWatched
    <2>. QED
        BY <1>5, <2>4, <2>5, <2>6, <2>7 DEF WInv
<1>7. CASE CancelBuys(r)
    <2>1. th[r].at = "cancel" /\ buys' = buys \ {th[r].wallet}
        BY <1>7 DEF CancelBuys, Calm
    <2>2. PICK l : Goes(r, l) /\ l.at = "stop"
        <3>1. [th[r] EXCEPT !.at = "stop", !.todo = @ \ {th[r].wallet},
                            !.wallet = None, !.slot = 0].at = "stop"
            BY <1>1 DEF Thread
        <3>. QED
            BY <1>7, <3>1 DEF CancelBuys
    <2>3. \A q \in Threads : th'[q] = IF q = r THEN l ELSE th[q]
        BY <1>1, <2>2 DEF Goes
    <2>4. \A q \in Threads : PlacingOK(th[q])'
        BY <1>2, <2>2, <2>3, NobodyPlaces DEF PlacingOK
    <2>5. \A q \in Routes : RequestOK(th[q])'
        BY <1>1, <1>2, <1>3, <2>2, <2>3 DEF Alone, RequestOK
    <2>6. ToldAreAwaited'
        BY <1>2, <2>1, NoneTold DEF ToldAreAwaited
    <2>7. BuysAreWatched'
        <3>1. \A w \in buys : (w \in Running /\ monitor[w][engines[w]] = "on") \/ w = th[r].wallet
            BY DEF Alone, WInv, BuysAreWatched
        <3>. QED
            BY <1>2, <1>4, <2>1, <3>1 DEF BuysAreWatched
    <2>. QED
        BY <1>5, <2>4, <2>5, <2>6, <2>7 DEF WInv
<1>. QED
    BY <1>6, <1>7

LEMMA MonitorEndsWatched ==
    ASSUME WInv, SInv', NEW w \in Wallets, NEW k \in Monitors, MonitorEnds(w, k)
    PROVE  WInv'
<1>1. TypeOK /\ monitor[w][k] = "told" /\ UNCHANGED <<engines, scanner, th, buys>>
    BY DEF WInv, SInv, TInv, MonitorEnds
<1>2. \A v \in Wallets : \A l \in Monitors :
        monitor'[v][l] = IF v = w /\ l = k THEN "none" ELSE monitor[v][l]
    BY <1>1 DEF TypeOK, MonitorEnds
<1>3. Running' = Running /\ \A v \in Running : v \in Wallets /\ engines[v] \in Monitors
    BY <1>1 DEF Running, TypeOK
<1>4. WorkersOK'
    BY <1>1, <1>2, <1>3 DEF WInv, WorkersOK
<1>5. ToldAreAwaited'
    BY <1>1, <1>2 DEF WInv, ToldAreAwaited
<1>6. BuysAreWatched'
    <2>1. \A v \in buys :
            \/ v \in Running
            \/ \E r \in Routes : th[r].at \in {"joinMonitor", "cancel"} /\ th[r].wallet = v
        BY DEF WInv, BuysAreWatched
    <2>. QED
        BY <1>1, <1>3, <1>4, <2>1 DEF BuysAreWatched, WorkersOK
<1>7. \A t \in Threads : PlacingOK(th[t])'
    BY <1>1, <1>3 DEF WInv, PlacingOK
<1>8. \A r \in Routes : RequestOK(th[r])'
    BY <1>1, <1>3 DEF WInv, RequestOK
<1>. QED
    BY <1>4, <1>5, <1>6, <1>7, <1>8 DEF WInv

LEMMA InitWatched == Init => WInv
<1>. SUFFICES ASSUME Init PROVE WInv
    OBVIOUS
<1>1. Running = {} /\ \A t \in Threads : th[t].at = "none"
    BY DEF Init, Running, Gone
<1>2. \A t \in Threads : PlacingOK(th[t])
    BY <1>1 DEF PlacingOK
<1>3. \A r \in Routes : RequestOK(th[r])
    BY <1>1 DEF RequestOK, Threads
<1>4. WorkersOK /\ ToldAreAwaited /\ BuysAreWatched
    BY <1>1 DEF Init, WorkersOK, ToldAreAwaited, BuysAreWatched
<1>. QED
    BY <1>2, <1>3, <1>4, InitOne DEF WInv

LEMMA NextWatched ==
    ASSUME Alone, Calm, WInv, [Next]_vars
    PROVE  WInv'
<1>1. SInv'
    BY NextOne DEF WInv, Calm, Sequential
<1>2. CASE StartScan \/ \E g \in Scans : ScanStep(g) \/ ScanFound(g)
    <2>1. UNCHANGED <<engines, monitor, scanner, th, buys>>
        BY <1>2 DEF StartScan, ScanFound, ScanStep, ScanWithoutApi, ScanBegin, ScanSuperseded,
                    ScanFails, ScanDone, ScanChecks, ScanSave, ScanEnd, lifeVars
    <2>. QED
        BY <1>1, <2>1, IdleWatched
<1>3. CASE \E s \in Scanners : LoopStep(s) \/ DiscoveryFound(s)
    BY <1>1, <1>3, LoopWatched
<1>4. CASE \E t \in Threads : PlaceStep(t) \/ Placing(t)
    BY <1>1, <1>4, PlaceWatched
<1>5. CASE \E r \in Routes : Request(r)
    BY <1>1, <1>5, RequestWatched
<1>6. CASE \E r \in Routes : RequestStep(r)
    BY <1>1, <1>6, StartWatched, BuiltWatched, JoinWatched, StopWatched, CancelWatched DEF RequestStep
<1>7. CASE \E w \in Wallets, k \in Monitors : MonitorEnds(w, k)
    BY <1>1, <1>7, MonitorEndsWatched
<1>8. CASE UNCHANGED vars
    BY <1>1, <1>8, IdleWatched DEF vars
<1>. QED
    BY <1>2, <1>3, <1>4, <1>5, <1>6, <1>7, <1>8 DEF Next

\* With one request thread at a time and none of the disturbances of Env, a wallet
\* never has two monitor threads, counting one told to stop but still in its tick.
THEOREM OneMonitorThread ==
    ASSUME Alone, Calm
    PROVE  Spec => []OneMonitor
<1>1. WInv => OneMonitor
    <2>. SUFFICES ASSUME WInv, NEW w \in Wallets, NEW k \in Monitors, NEW l \in Monitors,
                         monitor[w][k] # "none", monitor[w][l] # "none"
                  PROVE  k = l
        BY DEF OneMonitor
    <2>1. monitor[w][k] \in {"on", "told"} /\ monitor[w][l] \in {"on", "told"}
        BY DEF WInv, SInv, TInv, TypeOK
    <2>2. \A i, j \in Monitors : monitor[w][i] = "on" /\ monitor[w][j] = "told" => FALSE
        <3>. SUFFICES ASSUME NEW i \in Monitors, NEW j \in Monitors,
                             monitor[w][i] = "on", monitor[w][j] = "told"
                      PROVE  FALSE
            OBVIOUS
        <3>1. PICK r \in Routes : th[r].at = "joinMonitor" /\ th[r].wallet = w
            BY DEF WInv, ToldAreAwaited
        <3>2. w \notin Running
            BY <3>1 DEF WInv, RequestOK
        <3>3. engines[w] = i /\ i # 0
            BY DEF WInv, WorkersOK, Monitors
        <3>. QED
            BY <3>2, <3>3 DEF Running
    <2>3. CASE monitor[w][k] = "on" /\ monitor[w][l] = "on"
        BY <2>3 DEF WInv, WorkersOK
    <2>4. CASE monitor[w][k] = "told" /\ monitor[w][l] = "told"
        BY <2>4 DEF Alone, WInv, ToldAreAwaited
    <2>. QED
        BY <2>1, <2>2, <2>3, <2>4
<1>2. WInv /\ [Next]_vars => WInv'
    BY NextWatched
<1>. QED
    BY <1>1, <1>2, InitWatched, PTL DEF Spec

\* Under the same assumptions no reward buy rests without a monitor to see its
\* fills, except during the stop that cancels it.
THEOREM BuysStayWatched ==
    ASSUME Alone, Calm
    PROVE  Spec => []BuysAreWatched
<1>1. WInv => BuysAreWatched
    BY DEF WInv
<1>2. WInv /\ [Next]_vars => WInv'
    BY NextWatched
<1>. QED
    BY <1>1, <1>2, InitWatched, PTL DEF Spec

-----------------------------------------------------------------------------
\* The saved scan

\* A scan is saved when it was the latest, and before any newer one is through.
GInv ==
    /\ TInv
    /\ saved <= generation
    /\ \A g \in Scans : scans[g].at # "none" => g <= generation
    /\ \A g \in Scans : scans[g].at = "write" => saved <= g
    /\ \A g, h \in Scans : g < h /\ scans[h].at \in {"save", "write"} => scans[g].at # "write"

LEMMA SavedScan ==
    ASSUME "slowSave" \notin Env, GInv, TInv', NEW g \in Scans, ScanStep(g)
    PROVE  GInv' /\ saved' >= saved
<1>1. /\ saved \in Nat /\ generation \in Nat /\ g \in Nat /\ generation' = generation
      /\ \A h \in Scans : h \in Nat
      /\ scans[g].at # "none" /\ g <= generation
    BY ThreadsAssumption
       DEF GInv, TInv, TypeOK, Scans, ScanStep, ScanWithoutApi, ScanBegin, ScanSuperseded,
           ScanFails, ScanDone, ScanChecks, ScanSave, ScanEnd
<1>2. PICK at : \A h \in Scans : scans'[h].at = IF h = g THEN at ELSE scans[h].at
    BY DEF GInv, TInv, TypeOK, ScanStep, ScanWithoutApi, ScanBegin, ScanSuperseded, ScanFails,
           ScanDone, ScanChecks, ScanSave, ScanEnd, ScanGoes
<1>3. CASE ScanDone(g)
    <2>1. saved' = saved /\ at = "save" /\ \A h \in 1..g : scans[h].at # "write"
        BY <1>2, <1>3 DEF ScanDone, ScanGoes, GInv, TInv, TypeOK
    <2>2. \A h \in Scans : h < g => scans[h].at # "write"
        BY <1>1, <2>1 DEF Scans
    <2>. QED
        BY <1>1, <1>2, <2>1, <2>2 DEF GInv
<1>4. CASE ScanChecks(g)
    <2>1. saved' = saved /\ at \in {"write", "end"} /\ (at = "write" => g = generation)
        BY <1>2, <1>4 DEF ScanChecks, ScanGoes, Current, GInv, TInv, TypeOK
    <2>2. scans[g].at = "save"
        BY <1>4 DEF ScanChecks
    <2>. QED
        BY <1>1, <1>2, <2>1, <2>2 DEF GInv
<1>5. CASE ScanSave(g)
    <2>1. saved' = g /\ at = "end" /\ scans[g].at = "write"
        BY <1>2, <1>5 DEF ScanSave, ScanGoes, GInv, TInv, TypeOK
    <2>2. saved <= g /\ \A h \in Scans : h < g => scans[h].at # "write"
        BY <2>1 DEF GInv
    <2>. QED
        BY <1>1, <1>2, <2>1, <2>2 DEF GInv
<1>6. CASE ScanWithoutApi(g) \/ ScanBegin(g) \/ ScanSuperseded(g) \/ ScanFails(g) \/ ScanEnd(g)
    <2>1. saved' = saved /\ at \notin {"save", "write"}
        BY <1>2, <1>6 DEF ScanWithoutApi, ScanBegin, ScanSuperseded, ScanFails, ScanEnd,
                          ScanGoes, GInv, TInv, TypeOK
    <2>. QED
        BY <1>1, <1>2, <2>1 DEF GInv
<1>. QED
    BY <1>3, <1>4, <1>5, <1>6 DEF ScanStep

LEMMA SavedStep ==
    ASSUME "slowSave" \notin Env, GInv, [Next]_vars
    PROVE  GInv' /\ saved' >= saved
<1>1. saved \in Nat /\ generation \in Nat /\ TInv'
    BY NextTyped, ThreadsAssumption DEF GInv, TInv, TypeOK
<1>2. CASE UNCHANGED <<saved, generation, scans>>
    BY <1>1, <1>2 DEF GInv
<1>3. CASE StartScan
    <2>1. generation' = generation + 1 /\ saved' = saved
        BY <1>3 DEF StartScan
    <2>2. \A h \in Scans : scans'[h].at = IF h = generation + 1 THEN "begin" ELSE scans[h].at
        BY <1>3 DEF StartScan, GInv, TInv, TypeOK, Scan
    <2>3. \A h \in Scans : h \in Nat
        BY ThreadsAssumption DEF Scans
    <2>. QED
        BY <1>1, <2>1, <2>2, <2>3 DEF GInv
<1>4. CASE \E g \in Scans : ScanStep(g)
    BY <1>1, <1>4, SavedScan
<1>5. CASE \E g \in Scans : ScanFound(g)
    BY <1>2, <1>5 DEF ScanFound, scanVars
<1>6. CASE \E s \in Scanners : LoopStep(s) \/ DiscoveryFound(s)
    BY <1>2, <1>6 DEF LoopStep, LoopEnds, LoopDiscovers, LoopPlaces, DiscoveryEnds, RoundBegins,
                      RoundSkipped, DiscoveryFound, scanVars
<1>7. CASE \E t \in Threads : PlaceStep(t) \/ Placing(t)
    BY <1>2, <1>7 DEF PlaceStep, PlaceWallet, WalletPlaced, PlaceEnds, Placing, scanVars
<1>8. CASE \E r \in Routes : Request(r) \/ RequestStep(r)
    BY <1>2, <1>8 DEF scanVars, Request, PlaceAll, CancelAll, StartAll, StartMonitors, StopAll,
                      TestPlace, StopOne, RequestStep, CancelNext, StartNext, WalletBuilt,
                      WalletFails, StartEnds, JoinScanner, StopNext, JoinMonitor, CancelBuys, StopEnds
<1>9. CASE \E w \in Wallets, k \in Monitors : MonitorEnds(w, k)
    BY <1>2, <1>9 DEF MonitorEnds, scanVars
<1>10. CASE UNCHANGED vars
    BY <1>2, <1>10 DEF vars
<1>. QED
    BY <1>3, <1>4, <1>5, <1>6, <1>7, <1>8, <1>9, <1>10 DEF Next

\* The table of eligible markets never goes back to an older scan, if a scan is
\* saved before the next one is through: one that was superseded and comes
\* through late is not saved.  Nothing is assumed of the other threads.
THEOREM SavedMovesForward ==
    ASSUME "slowSave" \notin Env
    PROVE  Spec => SavedForward
<1>1. Init => GInv
    <2>. SUFFICES ASSUME Init PROVE GInv
        OBVIOUS
    <2>1. TInv /\ saved = 0 /\ generation = 0 /\ \A g \in Scans : scans[g].at = "none"
        BY InitTypes DEF Init
    <2>. QED
        BY <2>1 DEF GInv
<1>2. GInv /\ [Next]_vars => GInv' /\ [saved' >= saved]_vars
    BY SavedStep
<1>. QED
    BY <1>1, <1>2, PTL DEF Spec, SavedForward
=============================================================================
