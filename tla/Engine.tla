------------------------------- MODULE Engine -------------------------------
(***************************************************************************)
(* The life cycle of the engine (EngineManager in engine/manager.py): the  *)
(* scanner loop that discovers markets and runs placing rounds, the        *)
(* monitor thread of each wallet, scans asked for by hand, and the request *)
(* threads of the web server that start, stop and restart all of these.    *)
(*                                                                         *)
(* A thread is at one place of the code at a time; between two of its      *)
(* steps every other thread may run.  The candidate pool is abstracted to  *)
(* whether it is empty, being filled by a scan, or the result of one, and  *)
(* a wallet's reward buys to whether any rests.  What a round does to the  *)
(* single orders is the subject of BuyOrders.                              *)
(***************************************************************************)
EXTENDS Integers

CONSTANTS
    Wallets,        \* the enabled wallets
    Scanners,       \* bound: scanner threads alive at once
    Routes,         \* request threads of the web server
    MaxMonitors,    \* bound: monitor threads of one wallet alive at once
    MaxScans,       \* bound: scans started by hand
    None,           \* no thread, no wallet
    Env             \* what else may happen

\* startTwice: start_all while a scanner loop runs.  slowJoin: a thread may take
\* longer than the 30 s stop waits for it.  stopOne: one wallet is stopped while
\* a scanner loop runs.  test: test_place_orders on a wallet without worker.
\* noCancel: the cancel of a stopped wallet's buys may fail.  slowSave: saving a
\* scan may take longer than the whole next scan.
Disturbances == {"startTwice", "slowJoin", "stopOne", "test", "noCancel", "slowSave"}

ASSUME EnvAssumption == Env \subseteq Disturbances
ASSUME ThreadsAssumption ==
    /\ Scanners \cap Routes = {} /\ None \notin Scanners \cup Wallets
    /\ MaxMonitors \in Nat /\ MaxScans \in Nat

Threads == Scanners \cup Routes
Monitors == 1..MaxMonitors      \* the workers a wallet has had, recycled
Scans == 1..MaxScans            \* scans by hand, by generation
Pools == {"empty", "partial", "whole"}

Thread == [at : {"none", "loop", "discover", "round", "place", "placing", "start", "build",
                 "join", "stop", "joinMonitor", "cancel", "cancelAll"},
           op : {"all", "monitors", "stop", "restart"},
           todo : SUBSET Wallets, wallet : Wallets \cup {None},
           slot : Monitors \cup {0}, prev : Pools]
Gone == [at |-> "none", op |-> "all", todo |-> {}, wallet |-> None, slot |-> 0,
         prev |-> "empty"]
Scan == [at : {"none", "begin", "fetch", "save", "write", "end"}, prev : Pools]

VARIABLES
    engines,    \* manager.engines: the worker of each wallet, 0 if none
    monitor,    \* each worker's thread: "none", "on", or "told" to stop
    stopEvent,  \* manager._stop_event
    scanner,    \* manager._scanner_thread
    pool,       \* manager.eligible_markets
    saved,      \* generation of the scan in the eligible_markets table
    status,     \* manager.scan_status is "scanning"
    generation, \* manager._scan_generation
    scannerApi, \* manager._scanner_api is built; it never goes away again
    scans,      \* each scan by hand: its place in the code, prev_eligible
    th,         \* each scanner and request thread: its place and local variables
    buys        \* wallets with a reward buy resting on the CLOB

scanVars == <<saved, status, generation, scannerApi, scans>>
lifeVars == <<engines, monitor, stopEvent, scanner>>
vars == <<engines, monitor, stopEvent, scanner, pool, saved, status, generation, scannerApi,
          scans, th, buys>>

Init ==
    /\ engines = [w \in Wallets |-> 0]
    /\ monitor = [w \in Wallets |-> [k \in Monitors |-> "none"]]
    /\ stopEvent = FALSE /\ scanner = None
    /\ pool = "empty" /\ saved = 0 /\ status = FALSE /\ generation = 0 /\ scannerApi = FALSE
    /\ scans = [g \in Scans |-> [at |-> "none", prev |-> "empty"]]
    /\ th = [t \in Threads |-> Gone]
    /\ buys = {}

Running == {w \in Wallets : engines[w] # 0}     \* wallets with a running worker
Live == {s \in Scanners : th[s].at # "none"}    \* scanner loops that have not ended
Goes(t, l) == th' = [th EXCEPT ![t] = l]
Returns(t) == Goes(t, Gone)

-----------------------------------------------------------------------------
\* Scans: _scan_with_status, by the scanner loop and by hand.

\* on_found appends to whatever list the pool is bound to.
Grown(p) == IF p = "empty" THEN "partial" ELSE p

\* A scan begins: it keeps the old pool and binds an empty one.
Blank == pool' = "empty" /\ status' = TRUE

\* A scan is through: its candidates, which may be none, become the pool.
Commit == pool' \in {"whole", "empty"} /\ status' = FALSE

\* A scan fails: the pool it found at its start comes back.
Restore(prev) == pool' = prev /\ status' = FALSE

Current(g) == g = generation

\* start_scan_async: refused while a scan runs, unless the owner insists.
StartScan ==
    /\ \E force \in BOOLEAN : status => force
    /\ generation < MaxScans
    /\ generation' = generation + 1 /\ status' = TRUE
    /\ scans' = [scans EXCEPT ![generation + 1].at = "begin"]
    /\ UNCHANGED <<lifeVars, pool, saved, scannerApi, th, buys>>

ScanGoes(g, at) == scans' = [scans EXCEPT ![g] = [at |-> at, prev |-> "empty"]]

\* No wallet to scan with, or its API cannot be built: the scan ends at once.
ScanWithoutApi(g) ==
    /\ scans[g].at = "begin" /\ ~scannerApi /\ ScanGoes(g, "end")
    /\ UNCHANGED <<lifeVars, pool, saved, status, generation, scannerApi, th, buys>>

ScanBegin(g) ==
    /\ scans[g].at = "begin"
    /\ scans' = [scans EXCEPT ![g] = [at |-> "fetch", prev |-> pool]] /\ scannerApi' = TRUE
    /\ IF Current(g) THEN Blank ELSE UNCHANGED <<pool, status>>
    /\ UNCHANGED <<lifeVars, saved, generation, th, buys>>

ScanFound(g) ==
    /\ scans[g].at = "fetch" /\ Current(g)
    /\ pool' = Grown(pool)
    /\ UNCHANGED <<lifeVars, scanVars, th, buys>>

\* A checkpoint notices the newer scan and raises ScanSuperseded.
ScanSuperseded(g) ==
    /\ scans[g].at = "fetch" /\ ~Current(g) /\ ScanGoes(g, "end")
    /\ UNCHANGED <<lifeVars, pool, saved, status, generation, scannerApi, th, buys>>

ScanFails(g) ==
    /\ scans[g].at = "fetch" /\ ScanGoes(g, "end")
    /\ IF Current(g) THEN Restore(scans[g].prev) ELSE UNCHANGED <<pool, status>>
    /\ UNCHANGED <<lifeVars, saved, generation, scannerApi, th, buys>>

ScanDone(g) ==
    /\ scans[g].at = "fetch" /\ ScanGoes(g, "save")
    /\ (\A h \in 1..g : scans[h].at # "write") \/ "slowSave" \in Env
    /\ IF Current(g) THEN Commit ELSE UNCHANGED <<pool, status>>
    /\ UNCHANGED <<lifeVars, saved, generation, scannerApi, th, buys>>

\* Variant: the result of a superseded scan is saved as well.
SaveAnyway(g) ==
    /\ scans[g].at = "save" /\ ScanGoes(g, "write")
    /\ UNCHANGED <<lifeVars, pool, saved, status, generation, scannerApi, th, buys>>

\* scan_markets asks once more whether it is current,
ScanChecks(g) ==
    /\ scans[g].at = "save" /\ ScanGoes(g, IF Current(g) THEN "write" ELSE "end")
    /\ UNCHANGED <<lifeVars, pool, saved, status, generation, scannerApi, th, buys>>

\* and then replaces the rows of the table; meanwhile a newer scan may begin.
ScanSave(g) ==
    /\ scans[g].at = "write" /\ ScanGoes(g, "end")
    /\ saved' = g
    /\ UNCHANGED <<lifeVars, pool, status, generation, scannerApi, th, buys>>

\* Variant: _run_scan has no finally.
EndQuietly(g) ==
    /\ scans[g].at = "end" /\ ScanGoes(g, "none")
    /\ UNCHANGED <<lifeVars, pool, saved, status, generation, scannerApi, th, buys>>

\* The finally of _run_scan: the latest scan leaves no "scanning" behind.
ScanEnd(g) ==
    /\ scans[g].at = "end" /\ ScanGoes(g, "none")
    /\ status' = (status /\ ~Current(g))
    /\ UNCHANGED <<lifeVars, pool, saved, generation, scannerApi, th, buys>>

ScanStep(g) ==
    \/ ScanWithoutApi(g) \/ ScanBegin(g) \/ ScanSuperseded(g)
    \/ ScanFails(g) \/ ScanDone(g) \/ ScanChecks(g) \/ ScanSave(g) \/ ScanEnd(g)

-----------------------------------------------------------------------------
\* The scanner loop

LoopEnds(s) ==
    /\ th[s].at = "loop" /\ stopEvent
    /\ Returns(s)
    /\ UNCHANGED <<lifeVars, pool, scanVars, buys>>

\* A turn discovers first if the pool is empty or discovery_interval is over.
LoopDiscovers(s) ==
    /\ th[s].at = "loop" /\ ~stopEvent /\ Running # {}
    /\ Goes(s, [th[s] EXCEPT !.at = "discover", !.prev = pool])
    /\ Blank
    /\ UNCHANGED <<lifeVars, saved, generation, scannerApi, scans, buys>>

LoopPlaces(s) ==
    /\ th[s].at = "loop" /\ ~stopEvent /\ Running # {} /\ pool # "empty"
    /\ Goes(s, [th[s] EXCEPT !.at = "round"])
    /\ UNCHANGED <<lifeVars, pool, scanVars, buys>>

DiscoveryFound(s) ==
    /\ th[s].at = "discover"
    /\ pool' = Grown(pool)
    /\ UNCHANGED <<lifeVars, scanVars, th, buys>>

DiscoveryEnds(s) ==
    /\ th[s].at = "discover"
    /\ Commit \/ Restore(th[s].prev)
    /\ Goes(s, [Gone EXCEPT !.at = "round"])
    /\ UNCHANGED <<lifeVars, saved, generation, scannerApi, scans, buys>>

\* _place_round prefilters the pool it finds for the running wallets.
RoundBegins(s) ==
    /\ th[s].at = "round" /\ pool # "empty"
    /\ Goes(s, [th[s] EXCEPT !.at = "place", !.todo = Running])
    /\ UNCHANGED <<lifeVars, pool, scanVars, buys>>

\* Nothing to place from, or the round raises before it places.
RoundSkipped(s) ==
    /\ th[s].at = "round"
    /\ Goes(s, [th[s] EXCEPT !.at = "loop"])
    /\ UNCHANGED <<lifeVars, pool, scanVars, buys>>

\* The next wallet, if its worker still runs.
PlaceWallet(t) ==
    /\ th[t].at = "place"
    /\ \E w \in th[t].todo :
          Goes(t, IF w \in Running THEN [th[t] EXCEPT !.at = "placing", !.wallet = w]
                  ELSE [th[t] EXCEPT !.todo = @ \ {w}])
    /\ UNCHANGED <<lifeVars, pool, scanVars, buys>>

\* place_orders rests buys, or cancels those whose market dropped out of the pool.
Placing(t) ==
    /\ th[t].at = "placing"
    /\ buys' \in {buys \cup {th[t].wallet}, buys \ {th[t].wallet}}
    /\ UNCHANGED <<lifeVars, pool, scanVars, th>>

WalletPlaced(t) ==
    /\ th[t].at = "placing"
    /\ Goes(t, [th[t] EXCEPT !.at = "place", !.todo = @ \ {th[t].wallet}, !.wallet = None])
    /\ UNCHANGED <<lifeVars, pool, scanVars, buys>>

PlaceEnds(t) ==
    /\ th[t].at = "place" /\ th[t].todo = {}
    /\ IF t \in Scanners THEN Goes(t, [Gone EXCEPT !.at = "loop"]) ELSE Returns(t)
    /\ UNCHANGED <<lifeVars, pool, scanVars, buys>>

PlaceStep(t) == PlaceWallet(t) \/ WalletPlaced(t) \/ PlaceEnds(t)
LoopStep(s) ==
    \/ LoopEnds(s) \/ LoopDiscovers(s) \/ LoopPlaces(s) \/ DiscoveryEnds(s)
    \/ RoundBegins(s) \/ RoundSkipped(s)

-----------------------------------------------------------------------------
\* Requests

\* place_all_orders; test_place_orders builds a worker for its wallet if none runs.
PlaceAll(r) ==
    /\ th[r].at = "none" /\ pool # "empty"
    /\ Goes(r, [Gone EXCEPT !.at = "place", !.todo = Running])
    /\ UNCHANGED <<lifeVars, pool, scanVars, buys>>

TestPlace(r, w) ==
    /\ th[r].at = "none" /\ pool # "empty"
    /\ w \in Running \/ "test" \in Env
    /\ Goes(r, [Gone EXCEPT !.at = "placing", !.wallet = w])
    /\ UNCHANGED <<lifeVars, pool, scanVars, buys>>

\* cancel_all_buy_orders, one wallet after the other.
CancelAll(r) ==
    /\ th[r].at = "none"
    /\ Goes(r, [Gone EXCEPT !.at = "cancelAll", !.todo = Running])
    /\ UNCHANGED <<lifeVars, pool, scanVars, buys>>

CancelNext(r) ==
    /\ th[r].at = "cancelAll"
    /\ \/ /\ th[r].todo = {} /\ Returns(r) /\ UNCHANGED buys
       \/ \E w \in th[r].todo :
             /\ Goes(r, [th[r] EXCEPT !.todo = @ \ {w}])
             /\ buys' \in {buys, buys \ {w}}
    /\ UNCHANGED <<lifeVars, pool, scanVars>>

\* start_all clears the pool and starts every wallet, then the scanner loop;
\* start_monitors and the start of one wallet only start wallets.
Starting(r, op, ws) == Goes(r, [Gone EXCEPT !.at = "start", !.op = op, !.todo = ws])

StartAll(r) ==
    /\ th[r].at = "none"
    /\ scanner = None \/ "startTwice" \in Env
    /\ Starting(r, "all", Wallets)
    /\ pool' = "empty"
    /\ UNCHANGED <<lifeVars, scanVars, buys>>

StartMonitors(r) ==
    /\ th[r].at = "none"
    /\ \E ws \in {Wallets} \cup {{w} : w \in Wallets} : Starting(r, "monitors", ws)
    /\ UNCHANGED <<lifeVars, pool, scanVars, buys>>

\* Variant: start_wallet does not look for a running worker.
StartBlindly(r) ==
    /\ th[r].at = "start"
    /\ \E w \in th[r].todo : Goes(r, [th[r] EXCEPT !.at = "build", !.wallet = w])
    /\ UNCHANGED <<lifeVars, pool, scanVars, buys>>

\* start_wallet returns if the wallet has a running worker; otherwise it builds
\* the API client, which goes over the network,
StartNext(r) ==
    /\ th[r].at = "start"
    /\ \E w \in th[r].todo :
          Goes(r, IF w \in Running THEN [th[r] EXCEPT !.todo = @ \ {w}]
                  ELSE [th[r] EXCEPT !.at = "build", !.wallet = w])
    /\ UNCHANGED <<lifeVars, pool, scanVars, buys>>

\* and then registers a new worker and starts its thread.
WalletBuilt(r) ==
    /\ th[r].at = "build"
    /\ \E k \in Monitors :
          /\ monitor[th[r].wallet][k] = "none"
          /\ monitor' = [monitor EXCEPT ![th[r].wallet][k] = "on"]
          /\ engines' = [engines EXCEPT ![th[r].wallet] = k]
    /\ scannerApi' = TRUE
    /\ Goes(r, [th[r] EXCEPT !.at = "start", !.todo = @ \ {th[r].wallet}, !.wallet = None])
    /\ UNCHANGED <<stopEvent, scanner, pool, saved, status, generation, scans, buys>>

\* The client cannot be built: the request ends, with the wallets started so far.
WalletFails(r) ==
    /\ th[r].at = "build" /\ Returns(r)
    /\ UNCHANGED <<lifeVars, pool, scanVars, buys>>

\* After startup_recovery start_all clears the stop event and starts the loop.
StartEnds(r) ==
    /\ th[r].at = "start" /\ th[r].todo = {}
    /\ \/ /\ th[r].op = "monitors"
          /\ Returns(r) /\ UNCHANGED <<stopEvent, scanner>>
       \/ \E s \in Scanners \ Live :
             /\ th[r].op = "all"
             /\ stopEvent' = FALSE /\ scanner' = s
             /\ th' = [th EXCEPT ![r] = Gone, ![s] = [Gone EXCEPT !.at = "loop"]]
    /\ UNCHANGED <<engines, monitor, pool, scanVars, buys>>

\* stop_all, and restart_all which starts all when it is through.
StopAll(r, op) ==
    /\ th[r].at = "none"
    /\ stopEvent' = TRUE
    /\ Goes(r, [Gone EXCEPT !.at = "join", !.op = op])
    /\ UNCHANGED <<engines, monitor, scanner, pool, scanVars, buys>>

\* Variant: stop_all does not wait for the scanner thread.
LeaveScanner(r) ==
    /\ th[r].at = "join"
    /\ scanner' = None
    /\ Goes(r, [th[r] EXCEPT !.at = "stop", !.todo = Running])
    /\ UNCHANGED <<engines, monitor, stopEvent, pool, scanVars, buys>>

JoinScanner(r) ==
    /\ th[r].at = "join"
    /\ scanner \notin Live \/ "slowJoin" \in Env
    /\ scanner' = None
    /\ Goes(r, [th[r] EXCEPT !.at = "stop", !.todo = Running])
    /\ UNCHANGED <<engines, monitor, stopEvent, pool, scanVars, buys>>

StopOne(r, w) ==
    /\ th[r].at = "none"
    /\ scanner = None \/ "stopOne" \in Env
    /\ Goes(r, [Gone EXCEPT !.at = "stop", !.op = "stop", !.todo = {w}])
    /\ UNCHANGED <<lifeVars, pool, scanVars, buys>>

\* Variant: the worker's entry is cleared instead of removed.
StopKeepsEntry(r) ==
    /\ th[r].at = "stop"
    /\ \E w \in th[r].todo \cap Running :
          /\ engines' = [engines EXCEPT ![w] = None]
          /\ monitor' = [monitor EXCEPT ![w][engines[w]] = "told"]
          /\ Goes(r, [th[r] EXCEPT !.at = "joinMonitor", !.wallet = w, !.slot = engines[w]])
    /\ UNCHANGED <<stopEvent, scanner, pool, scanVars, buys>>

\* stop_wallet takes the worker out of engines and tells its thread to stop,
StopNext(r) ==
    /\ th[r].at = "stop"
    /\ \E w \in th[r].todo :
          IF w \notin Running
          THEN /\ Goes(r, [th[r] EXCEPT !.todo = @ \ {w}])
               /\ UNCHANGED <<engines, monitor>>
          ELSE /\ engines' = [engines EXCEPT ![w] = 0]
               /\ monitor' = [monitor EXCEPT ![w][engines[w]] = "told"]
               /\ Goes(r, [th[r] EXCEPT !.at = "joinMonitor", !.wallet = w, !.slot = engines[w]])
    /\ UNCHANGED <<stopEvent, scanner, pool, scanVars, buys>>

\* Variant: stop ends with the join, without the cancel.
JoinIsAll(r) ==
    /\ th[r].at = "joinMonitor"
    /\ monitor[th[r].wallet][th[r].slot] = "none" \/ "slowJoin" \in Env
    /\ Goes(r, [th[r] EXCEPT !.at = "stop", !.todo = @ \ {th[r].wallet},
                             !.wallet = None, !.slot = 0])
    /\ UNCHANGED <<lifeVars, pool, scanVars, buys>>

\* waits for it,
JoinMonitor(r) ==
    /\ th[r].at = "joinMonitor"
    /\ monitor[th[r].wallet][th[r].slot] = "none" \/ "slowJoin" \in Env
    /\ Goes(r, [th[r] EXCEPT !.at = "cancel"])
    /\ UNCHANGED <<lifeVars, pool, scanVars, buys>>

\* and cancels the wallet's buys.
CancelBuys(r) ==
    /\ th[r].at = "cancel"
    /\ buys' \in {buys \ {th[r].wallet}} \cup IF "noCancel" \in Env THEN {buys} ELSE {}
    /\ Goes(r, [th[r] EXCEPT !.at = "stop", !.todo = @ \ {th[r].wallet},
                             !.wallet = None, !.slot = 0])
    /\ UNCHANGED <<lifeVars, pool, scanVars>>

StopEnds(r) ==
    /\ th[r].at = "stop" /\ th[r].todo = {}
    /\ IF th[r].op = "restart"
       THEN Starting(r, "all", Wallets) /\ pool' = "empty"
       ELSE Returns(r) /\ UNCHANGED pool
    /\ UNCHANGED <<lifeVars, scanVars, buys>>

\* A monitor thread sees its stop event between two ticks.
MonitorEnds(w, k) ==
    /\ monitor[w][k] = "told"
    /\ monitor' = [monitor EXCEPT ![w][k] = "none"]
    /\ UNCHANGED <<engines, stopEvent, scanner, pool, scanVars, th, buys>>

Request(r) ==
    \/ PlaceAll(r) \/ CancelAll(r) \/ StartAll(r) \/ StartMonitors(r)
    \/ \E op \in {"stop", "restart"} : StopAll(r, op)
    \/ \E w \in Wallets : TestPlace(r, w) \/ StopOne(r, w)
RequestStep(r) ==
    \/ CancelNext(r) \/ StartNext(r) \/ WalletBuilt(r) \/ WalletFails(r) \/ StartEnds(r)
    \/ JoinScanner(r) \/ StopNext(r) \/ JoinMonitor(r) \/ CancelBuys(r) \/ StopEnds(r)

Next ==
    \/ StartScan
    \/ \E g \in Scans : ScanStep(g) \/ ScanFound(g)
    \/ \E s \in Scanners : LoopStep(s) \/ DiscoveryFound(s)
    \/ \E t \in Threads : PlaceStep(t) \/ Placing(t)
    \/ \E r \in Routes : Request(r) \/ RequestStep(r)
    \/ \E w \in Wallets, k \in Monitors : MonitorEnds(w, k)

Spec == Init /\ [][Next]_vars

\* Threads that have begun a scan keep going; nobody has to ask for anything.
Fairness ==
    /\ \A g \in Scans : WF_vars(ScanStep(g))
    /\ \A s \in Scanners : WF_vars(LoopStep(s))

FairSpec == Spec /\ Fairness

-----------------------------------------------------------------------------
\* Properties

\* The manager's fields and every thread's place and locals are of their types.
TypeOK ==
    /\ engines \in [Wallets -> {0} \cup Monitors]
    /\ monitor \in [Wallets -> [Monitors -> {"none", "on", "told"}]]
    /\ stopEvent \in BOOLEAN /\ scanner \in Scanners \cup {None}
    /\ pool \in Pools /\ saved \in Nat /\ status \in BOOLEAN /\ generation \in 0..MaxScans
    /\ scannerApi \in BOOLEAN /\ scans \in [Scans -> Scan]
    /\ th \in [Threads -> Thread]
    /\ buys \subseteq Wallets

\* One scanner loop runs, through every stop, restart and failed start: two of
\* them would run two placing rounds on each wallet (what BuyOrders' proofs call
\* Alone fails then).
OneScanner == \A s, u \in Live : s = u

\* A wallet has one monitor thread, counting one that was told to stop: two of
\* them run the ticks of MergeExit on one account.
OneMonitor ==
    \A w \in Wallets : \A k, l \in Monitors :
        monitor[w][k] # "none" /\ monitor[w][l] # "none" => k = l

\* No reward buy rests without a monitor that sees its fills, except while the
\* stop that will cancel it is under way.
BuysAreWatched ==
    \A w \in buys :
        \/ w \in Running /\ monitor[w][engines[w]] = "on"
        \/ \E r \in Routes : th[r].at \in {"joinMonitor", "cancel"} /\ th[r].wallet = w

\* The table never goes back to the result of an older scan by hand.
SavedForward == [][saved' >= saved]_vars

\* No scan leaves the status at "scanning" for good, whether it fails, finds no
\* API, or is superseded.
StatusSettles == status ~> ~status

=============================================================================
