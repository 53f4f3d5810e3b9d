------------------------------ MODULE FillDedup ------------------------------
(***************************************************************************)
(* Fill detection of one wallet: check_buy_orders and _handle_fill of the   *)
(* tick thread (engine/monitor.py), init_watermark and _prime_seen_keys as  *)
(* startup_recovery runs them in a request thread (engine/manager.py), and  *)
(* select_new_buy_fills (engine/fills.py).                                  *)
(*                                                                         *)
(* The fills handled so far are kept in memory only (_seen_fill_keys); a    *)
(* restart rebuilds them from the exchange's trade history, beside a tick   *)
(* thread that start_wallet has started before.                             *)
(***************************************************************************)
EXTENDS Naturals, Sequences, FiniteSets

CONSTANTS
    MaxOrders,  \* bound on the reward buys that trade
    MaxFills,   \* bound on the fills of a behaviour
    MaxTs,      \* bound on their match times, in seconds
    MaxLives,   \* bound on the lives of the process
    Env         \* the disturbances allowed

Disturbances == {
    "recoverAgain", \* startup_recovery runs on a wallet that already ticks
    "late",         \* get_trades lists fills out of their order
    "rowsAhead",    \* a row of the tables is younger than an unlisted fill
    "crash",        \* the process stops and starts again
    "tradesFail",   \* get_trades raises
    "openFails",    \* get_open_orders raises
    "cancelFails",  \* cancel_orders raises, with or without effect
    "notCanceled",  \* cancel_orders returns, and the order rests on
    "dbFails" }     \* set_cooldown raises

ASSUME EnvAssumption == Env \subseteq Disturbances
ASSUME BoundAssumption == /\ MaxOrders \in Nat /\ MaxFills \in Nat /\ MaxTs \in Nat
                          /\ MaxLives \in Nat \ {0}

VARIABLES
    trades,     \* the maker fills of the wallet's buys, by match time
    listed,     \* those that get_trades shows
    open,       \* the buys that rest on the CLOB
    seen,       \* _seen_fill_keys
    afterTs,    \* _after_ts
    pending,    \* _prime_pending
    tick,       \* the tick thread: place in check_buy_orders and locals
    rec,        \* startup_recovery: place in init_watermark and locals
    life,       \* which life of the process this is
    old,        \* fills listed when this life began
    primed,     \* a priming of this life has gone through
    hasty,      \* fills that ticks of this life took up before
    log,        \* the lives and fills of what was acted on, over all lives
    clean,      \* those whose order was looked up and any cancel returned
    deaf        \* orders that rested on after a cancel had returned

world == <<trades, listed, open>>
history == <<life, old>>
record == <<log, clean, deaf>>
vars == <<trades, listed, open, seen, afterTs, pending, tick, rec, life, old, primed,
          hasty, log, clean, deaf>>

-----------------------------------------------------------------------------
Orders == 1 .. MaxOrders
Fill == 1 .. MaxFills
Trade == [order : Orders, ts : 0 .. MaxTs]
Now == IF trades = <<>> THEN 0 ELSE trades[Len(trades)].ts

Idle == [at |-> "idle", got |-> {}, todo |-> {}, openIds |-> {}, known |-> FALSE,
         cancelled |-> {}]
At(place) == [tick EXCEPT !.at = place]

\* The loops over fills s that raise _after_ts to their match times.
Raise(s) ==
    LET times == {afterTs} \cup {trades[f].ts : f \in s}
    IN  afterTs' \in {m \in times : \A t \in times : t <= m}

TypeOK ==
    /\ trades \in Seq(Trade) /\ Len(trades) <= MaxFills
    /\ listed \subseteq DOMAIN trades
    /\ open \subseteq Orders
    /\ seen \subseteq listed
    /\ afterTs \in 0 .. MaxTs
    /\ pending \in BOOLEAN
    /\ tick \in [at : {"idle", "prime", "primed", "fetch", "select", "open", "handle"},
                 got : SUBSET listed, todo : SUBSET listed, openIds : SUBSET Orders,
                 known : BOOLEAN, cancelled : SUBSET Orders]
    /\ rec \in [at : {"due", "ask", "prime", "done"}, got : SUBSET listed]
    /\ life \in 1 .. MaxLives
    /\ old \subseteq listed
    /\ primed \in BOOLEAN
    /\ hasty \subseteq listed
    /\ log \in Seq([life : 1 .. MaxLives, fill : Fill])
    /\ \A i \in DOMAIN log : log[i].fill \in listed
    /\ clean \subseteq listed
    /\ deaf \subseteq Orders

Init ==
    /\ trades = <<>> /\ listed = {} /\ open = {}
    /\ seen = {} /\ afterTs = 0 /\ pending = FALSE
    /\ tick = Idle
    /\ rec = [at |-> "due", got |-> {}]
    /\ life = 1 /\ old = {} /\ primed = FALSE
    /\ hasty = {} /\ log = <<>> /\ clean = {} /\ deaf = {}

-----------------------------------------------------------------------------
(* The exchange and the other steps of the engine.                         *)

Traded == {trades[f].order : f \in DOMAIN trades}
Unused == Orders \ (open \cup Traded)

\* Ids are taken in order.
PlaceBuy(o) ==
    /\ o \in Unused /\ \A p \in Unused : o <= p
    /\ open' = open \cup {o}
    /\ UNCHANGED <<trades, listed, seen, afterTs, pending, tick, rec, history, primed, hasty, record>>

\* A buy of ours trades as a maker, wholly or in part.
Match(o) ==
    /\ o \in open
    /\ Len(trades) < MaxFills
    /\ \E ts \in {Now, Now + 1} \cap 0 .. MaxTs :
           trades' = Append(trades, [order |-> o, ts |-> ts])
    /\ open' \in {open, open \ {o}}
    /\ UNCHANGED <<listed, seen, afterTs, pending, tick, rec, history, primed, hasty, record>>

\* get_trades shows a fill some time after it happened.
Unlisted == DOMAIN trades \ listed
ListTrade(f) ==
    /\ f \in Unlisted
    /\ "late" \in Env \/ \A g \in Unlisted : f <= g
    /\ listed' = listed \cup {f}
    /\ UNCHANGED <<trades, open, seen, afterTs, pending, tick, rec, history, primed, hasty, record>>

\* The placing round, Step 3 or the owner cancels a buy; one that goes before
\* it has traded concerns nobody here.
CancelBuy(o) ==
    /\ o \in open \cap Traded
    /\ open' = open \ {o}
    /\ UNCHANGED <<trades, listed, seen, afterTs, pending, tick, rec, history, primed, hasty, record>>

\* What get_trades(after=t) may answer: the filter is unreliable and may
\* bring back older fills as well.
Answers(t) == {s \in SUBSET listed : {f \in listed : trades[f].ts >= t} \subseteq s}

-----------------------------------------------------------------------------
(* The tick thread: Step 1.                                                *)

\* start_wallet starts the thread, which ticks at once.
TickBegins ==
    /\ tick.at = "idle"
    /\ tick' = At(IF pending THEN "prime" ELSE "fetch")
    /\ UNCHANGED <<world, seen, afterTs, pending, rec, history, primed, hasty, record>>

\* _prime_seen_keys of a tick: get_trades without "after" lists everything.
TickAsksAll ==
    /\ tick.at = "prime"
    /\ tick' = [tick EXCEPT !.at = "primed", !.got = listed]
    /\ UNCHANGED <<world, seen, afterTs, pending, rec, history, primed, hasty, record>>

TickPrimes ==
    /\ tick.at = "primed"
    /\ seen' = seen \cup tick.got
    /\ Raise(tick.got)
    /\ pending' = FALSE /\ primed' = TRUE
    /\ tick' = [tick EXCEPT !.at = "fetch", !.got = {}]
    /\ UNCHANGED <<world, rec, history, hasty, record>>

TickFetches ==
    /\ tick.at = "fetch"
    /\ \E s \in Answers(afterTs) : tick' = [tick EXCEPT !.at = "select", !.got = s]
    /\ UNCHANGED <<world, seen, afterTs, pending, rec, history, primed, hasty, record>>

\* A get_trades that raises ends the step, in priming and in fetching.
TradesFail ==
    /\ "tradesFail" \in Env
    /\ tick.at \in {"prime", "fetch"}
    /\ tick' = Idle
    /\ UNCHANGED <<world, seen, afterTs, pending, rec, history, primed, hasty, record>>

TickSelects ==
    /\ tick.at = "select"
    /\ LET new == tick.got \ seen
       IN  /\ tick' = IF new = {} THEN Idle
                      ELSE [tick EXCEPT !.at = "open", !.got = {}, !.todo = new]
           /\ hasty' = IF primed THEN hasty ELSE hasty \cup new
    /\ UNCHANGED <<world, seen, afterTs, pending, rec, history, primed, record>>

\* The orders are read after the fills; a read that raises leaves no id.
TickReadsOpen ==
    /\ tick.at = "open"
    /\ \/ tick' = [tick EXCEPT !.at = "handle", !.openIds = open, !.known = TRUE]
       \/ /\ "openFails" \in Env
          /\ tick' = At("handle")
    /\ UNCHANGED <<world, seen, afterTs, pending, rec, history, primed, hasty, record>>

\* What the log says of fill f, acted on now.
Entry(f) == [life |-> life, fill |-> f]

\* Oldest first; the sort keeps the order of the answer between equals.
Oldest(f) == f \in tick.todo /\ \A g \in tick.todo : trades[f].ts <= trades[g].ts

\* Variant: fills told apart by their order alone.
CountedByOrder(f, cancelled) ==
    /\ seen' = seen \cup {trades[f].order}
    /\ Raise({f})
    /\ tick' = IF tick.todo = {f} THEN Idle
               ELSE [tick EXCEPT !.todo = @ \ {f}, !.cancelled = cancelled]

\* Variant: the watermark goes past the fill.
CountedPast(f, cancelled) ==
    /\ seen' = seen \cup {f}
    /\ afterTs' = IF afterTs < trades[f].ts + 1 THEN trades[f].ts + 1 ELSE afterTs
    /\ tick' = IF tick.todo = {f} THEN Idle
               ELSE [tick EXCEPT !.todo = @ \ {f}, !.cancelled = cancelled]

\* The finally of the loop: whatever happened, the fill counts as handled.
Counted(f, cancelled) ==
    /\ seen' = seen \cup {f}
    /\ Raise({f})
    /\ tick' = IF tick.todo = {f} THEN Idle
               ELSE [tick EXCEPT !.todo = @ \ {f}, !.cancelled = cancelled]

\* Variant: an order counts as cancelled before it is.
HandleFillCancelledFirst(f) ==
    /\ tick.at = "handle" /\ Oldest(f)
    /\ LET o == trades[f].order
           asks == o \in tick.openIds \ tick.cancelled
       IN  \/ /\ open' = IF asks THEN open \ {o} ELSE open
              /\ Counted(f, tick.cancelled \cup {o})
              /\ clean' = IF tick.known THEN clean \cup {f} ELSE clean
              /\ log' = Append(log, Entry(f))
           \/ /\ asks /\ "cancelFails" \in Env
              /\ Counted(f, tick.cancelled \cup {o})
              /\ log' = Append(log, Entry(f))
              /\ UNCHANGED <<open, clean>>
    /\ UNCHANGED <<trades, listed, pending, rec, history, primed, hasty, deaf>>

\* Variant: only a fill that was handled to the end
\* counts.
HandleFillNoFinally(f) ==
    /\ tick.at = "handle" /\ Oldest(f)
    /\ LET o == trades[f].order
           asks == o \in tick.openIds \ tick.cancelled
       IN  \/ /\ open' = IF asks THEN open \ {o} ELSE open
              /\ Counted(f, tick.cancelled \cup {o})
              /\ clean' = IF tick.known THEN clean \cup {f} ELSE clean
              /\ log' = Append(log, Entry(f))
           \/ /\ asks /\ "cancelFails" \in Env
              /\ tick' = IF tick.todo = {f} THEN Idle ELSE [tick EXCEPT !.todo = @ \ {f}]
              /\ log' = Append(log, Entry(f))
              /\ UNCHANGED <<open, clean, seen, afterTs>>
    /\ UNCHANGED <<trades, listed, pending, rec, history, primed, hasty, deaf>>

\* _handle_fill: cooldown, then the rest of the order is cancelled if it was
\* seen resting and has not been cancelled for an earlier fill of this tick.  An
\* answer that names the order under not_canceled is only logged.
HandleFill(f) ==
    /\ tick.at = "handle" /\ Oldest(f)
    /\ LET o == trades[f].order
           asks == o \in tick.openIds \ tick.cancelled
       IN  \/ /\ open' = IF asks THEN open \ {o} ELSE open
              /\ Counted(f, IF asks THEN tick.cancelled \cup {o} ELSE tick.cancelled)
              /\ clean' = IF tick.known THEN clean \cup {f} ELSE clean
              /\ log' = Append(log, Entry(f))
              /\ deaf' = deaf
           \/ /\ asks /\ o \in open /\ "notCanceled" \in Env
              /\ Counted(f, tick.cancelled \cup {o})
              /\ clean' = clean \cup {f}
              /\ log' = Append(log, Entry(f))
              /\ deaf' = deaf \cup {o}
              /\ open' = open
           \/ /\ asks /\ "cancelFails" \in Env
              /\ open' \in {open, open \ {o}}
              /\ Counted(f, tick.cancelled)
              /\ log' = Append(log, Entry(f))
              /\ UNCHANGED <<clean, deaf>>
           \/ /\ "dbFails" \in Env
              /\ Counted(f, tick.cancelled)
              /\ UNCHANGED <<open, record>>
    /\ UNCHANGED <<trades, listed, pending, rec, history, primed, hasty>>

-----------------------------------------------------------------------------
(* startup_recovery: init_watermark in the thread of the start request.     *)

\* Once per start of the engine, beside the ticks of the wallet's thread, or again
\* when the engine is started around a wallet that already ticks.  A wallet that is
\* started alone has none.
MayRecover == \/ rec.at = "due"
              \/ rec.at = "done" /\ "recoverAgain" \in Env

\* The watermark is the time of the latest row of the trades and actions
\* tables; it is assigned, not raised.
RecoveryBegins ==
    /\ MayRecover
    /\ afterTs' \in 0 .. Now
    /\ "rowsAhead" \in Env \/ \A f \in Unlisted : afterTs' <= trades[f].ts
    /\ rec' = [rec EXCEPT !.at = "ask"]
    /\ UNCHANGED <<world, seen, pending, tick, history, primed, hasty, record>>

\* Variant: the history is asked for by the watermark.
RecoveryAsksRecent ==
    /\ rec.at = "ask"
    /\ \E s \in Answers(afterTs) : rec' = [rec EXCEPT !.at = "prime", !.got = s]
    /\ UNCHANGED <<world, seen, afterTs, pending, tick, history, primed, hasty, record>>

RecoveryAsksAll ==
    /\ rec.at = "ask"
    /\ rec' = [rec EXCEPT !.at = "prime", !.got = listed]
    /\ UNCHANGED <<world, seen, afterTs, pending, tick, history, primed, hasty, record>>

RecoveryPrimes ==
    /\ rec.at = "prime"
    /\ seen' = seen \cup rec.got
    /\ Raise(rec.got)
    /\ pending' = FALSE /\ primed' = TRUE
    /\ rec' = [rec EXCEPT !.at = "done", !.got = {}]
    /\ UNCHANGED <<world, tick, history, hasty, record>>

RecoveryFails ==
    /\ "tradesFail" \in Env
    /\ rec.at = "ask"
    /\ pending' = TRUE
    /\ rec' = [rec EXCEPT !.at = "done", !.got = {}]
    /\ UNCHANGED <<world, seen, afterTs, tick, history, primed, hasty, record>>

\* The process stops anywhere and is started again through start_all.
Restart ==
    /\ "crash" \in Env /\ life < MaxLives
    /\ life' = life + 1
    /\ old' = listed
    /\ seen' = {} /\ afterTs' = 0 /\ pending' = FALSE
    /\ tick' = Idle
    /\ rec' = [at |-> "due", got |-> {}]
    /\ primed' = FALSE /\ hasty' = {}
    /\ UNCHANGED <<world, record>>

-----------------------------------------------------------------------------
Exchange == \/ \E o \in Orders : PlaceBuy(o) \/ Match(o) \/ CancelBuy(o)
            \/ \E f \in Fill : ListTrade(f)

Tick == \/ TickBegins \/ TickAsksAll \/ TickPrimes \/ TickFetches \/ TradesFail
        \/ TickSelects \/ TickReadsOpen
        \/ \E f \in Fill : HandleFill(f)

Recovery == RecoveryBegins \/ RecoveryAsksAll \/ RecoveryPrimes \/ RecoveryFails

Next == Exchange \/ Tick \/ Recovery \/ Restart

Spec == Init /\ [][Next]_vars

\* The tick thread catches every exception and goes on, a recovery that has begun
\* comes to its end, and get_trades does not raise for ever in the tick.
FairSpec ==
    /\ Spec
    /\ WF_vars(Tick) /\ WF_vars(Recovery /\ rec.at \in {"ask", "prime"})
    /\ SF_vars(TickAsksAll) /\ SF_vars(TickFetches)

-----------------------------------------------------------------------------
(* Properties.                                                             *)

\* Once a priming of this life has gone through, whichever thread's it was and
\* wherever the other one stood, no fill that was on record when the process
\* started is taken up any more.
OldStaysOld == [][primed => (tick'.todo \ tick.todo) \cap old = {}]_vars

\* No fill is acted on twice, in one life or in two, but for those a tick took up
\* before its life was primed: Step 1 implements a log into which every other fill
\* goes at most once.
Log == INSTANCE FillLog
ImplementsLog == Log!LogSpec

\* A buy whose fill was handled with the open orders read and the cancel returned
\* does not rest, unless the CLOB had answered that it did not cancel it: nothing
\* more is bought with it.  The orders must have been read after the fill was.
RemainderGone == \A f \in clean : trades[f].order \notin open \ deaf

\* A listed fill is dealt with in the life it is listed in: the watermark
\* does not overtake it, and a failed read or a failed priming is made up for
\* by a later tick.
FillsDealtWith ==
    \A f \in Fill : \A n \in 1 .. MaxLives :
        (life = n /\ f \in listed) ~> (f \in seen \/ life # n)

=============================================================================
