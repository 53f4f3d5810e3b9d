--------------------------- MODULE FillDedup_proofs ---------------------------
(***************************************************************************)
(* Proofs about FillDedup for every number of orders, fills and lives and   *)
(* every set of disturbances.                                              *)
(***************************************************************************)
EXTENDS FillDedup, SequenceTheorems, TLAPS

LogEntry == [life : 1 .. MaxLives, fill : Fill]

-----------------------------------------------------------------------------
(* Types.                                                                  *)

\* Raising the watermark over listed fills leaves it a time of the model.
LEMMA RaiseType ==
    ASSUME TypeOK, NEW s \in SUBSET listed, Raise(s)
    PROVE  afterTs' \in 0 .. MaxTs
<1>1. \A f \in s : trades[f] \in Trade
    BY DEF TypeOK
<1>2. \A f \in s : trades[f].ts \in 0 .. MaxTs
    BY <1>1 DEF Trade
<1> QED
    BY <1>2 DEF TypeOK, Raise

LEMMA InitTypeOK == Init => TypeOK
<1> SUFFICES ASSUME Init PROVE TypeOK
    OBVIOUS
<1>1. <<>> \in Seq(Trade) /\ Len(<<>>) = 0 /\ <<>> \in Seq(LogEntry) /\ DOMAIN <<>> = {}
    OBVIOUS
<1>2. trades = <<>> /\ log = <<>> /\ MaxFills \in Nat
    BY BoundAssumption DEF Init
<1>3. /\ trades \in Seq(Trade) /\ Len(trades) <= MaxFills
      /\ log \in Seq(LogEntry) /\ \A i \in DOMAIN log : log[i].fill \in listed
    BY <1>1, <1>2
<1>4. /\ listed \subseteq DOMAIN trades /\ open \subseteq Orders /\ seen \subseteq listed
      /\ pending \in BOOLEAN /\ old \subseteq listed /\ clean \subseteq listed
      /\ rec \in [at : {"due", "ask", "prime", "done"}, got : SUBSET listed]
    BY DEF Init
<1>5. afterTs \in 0 .. MaxTs /\ life \in 1 .. MaxLives
    BY BoundAssumption DEF Init
<1>6. tick = Idle
    BY DEF Init
<1>7. primed \in BOOLEAN /\ hasty \subseteq listed /\ deaf \subseteq Orders
    BY DEF Init
<1> QED
    BY <1>3, <1>4, <1>5, <1>6, <1>7 DEF TypeOK, Idle, LogEntry

LEMMA ExchangeTypeOK == TypeOK /\ Exchange => TypeOK'
<1> SUFFICES ASSUME TypeOK, Exchange PROVE TypeOK'
    OBVIOUS
<1> USE DEF TypeOK, history, record
<1>1. CASE \E o \in Orders : PlaceBuy(o)
    BY <1>1 DEF PlaceBuy
<1>2. CASE \E o \in Orders : Match(o)
  <2>1. PICK o \in Orders : Match(o)
    BY <1>2
  <2>2. PICK ts \in 0 .. MaxTs : trades' = Append(trades, [order |-> o, ts |-> ts])
    BY <2>1 DEF Match
  <2>3. [order |-> o, ts |-> ts] \in Trade
    BY DEF Trade
  <2>4. /\ trades' \in Seq(Trade)
        /\ Len(trades') = Len(trades) + 1
        /\ DOMAIN trades \subseteq DOMAIN trades'
    BY <2>2, <2>3
  <2>5. Len(trades') <= MaxFills
    BY <2>1, <2>4, BoundAssumption DEF Match
  <2>6. open' \subseteq Orders
    BY <2>1 DEF Match
  <2> QED
    BY <2>1, <2>4, <2>5, <2>6 DEF Match
<1>3. CASE \E o \in Orders : CancelBuy(o)
    BY <1>3 DEF CancelBuy
<1>4. CASE \E f \in Fill : ListTrade(f)
  <2>1. PICK f \in Fill : ListTrade(f)
    BY <1>4
  <2>2. listed \subseteq listed' /\ listed' \subseteq DOMAIN trades'
    BY <2>1 DEF ListTrade, Unlisted
  <2> QED
    BY <2>1, <2>2 DEF ListTrade
<1> QED
    BY <1>1, <1>2, <1>3, <1>4 DEF Exchange

\* What a fill that is counted leaves of the tick and of the seen keys.
LEMMA CountedType ==
    ASSUME TypeOK, NEW f \in tick.todo, NEW c \in SUBSET Orders, Counted(f, c)
    PROVE  /\ seen' = seen \cup {f}
           /\ seen' \subseteq listed
           /\ afterTs' \in 0 .. MaxTs
           /\ tick' \in [at : {"idle", "handle", tick.at}, got : SUBSET listed,
                         todo : SUBSET listed, openIds : SUBSET Orders, known : BOOLEAN,
                         cancelled : SUBSET Orders]
<1>1. f \in listed
    BY DEF TypeOK
<1>2. afterTs' \in 0 .. MaxTs
    BY <1>1, RaiseType DEF Counted
<1>3. [tick EXCEPT !.todo = @ \ {f}, !.cancelled = c]
        \in [at : {"idle", "handle", tick.at}, got : SUBSET listed, todo : SUBSET listed,
             openIds : SUBSET Orders, known : BOOLEAN, cancelled : SUBSET Orders]
    BY DEF TypeOK
<1> QED
    BY <1>1, <1>2, <1>3 DEF Counted, TypeOK, Idle

LEMMA HandleTypeOK ==
    ASSUME TypeOK, NEW f \in Fill, HandleFill(f)
    PROVE  TypeOK'
<1> USE DEF TypeOK, LogEntry
<1> DEFINE o == trades[f].order
<1>1. f \in tick.todo /\ f \in listed /\ tick.at = "handle"
    BY DEF HandleFill, Oldest
<1>0. trades[f] \in Trade
    BY <1>1
<1>2. o \in Orders /\ tick.cancelled \cup {o} \in SUBSET Orders /\ tick.cancelled \in SUBSET Orders
    BY <1>0 DEF Trade
<1>3. PICK c \in SUBSET Orders : Counted(f, c)
    BY <1>2 DEF HandleFill
<1>4. /\ seen' \subseteq listed /\ afterTs' \in 0 .. MaxTs
      /\ tick' \in [at : {"idle", "handle"}, got : SUBSET listed, todo : SUBSET listed,
                    openIds : SUBSET Orders, known : BOOLEAN, cancelled : SUBSET Orders]
    BY <1>1, <1>3, CountedType
<1>5. open' \subseteq Orders /\ clean' \subseteq listed
    BY <1>1 DEF HandleFill, record
<1>6. log' = log \/ log' = Append(log, Entry(f))
    BY DEF HandleFill, record
<1>7. log' \in Seq(LogEntry) /\ \A i \in DOMAIN log' : log'[i].fill \in listed
  <2>1. CASE log' = log
    BY <2>1
  <2>2. CASE log' = Append(log, Entry(f))
    <3>0. Entry(f) \in LogEntry
      BY DEF Entry, LogEntry
    <3>1. /\ log' \in Seq(LogEntry)
          /\ DOMAIN log' = 1 .. Len(log) + 1 /\ DOMAIN log = 1 .. Len(log)
      BY <2>2, <3>0 DEF LogEntry
    <3>2. \A i \in 1 .. Len(log) : log'[i] = log[i]
      BY <2>2
    <3>3. log'[Len(log) + 1].fill = f
      BY <2>2 DEF Entry
    <3>4. \A i \in 1 .. Len(log) : log[i].fill \in listed
      BY <3>1
    <3>5. ASSUME NEW i \in DOMAIN log' PROVE log'[i].fill \in listed
      <4>1. i = Len(log) + 1 \/ i \in 1 .. Len(log)
        BY <3>1
      <4> QED
        BY <1>1, <3>2, <3>3, <3>4, <4>1
    <3> QED
      BY <3>1, <3>5
  <2> QED
    BY <1>6, <2>1, <2>2
<1>8. UNCHANGED <<trades, listed, pending, rec, history, primed, hasty>>
    BY DEF HandleFill
<1>9. deaf' \subseteq Orders
    BY <1>2 DEF HandleFill, record
<1> QED
    BY <1>4, <1>5, <1>7, <1>8, <1>9 DEF history

LEMMA TickTypeOK == TypeOK /\ Tick => TypeOK'
<1> SUFFICES ASSUME TypeOK, Tick PROVE TypeOK'
    OBVIOUS
<1> USE DEF TypeOK, world, history, record
<1>1. CASE TickBegins
    BY <1>1 DEF TickBegins, At
<1>2. CASE TickAsksAll
    BY <1>2 DEF TickAsksAll
<1>3. CASE TickPrimes
  <2>1. afterTs' \in 0 .. MaxTs
    BY <1>3, RaiseType DEF TickPrimes
  <2> QED
    BY <1>3, <2>1 DEF TickPrimes
<1>4. CASE TickFetches
    BY <1>4 DEF TickFetches, Answers
<1>5. CASE TradesFail
    BY <1>5 DEF TradesFail, Idle
<1>6. CASE TickSelects
    BY <1>6 DEF TickSelects, Idle
<1>7. CASE TickReadsOpen
    BY <1>7 DEF TickReadsOpen, At
<1>8. CASE \E f \in Fill : HandleFill(f)
    BY <1>8, HandleTypeOK
<1> QED
    BY <1>1, <1>2, <1>3, <1>4, <1>5, <1>6, <1>7, <1>8 DEF Tick

LEMMA NowType == TypeOK => Now \in 0 .. MaxTs
<1> SUFFICES ASSUME TypeOK PROVE Now \in 0 .. MaxTs
    OBVIOUS
<1>1. CASE trades = <<>>
    BY <1>1, BoundAssumption DEF Now
<1>2. CASE trades # <<>>
  <2>1. trades \in Seq(Trade) /\ Len(trades) \in 1 .. Len(trades)
    BY <1>2 DEF TypeOK
  <2>2. trades[Len(trades)] \in Trade
    BY <2>1
  <2> QED
    BY <1>2, <2>2 DEF Now, Trade
<1> QED
    BY <1>1, <1>2

LEMMA RecoveryTypeOK == TypeOK /\ Recovery => TypeOK'
<1> SUFFICES ASSUME TypeOK, Recovery PROVE TypeOK'
    OBVIOUS
<1> USE DEF TypeOK, world, history, record
<1>1. CASE RecoveryBegins
  <2>1. afterTs' \in 0 .. MaxTs
    BY <1>1, NowType, BoundAssumption DEF RecoveryBegins
  <2> QED
    BY <1>1, <2>1 DEF RecoveryBegins
<1>2. CASE RecoveryAsksAll
    BY <1>2 DEF RecoveryAsksAll
<1>3. CASE RecoveryPrimes
  <2>1. afterTs' \in 0 .. MaxTs
    BY <1>3, RaiseType DEF RecoveryPrimes
  <2> QED
    BY <1>3, <2>1 DEF RecoveryPrimes
<1>4. CASE RecoveryFails
    BY <1>4 DEF RecoveryFails
<1> QED
    BY <1>1, <1>2, <1>3, <1>4 DEF Recovery

LEMMA NextTypeOK == TypeOK /\ [Next]_vars => TypeOK'
<1> SUFFICES ASSUME TypeOK, [Next]_vars PROVE TypeOK'
    OBVIOUS
<1>1. CASE Restart
  <2>1. afterTs' \in 0 .. MaxTs /\ life' \in 1 .. MaxLives /\ old' = listed /\ seen' = {}
    BY <1>1, BoundAssumption DEF Restart, TypeOK
  <2>2. UNCHANGED <<trades, listed, open, log, clean, deaf>> /\ pending' \in BOOLEAN
        /\ primed' = FALSE /\ hasty' = {}
    BY <1>1 DEF Restart, world, record
  <2>3. /\ tick' = Idle
        /\ rec' \in [at : {"due", "ask", "prime", "done"}, got : SUBSET listed]
    BY <1>1 DEF Restart
  <2> QED
    BY <2>1, <2>2, <2>3 DEF TypeOK, Idle
<1>2. CASE UNCHANGED vars
    BY <1>2 DEF vars, TypeOK
<1> QED
    BY <1>1, <1>2, ExchangeTypeOK, TickTypeOK, RecoveryTypeOK DEF Next

\* Every variable keeps its type, whatever fails and whoever is first: the
\* seen keys, the two logs and the fills a thread holds are fills that
\* get_trades has listed.
THEOREM FillTypeCorrect == Spec => []TypeOK
<1>1. Init => TypeOK
    BY InitTypeOK
<1>2. TypeOK /\ [Next]_vars => TypeOK'
    BY NextTypeOK
<1> QED
    BY <1>1, <1>2, PTL DEF Spec

-----------------------------------------------------------------------------
(* Old fills.  Once the life is primed, every fill listed when it began is   *)
(* in the seen keys: the thread that primed them asked for the history after *)
(* the life began.  The other thread may stand anywhere.                     *)

OldSeen ==
    /\ tick.at = "primed" => old \subseteq tick.got
    /\ rec.at = "prime" => old \subseteq rec.got
    /\ primed => old \subseteq seen

OInv == TypeOK /\ OldSeen

LEMMA InitOInv == Init => OInv
BY InitTypeOK DEF Init, OInv, OldSeen, Idle

LEMMA HandleTodo ==
    ASSUME TypeOK, NEW f \in Fill, HandleFill(f)
    PROVE  /\ f \in tick.todo /\ tick.at = "handle"
           /\ seen' = seen \cup {f}
           /\ tick'.todo = tick.todo \ {f}
           /\ tick'.at = "handle" \/ (tick'.at = "idle" /\ tick'.todo = {})
<1>1. f \in tick.todo /\ tick.at = "handle"
    BY DEF HandleFill, Oldest
<1>2. PICK c : Counted(f, c)
    BY DEF HandleFill
<1>3. [tick EXCEPT !.todo = @ \ {f}, !.cancelled = c].todo = tick.todo \ {f}
      /\ [tick EXCEPT !.todo = @ \ {f}, !.cancelled = c].at = "handle"
    BY <1>1 DEF TypeOK
<1> QED
    BY <1>1, <1>2, <1>3 DEF Counted, Idle

LEMMA TickOInv == ASSUME OInv, Tick PROVE OldSeen'
<1> USE DEF OInv, OldSeen, world, history
<1>0. TypeOK
    OBVIOUS
<1>1. CASE TickBegins \/ TickFetches \/ TradesFail \/ TickSelects \/ TickReadsOpen
  <2>1. UNCHANGED <<rec, primed, old, seen>>
    BY <1>1 DEF TickBegins, TickFetches, TradesFail, TickSelects, TickReadsOpen
  <2>2. tick'.at # "primed"
    <3>1. CASE TickBegins \/ TickReadsOpen
      BY <3>1 DEF TickBegins, TickReadsOpen, At, TypeOK
    <3>2. CASE TickFetches
      BY <3>2 DEF TickFetches, TypeOK
    <3>3. CASE TradesFail
      BY <3>3 DEF TradesFail, Idle
    <3>4. CASE TickSelects
      BY <3>4 DEF TickSelects, Idle, TypeOK
    <3> QED
      BY <1>1, <3>1, <3>2, <3>3, <3>4
  <2> QED
    BY <2>1, <2>2
<1>2. CASE TickAsksAll
  <2>1. tick'.at = "primed" /\ tick'.got = listed
    BY <1>2 DEF TickAsksAll, TypeOK
  <2> QED
    BY <1>2, <2>1 DEF TickAsksAll, TypeOK
<1>3. CASE TickPrimes
  <2>1. tick'.at = "fetch" /\ old \subseteq seen'
    BY <1>3 DEF TickPrimes, TypeOK
  <2> QED
    BY <1>3, <2>1 DEF TickPrimes
<1>4. CASE \E f \in Fill : HandleFill(f)
  <2>1. PICK f \in Fill : HandleFill(f)
    BY <1>4
  <2>2. UNCHANGED <<primed, rec, old>>
    BY <2>1 DEF HandleFill
  <2> QED
    BY <1>0, <2>1, <2>2, HandleTodo
<1> QED
    BY <1>1, <1>2, <1>3, <1>4 DEF Tick

LEMMA RecoveryOInv == ASSUME OInv, Recovery PROVE OldSeen'
<1> USE DEF OInv, OldSeen, world, history
<1>1. CASE RecoveryBegins
    BY <1>1 DEF RecoveryBegins, TypeOK
<1>2. CASE RecoveryAsksAll
  <2>1. rec'.at = "prime" /\ rec'.got = listed
    BY <1>2 DEF RecoveryAsksAll, TypeOK
  <2> QED
    BY <1>2, <2>1 DEF RecoveryAsksAll, TypeOK
<1>3. CASE RecoveryPrimes
  <2>1. rec'.at = "done" /\ old \subseteq seen' /\ seen \subseteq seen'
    BY <1>3 DEF RecoveryPrimes, TypeOK
  <2> QED
    BY <1>3, <2>1 DEF RecoveryPrimes
<1>4. CASE RecoveryFails
    BY <1>4 DEF RecoveryFails, TypeOK
<1> QED
    BY <1>1, <1>2, <1>3, <1>4 DEF Recovery

LEMMA NextOInv == ASSUME OInv, [Next]_vars PROVE OInv'
<1>1. TypeOK'
    BY NextTypeOK DEF OInv
<1>2. CASE Exchange
  <2>1. UNCHANGED <<tick, rec, primed, seen, old>>
    BY <1>2 DEF Exchange, PlaceBuy, Match, CancelBuy, ListTrade, history
  <2> QED
    BY <1>1, <2>1 DEF OInv, OldSeen
<1>3. CASE Tick
    BY <1>1, <1>3, TickOInv DEF OInv
<1>4. CASE Recovery
    BY <1>1, <1>4, RecoveryOInv DEF OInv
<1>5. CASE Restart
    BY <1>1, <1>5 DEF Restart, OInv, OldSeen, Idle
<1>6. CASE UNCHANGED vars
    BY <1>1, <1>6 DEF vars, OInv, OldSeen
<1> QED
    BY <1>2, <1>3, <1>4, <1>5, <1>6 DEF Next

LEMMA OInvariance == Spec => []OInv
<1>1. OInv /\ [Next]_vars => OInv'
    BY NextOInv
<1> QED
    BY <1>1, InitOInv, PTL DEF Spec

\* Where the tick's hands may fill: it takes up what is listed and not seen.
LEMMA TakenUp ==
    ASSUME TypeOK, [Next]_vars
    PROVE  \/ tick'.todo \subseteq tick.todo
           \/ /\ TickSelects /\ tick'.todo = tick.got \ seen
<1>1. CASE Exchange \/ Recovery \/ UNCHANGED vars
    BY <1>1 DEF Exchange, PlaceBuy, Match, CancelBuy, ListTrade, Recovery, RecoveryBegins,
                RecoveryAsksAll, RecoveryPrimes, RecoveryFails, vars
<1>2. CASE Restart
    BY <1>2 DEF Restart, Idle
<1>3. CASE TickSelects
    BY <1>3 DEF TickSelects, Idle, TypeOK
<1>4. CASE TickBegins \/ TickAsksAll \/ TickPrimes \/ TickFetches \/ TradesFail \/ TickReadsOpen
  <2>1. CASE TickBegins
    BY <2>1 DEF TickBegins, At, TypeOK
  <2>2. CASE TickAsksAll \/ TickPrimes
    BY <2>2 DEF TickAsksAll, TickPrimes, TypeOK
  <2>3. CASE TickFetches
    BY <2>3 DEF TickFetches, TypeOK
  <2>4. CASE TradesFail
    BY <2>4 DEF TradesFail, Idle
  <2>5. CASE TickReadsOpen
    BY <2>5 DEF TickReadsOpen, At, TypeOK
  <2> QED
    BY <1>4, <2>1, <2>2, <2>3, <2>4, <2>5
<1>5. CASE \E f \in Fill : HandleFill(f)
    BY <1>5, HandleTodo
<1> QED
    BY <1>1, <1>2, <1>3, <1>4, <1>5 DEF Next, Tick

\* Once a priming of a life has gone through, in whichever thread, no fill on
\* record when the life began is taken up in it, through failing reads, further
\* recoveries and trades listed late.
THEOREM OldFillsStayOld == Spec => OldStaysOld
<1>1. OInv /\ [Next]_vars => [primed => (tick'.todo \ tick.todo) \cap old = {}]_vars
  <2> SUFFICES ASSUME OInv, [Next]_vars, primed
               PROVE  (tick'.todo \ tick.todo) \cap old = {}
    OBVIOUS
  <2>1. old \subseteq seen
    BY DEF OInv, OldSeen
  <2> QED
    BY <2>1, TakenUp DEF OInv
<1> QED
    BY <1>1, OInvariance, PTL DEF Spec, OldStaysOld

-----------------------------------------------------------------------------
(* The log.  What was acted on in this life is in the seen keys, and what was *)
(* acted on before is there or was on record when the life began.  So the     *)
(* tick holds nothing of this life, and nothing of an earlier one that it did *)
(* not take up before the priming.                                           *)

ActedNow == {f \in Fill : life \in Log!Acted(f)}
ActedEver == {f \in Fill : Log!Acted(f) # {}}

LogInv ==
    /\ ActedNow \subseteq seen /\ tick.todo \cap ActedNow = {}
    /\ ActedEver \subseteq seen \cup old /\ tick.todo \cap ActedEver \subseteq hasty
    /\ \A f \in Fill : \A n \in Log!Acted(f) : n <= life

LInv == OInv /\ LogInv

LEMMA LogGrows ==
    ASSUME TypeOK, NEW f \in Fill, log' = Append(log, Entry(f))
    PROVE  /\ Log!Acted(f)' = Log!Acted(f) \cup {life}
           /\ \A g \in Fill \ {f} : Log!Acted(g)' = Log!Acted(g)
<1>1. /\ Len(log') = Len(log) + 1 /\ log'[Len(log) + 1] = Entry(f) /\ Len(log) \in Nat
      /\ \A i \in 1 .. Len(log) : log'[i] = log[i]
    BY DEF TypeOK
<1>2. 1 .. Len(log') = 1 .. Len(log) \cup {Len(log) + 1}
    BY <1>1
<1>3. Entry(f).life = life /\ Entry(f).fill = f
    BY DEF Entry
<1> QED
    BY <1>1, <1>2, <1>3 DEF Log!Acted

\* Only an action on a fill changes the log, and on one the tick holds.
LEMMA LogChange ==
    ASSUME TypeOK, [Next]_vars
    PROVE  log' = log \/ \E f \in Fill : HandleFill(f) /\ log' = Append(log, Entry(f))
<1> USE DEF record
<1>1. CASE \E f \in Fill : HandleFill(f)
    BY <1>1 DEF HandleFill
<1>2. CASE Exchange
    BY <1>2 DEF Exchange, PlaceBuy, Match, CancelBuy, ListTrade
<1>3. CASE Recovery \/ Restart \/ UNCHANGED vars
    BY <1>3 DEF Recovery, RecoveryBegins, RecoveryAsksAll, RecoveryPrimes, RecoveryFails,
                Restart, vars
<1>4. CASE TickBegins \/ TickAsksAll \/ TickPrimes \/ TickFetches \/ TradesFail
           \/ TickSelects \/ TickReadsOpen
    BY <1>4 DEF TickBegins, TickAsksAll, TickPrimes, TickFetches, TradesFail, TickSelects,
                TickReadsOpen
<1> QED
    BY <1>1, <1>2, <1>3, <1>4 DEF Next, Tick

LEMMA LoggedListed ==
    ASSUME TypeOK
    PROVE  /\ \A f \in Fill : Log!Acted(f) # {} => f \in listed
           /\ \A f \in Fill : \A n \in Log!Acted(f) : n \in Nat
<1>1. /\ log \in Seq(LogEntry) /\ DOMAIN log = 1 .. Len(log)
      /\ \A i \in DOMAIN log : log[i].fill \in listed
    BY DEF TypeOK, LogEntry
<1>2. \A i \in 1 .. Len(log) : log[i] \in LogEntry
    BY <1>1
<1>3. \A i \in 1 .. Len(log) : log[i].life \in Nat /\ log[i].fill \in listed
    BY <1>1, <1>2 DEF LogEntry
<1> QED
    BY <1>3 DEF Log!Acted

\* Without an action on a fill what is acted on stays.
LEMMA LogStays ==
    ASSUME log' = log
    PROVE  \A f \in Fill : Log!Acted(f)' = Log!Acted(f)
BY DEF Log!Acted

LEMMA NextLogInv == ASSUME LInv, [Next]_vars PROVE LogInv'
<1> USE DEF LogInv, ActedNow, ActedEver
<1>0. TypeOK /\ OldSeen /\ LogInv /\ life \in Nat
    BY DEF LInv, OInv, TypeOK
<1>1. CASE \E f \in Fill : HandleFill(f)
  <2>1. PICK f \in Fill : HandleFill(f)
    BY <1>1
  <2>2. /\ f \in tick.todo /\ seen' = seen \cup {f} /\ tick'.todo = tick.todo \ {f}
        /\ UNCHANGED <<old, life, hasty>>
    BY <1>0, <2>1, HandleTodo DEF HandleFill, history
  <2>3. CASE log' = log
    BY <1>0, <2>2, <2>3, LogStays
  <2>4. CASE log' = Append(log, Entry(f))
    <3>1. /\ Log!Acted(f)' = Log!Acted(f) \cup {life}
          /\ \A g \in Fill \ {f} : Log!Acted(g)' = Log!Acted(g)
      BY <1>0, <2>4, LogGrows
    <3> QED
      BY <1>0, <2>2, <3>1
  <2> QED
    BY <2>1, <2>3, <2>4 DEF HandleFill, record
<1>2. CASE log' = log /\ UNCHANGED <<tick, old, life, hasty>> /\ seen \subseteq seen'
    BY <1>0, <1>2, LogStays
<1>3. CASE Exchange \/ Recovery \/ UNCHANGED vars
    BY <1>2, <1>3 DEF Exchange, PlaceBuy, Match, CancelBuy, ListTrade, Recovery, RecoveryBegins,
                RecoveryAsksAll, RecoveryPrimes, RecoveryFails, vars, history, record
<1>4. CASE Restart
  <2>1. log' = log /\ life' = life + 1 /\ old' = listed /\ tick'.todo = {}
    BY <1>4 DEF Restart, Idle, record
  <2>2. \A f \in Fill : \A n \in Log!Acted(f) : n <= life' /\ n # life'
    BY <1>0, <2>1, LoggedListed
  <2> QED
    BY <1>0, <2>1, <2>2, LoggedListed, LogStays
<1>5. CASE TickSelects
  <2>1. UNCHANGED <<seen, old, log, life>>
    BY <1>5 DEF TickSelects, history, record
  <2>2. /\ hasty \subseteq hasty'
        /\ \/ tick'.todo = {}
           \/ /\ tick'.todo = tick.got \ seen
              /\ primed \/ tick'.todo \subseteq hasty'
    BY <1>0, <1>5 DEF TickSelects, Idle, TypeOK
  <2>3. primed => old \subseteq seen
    BY <1>0 DEF OldSeen
  <2> QED
    BY <1>0, <2>1, <2>2, <2>3, LogStays
<1>6. CASE TickBegins \/ TickAsksAll \/ TickPrimes \/ TickFetches \/ TradesFail \/ TickReadsOpen
  <2>1. seen \subseteq seen' /\ UNCHANGED <<old, log, life, hasty>>
    BY <1>6 DEF TickBegins, TickAsksAll, TickPrimes, TickFetches, TradesFail, TickReadsOpen,
                history, record
  <2>2. ~TickSelects
    BY <1>6 DEF TickBegins, TickAsksAll, TickPrimes, TickFetches, TradesFail, TickReadsOpen,
                TickSelects
  <2>3. tick'.todo \subseteq tick.todo
    BY <1>0, <2>2, TakenUp
  <2> QED
    BY <1>0, <2>1, <2>3, LogStays
<1> QED
    BY <1>1, <1>3, <1>4, <1>5, <1>6 DEF Next, Tick

\* Step 1 acts on every fill at most once in a life of the process, and on none
\* that was acted on in an earlier life, but for those it takes up before the
\* priming: it implements FillLog, in every environment.
THEOREM StepOneImplementsLog == Spec => ImplementsLog
<1>1. Init => LInv
  <2> SUFFICES ASSUME Init PROVE LInv
    OBVIOUS
  <2>1. \A f \in Fill : Log!Acted(f) = {}
    BY DEF Init, Log!Acted
  <2> QED
    BY <2>1, InitOInv DEF Init, LInv, LogInv, ActedNow, ActedEver, Idle
<1>2. LInv /\ [Next]_vars => LInv'
    BY NextOInv, NextLogInv DEF LInv
<1>3. Init => Log!LogInit
    BY DEF Init, Log!LogInit
<1>4. LInv /\ [Next]_vars => [Log!LogNext]_log
  <2> SUFFICES ASSUME LInv, [Next]_vars, log' # log PROVE Log!LogNext
    OBVIOUS
  <2>1. TypeOK
    BY DEF LInv, OInv
  <2>2. PICK f \in Fill : HandleFill(f) /\ log' = Append(log, Entry(f))
    BY <2>1, LogChange
  <2>3. f \in tick.todo
    BY <2>1, <2>2, HandleTodo
  <2>4. life \notin Log!Acted(f) /\ (Log!Acted(f) = {} \/ f \in hasty)
    BY <2>3 DEF LInv, LogInv, ActedNow, ActedEver
  <2> QED
    BY <2>2, <2>4 DEF Log!LogNext, Log!Act, Entry
<1> QED
    BY <1>1, <1>2, <1>3, <1>4, PTL DEF Spec, ImplementsLog, Log!LogSpec

-----------------------------------------------------------------------------
(* What is left of an order. Between the read of the open orders and the     *)
(* last fill of the tick, an order of a held fill that still rests is among  *)
(* those read, and what was cancelled is gone or was answered not to be; ids *)
(* do not come back.                                                        *)

OrdersOK ==
    /\ \A o \in tick.cancelled : o \in Traded /\ o \notin open \ deaf
    /\ tick.known => /\ tick.at = "handle"
                     /\ \A f \in tick.todo :
                            trades[f].order \in open => trades[f].order \in tick.openIds

RInv == TypeOK /\ RemainderGone /\ OrdersOK

LEMMA ExchangeRInv == ASSUME RInv, Exchange PROVE RemainderGone' /\ OrdersOK'
<1> USE DEF RInv, RemainderGone, OrdersOK
<1>0. TypeOK /\ UNCHANGED <<tick, clean, deaf>>
    BY DEF Exchange, PlaceBuy, Match, CancelBuy, ListTrade, record
<1>1. CASE \E o \in Orders : PlaceBuy(o)
  <2>1. PICK o \in Orders : PlaceBuy(o)
    BY <1>1
  <2>2. open' = open \cup {o} /\ o \notin Traded /\ UNCHANGED trades
    BY <2>1 DEF PlaceBuy, Unused
  <2>3. \A f \in clean \cup tick.todo : trades[f].order \in Traded
    BY DEF TypeOK, Traded
  <2> QED
    BY <1>0, <2>2, <2>3 DEF Traded
<1>2. CASE \E o \in Orders : Match(o)
  <2>1. PICK o \in Orders : Match(o)
    BY <1>2
  <2>2. PICK t : trades' = Append(trades, t)
    BY <2>1 DEF Match
  <2>3. /\ DOMAIN trades \subseteq DOMAIN trades'
        /\ \A f \in DOMAIN trades : trades'[f] = trades[f]
    BY <2>2 DEF TypeOK
  <2>4. open' \subseteq open
    BY <2>1 DEF Match
  <2>5. Traded \subseteq Traded'
    BY <2>3 DEF Traded
  <2>6. \A f \in clean \cup tick.todo : trades'[f] = trades[f]
    BY <2>3 DEF TypeOK
  <2> QED
    BY <1>0, <2>4, <2>5, <2>6
<1>3. CASE (\E o \in Orders : CancelBuy(o)) \/ (\E f \in Fill : ListTrade(f))
  <2>1. open' \subseteq open /\ UNCHANGED trades
    BY <1>3 DEF CancelBuy, ListTrade
  <2> QED
    BY <1>0, <2>1 DEF Traded
<1> QED
    BY <1>1, <1>2, <1>3 DEF Exchange

LEMMA HandleRInv ==
    ASSUME RInv, NEW f \in Fill, HandleFill(f) PROVE RemainderGone' /\ OrdersOK'
<1> USE DEF RInv, RemainderGone, OrdersOK
<1> DEFINE o == trades[f].order
           asks == o \in tick.openIds \ tick.cancelled
<1>1. TypeOK /\ UNCHANGED trades /\ f \in tick.todo /\ tick.at = "handle"
      /\ tick'.todo \subseteq tick.todo
    BY HandleTodo DEF HandleFill
<1>2. open' \subseteq open /\ o \in Traded
    BY <1>1 DEF HandleFill, TypeOK, Traded
<1>3. ASSUME NEW c, Counted(f, c)
      PROVE  tick' = Idle
             \/ (/\ tick'.cancelled = c /\ tick'.known = tick.known /\ tick'.at = tick.at
                 /\ tick'.openIds = tick.openIds)
    BY <1>3 DEF Counted, TypeOK
<1>4. ASSUME NEW c, Counted(f, c), \A p \in c : p \in Traded /\ p \notin open' \ deaf'
      PROVE  OrdersOK'
    BY <1>1, <1>2, <1>3, <1>4 DEF Traded, Idle
<1>5. CASE /\ open' = IF asks THEN open \ {o} ELSE open
           /\ Counted(f, IF asks THEN tick.cancelled \cup {o} ELSE tick.cancelled)
           /\ clean' = IF tick.known THEN clean \cup {f} ELSE clean
           /\ deaf' = deaf
  <2>1. OrdersOK'
    BY <1>2, <1>4, <1>5
  <2>2. tick.known => o \notin open' \ deaf'
    BY <1>1, <1>5
  <2> QED
    BY <1>1, <1>2, <1>5, <2>1, <2>2
<1>7. CASE /\ Counted(f, tick.cancelled \cup {o}) /\ clean' = clean \cup {f}
           /\ deaf' = deaf \cup {o} /\ open' = open
  <2>1. OrdersOK'
    BY <1>2, <1>4, <1>7
  <2> QED
    BY <1>1, <1>7, <2>1
<1>6. CASE Counted(f, tick.cancelled) /\ clean' = clean /\ deaf' = deaf
  <2>1. OrdersOK'
    BY <1>2, <1>4, <1>6
  <2> QED
    BY <1>1, <1>2, <1>6, <2>1
<1> QED
    BY <1>5, <1>6, <1>7 DEF HandleFill, record

LEMMA OtherRInv ==
    ASSUME RInv, Recovery \/ Restart \/ UNCHANGED vars \/ (Tick /\ ~\E f \in Fill : HandleFill(f))
    PROVE  RemainderGone' /\ OrdersOK'
<1> USE DEF RInv, RemainderGone, OrdersOK, world, record
<1>1. CASE Recovery \/ UNCHANGED vars
  <2>1. UNCHANGED <<trades, open, tick, clean, deaf>>
    BY <1>1 DEF Recovery, RecoveryBegins, RecoveryAsksAll, RecoveryPrimes, RecoveryFails, vars
  <2> QED
    BY <2>1 DEF Traded
<1>2. CASE Restart
    BY <1>2 DEF Restart, Idle
<1>3. CASE Tick /\ ~\E f \in Fill : HandleFill(f)
  <2>1. UNCHANGED <<trades, open, clean, deaf>>
    BY <1>3 DEF Tick, TickBegins, TickAsksAll, TickPrimes, TickFetches, TradesFail,
                TickSelects, TickReadsOpen
  <2>2. tick.at # "handle" => ~tick.known
    OBVIOUS
  <2>3. CASE TickReadsOpen
    <3>1. /\ tick'.cancelled = tick.cancelled /\ tick'.todo = tick.todo
          /\ tick'.known => tick'.at = "handle" /\ tick'.openIds = open
      BY <2>2, <2>3 DEF TickReadsOpen, At, TypeOK
    <3> QED
      BY <2>1, <3>1 DEF Traded
  <2>4. CASE tick' = Idle
    BY <2>1, <2>4 DEF Idle
  <2>5. CASE TickBegins \/ TickAsksAll \/ TickPrimes \/ TickFetches \/ TickSelects
    <3>1. tick' = Idle \/ (tick'.cancelled = tick.cancelled /\ ~tick'.known)
      <4>1. CASE TickBegins
        BY <2>2, <4>1 DEF TickBegins, At, TypeOK
      <4>2. CASE TickAsksAll \/ TickPrimes
        BY <2>2, <4>2 DEF TickAsksAll, TickPrimes, TypeOK
      <4>3. CASE TickFetches \/ TickSelects
        BY <2>2, <4>3 DEF TickFetches, TickSelects, TypeOK
      <4> QED
        BY <2>5, <4>1, <4>2, <4>3
    <3> QED
      BY <2>1, <2>4, <3>1 DEF Traded
  <2> QED
    BY <1>3, <2>3, <2>4, <2>5 DEF Tick, TradesFail
<1> QED
    BY <1>1, <1>2, <1>3

\* A buy whose fill was handled with the open orders read and the cancel returned
\* does not rest, unless the CLOB had answered that it did not cancel it, whatever
\* the rounds place in the meantime.
THEOREM RemainderIsGone == Spec => []RemainderGone
<1>1. Init => RInv
    BY InitTypeOK DEF Init, RInv, RemainderGone, OrdersOK, Idle
<1>2. RInv /\ [Next]_vars => RInv'
    BY NextTypeOK, ExchangeRInv, HandleRInv, OtherRInv DEF RInv, Next
<1>3. RInv => RemainderGone
    BY DEF RInv
<1> QED
    BY <1>1, <1>2, <1>3, PTL DEF Spec

=============================================================================
