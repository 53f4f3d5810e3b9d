----------------------------- MODULE Pnl_proofs -----------------------------
(***************************************************************************)
(* What holds of the daily rebuild for any number of tokens, days, events  *)
(* and faults.  The flag says whether the worker's own thread is at work,  *)
(* so that it is never left set, and a date that is stored as rebuilt has  *)
(* every row up to it.  The row of a day two rebuilds back says what was   *)
(* earned on it, share by share, and the rows of a wallet that has sold    *)
(* all it bought add up to the cash that went through it.                  *)
(***************************************************************************)
EXTENDS Pnl, Sums

Dates == 1..Days
Places == {"idle", "activity", "trades", "merges", "write"}

\* _pnl_rebuilding is set exactly while the worker's own thread runs or once
\* that thread could not be started, never both: no answer that fails and no
\* restart leaves a worker that never rebuilds again, only such a start does.
FlagIsThread ==
    /\ rebuilding <=> (unstarted \/ thread["own"].at # "idle")
    /\ unstarted => thread["own"].at = "idle"

\* _last_pnl_date is a day up to which no row of daily_pnl is missing, although
\* the rows are written one by one and any of the writes may raise.
NoDayMissing == \A d \in 1..last : d \in DOMAIN rows

Fields == {"at", "today", "got", "next"}
ThreadOK(w) ==
    /\ DOMAIN thread[w] = Fields
    /\ thread[w].at \in Places
    /\ thread[w].today \in 0..Days
    /\ thread[w].next \in 1..Days + 1
Typed ==
    /\ day \in Dates /\ last \in 0..Days /\ rebuilding \in BOOLEAN /\ unstarted \in BOOLEAN
    /\ DOMAIN thread = Threads
    /\ \A w \in Threads : ThreadOK(w)

\* What a thread has written of its dates stays written.
WrittenSoFar ==
    \A w \in Threads : \A d \in 1..(thread[w].next - 1) : d \in DOMAIN rows

PInv == Typed /\ WrittenSoFar /\ FlagIsThread /\ NoDayMissing

LEMMA InitPInv == Init => PInv
<1> SUFFICES ASSUME Init PROVE PInv
    OBVIOUS
<1>1. \A w \in Threads : thread[w] = Idle
    BY DEF Init
<1>2. \A w \in Threads : ThreadOK(w) /\ thread[w].at = "idle" /\ thread[w].next = 1
    BY <1>1, ConstantsAssumption DEF ThreadOK, Fields, Idle, Places
<1>3. /\ day = 1 /\ last = 0 /\ rebuilding = FALSE /\ unstarted = FALSE
      /\ DOMAIN thread = Threads
    BY DEF Init
<1>4. 1 \in Dates /\ 0 \in 0..Days
    BY ConstantsAssumption DEF Dates
<1>5. Typed
    BY <1>2, <1>3, <1>4 DEF Typed
<1>6. WrittenSoFar /\ NoDayMissing
    BY <1>2, <1>3 DEF WrittenSoFar, NoDayMissing
<1>7. FlagIsThread
    BY <1>2, <1>3 DEF FlagIsThread, Threads
<1> QED
    BY <1>5, <1>6, <1>7 DEF PInv

\* Steps that leave the worker and its threads alone.
LEMMA KeepsPInv ==
    ASSUME PInv, day' \in Dates, UNCHANGED <<rows, last, rebuilding, unstarted, thread>>
    PROVE  PInv'
BY DEF PInv, Typed, ThreadOK, WrittenSoFar, FlagIsThread, NoDayMissing

LEMMA WorldPInv == ASSUME PInv, World PROVE PInv'
<1>1. UNCHANGED <<rows, last, rebuilding, unstarted, thread>>
    BY DEF World, Trade, List, Pay, Merge, NextDay
<1>2. day' = day \/ (day < Days /\ day' = day + 1)
    BY DEF World, Trade, List, Pay, Merge, NextDay
<1>3. day' \in Dates
    BY <1>2, ConstantsAssumption DEF PInv, Typed, Dates
<1> QED
    BY <1>1, <1>3, KeepsPInv

\* A step that ends a thread and forgets what it was about.
LEMMA EndPInv ==
    ASSUME PInv, NEW w \in Threads, thread[w].at # "idle",
           thread' = [thread EXCEPT ![w] = Idle],
           rebuilding' = (rebuilding /\ w # "own"),
           last' \in 0..Days, \A d \in 1..last' : d \in DOMAIN rows,
           UNCHANGED <<day, rows, unstarted>>
    PROVE  PInv'
<1>1. thread'[w] = Idle /\ \A v \in Threads \ {w} : thread'[v] = thread[v]
    BY DEF PInv, Typed
<1>2. ThreadOK(w)' /\ thread'[w].at = "idle" /\ thread'[w].next = 1
    BY <1>1, ConstantsAssumption DEF ThreadOK, Fields, Idle, Places
<1>3. \A v \in Threads : ThreadOK(v)'
    BY <1>1, <1>2 DEF PInv, Typed, ThreadOK
<1>4. Typed'
    BY <1>3 DEF PInv, Typed
<1>5. WrittenSoFar'
    BY <1>1, <1>2 DEF PInv, WrittenSoFar
<1>6. FlagIsThread'
    BY <1>1, <1>2 DEF PInv, FlagIsThread, Threads
<1> QED
    BY <1>4, <1>5, <1>6 DEF PInv, NoDayMissing

LEMMA StartRaisesPInv == ASSUME PInv, StartRaises PROVE PInv'
BY DEF StartRaises, PInv, Typed, ThreadOK, WrittenSoFar, FlagIsThread, NoDayMissing

LEMMA MaybeRebuildPInv == ASSUME PInv, MaybeRebuild PROVE PInv'
<1>1. /\ thread'["own"].at = "activity" /\ thread'["own"].today = day
      /\ thread'["own"].next = 1 /\ DOMAIN thread'["own"] = Fields
    BY DEF MaybeRebuild, PInv, Typed, Threads, Idle, Fields
<1>2. DOMAIN thread' = Threads /\ \A w \in Threads \ {"own"} : thread'[w] = thread[w]
    BY DEF MaybeRebuild, PInv, Typed
<1>3. ThreadOK("own")'
    BY <1>1, ConstantsAssumption DEF ThreadOK, Places, PInv, Typed, Dates
<1>4. \A w \in Threads : ThreadOK(w)'
    BY <1>2, <1>3 DEF PInv, Typed, ThreadOK
<1>5. Typed'
    BY <1>2, <1>4 DEF MaybeRebuild, PInv, Typed
<1>6. WrittenSoFar'
    BY <1>1, <1>2 DEF MaybeRebuild, PInv, WrittenSoFar
<1>7. FlagIsThread'
    BY <1>1 DEF MaybeRebuild, PInv, FlagIsThread
<1> QED
    BY <1>5, <1>6, <1>7 DEF MaybeRebuild, PInv, NoDayMissing

\* A read moves a thread on and changes nothing else.
LEMMA ReadsPInv ==
    ASSUME PInv, NEW w \in Threads, NEW at, NEW part, NEW value, NEW then,
           Reads(w, at, part, value, then), at # "idle", then \in Places \ {"idle"}
    PROVE  PInv'
<1>1. /\ DOMAIN thread' = Threads
      /\ thread'[w].at = then /\ DOMAIN thread'[w] = Fields
      /\ thread'[w].today = thread[w].today /\ thread'[w].next = thread[w].next
    BY DEF Reads, PInv, Typed, ThreadOK, Fields
<1>2. \A v \in Threads \ {w} : thread'[v] = thread[v]
    BY DEF Reads, PInv, Typed
<1>3. \A v \in Threads : ThreadOK(v)'
    BY <1>1, <1>2 DEF PInv, Typed, ThreadOK
<1>4. Typed'
    BY <1>1, <1>3 DEF Reads, PInv, Typed
<1>5. WrittenSoFar'
    BY <1>1, <1>2 DEF Reads, PInv, WrittenSoFar
<1>6. FlagIsThread'
    BY <1>1, <1>2 DEF Reads, PInv, FlagIsThread, Threads
<1> QED
    BY <1>4, <1>5, <1>6 DEF Reads, PInv, NoDayMissing

LEMMA WriteDayPInv == ASSUME PInv, NEW w \in Threads, WriteDay(w) PROVE PInv'
<1>0. /\ thread[w].at = "write" /\ thread[w].next \in 1..Days
      /\ thread[w].next <= thread[w].today
  <2>1. thread[w].at = "write" /\ thread[w].next <= thread[w].today
    BY DEF WriteDay
  <2>2. thread[w].today \in 0..Days /\ thread[w].next \in 1..Days + 1
    BY DEF PInv, Typed, ThreadOK
  <2> QED
    BY <2>1, <2>2, ConstantsAssumption
<1>1. /\ DOMAIN thread' = Threads /\ DOMAIN thread'[w] = Fields
      /\ thread'[w].at = "write" /\ thread'[w].today = thread[w].today
      /\ thread'[w].next = thread[w].next + 1
    BY <1>0 DEF WriteDay, PInv, Typed, ThreadOK, Fields
<1>2. \A v \in Threads \ {w} : thread'[v] = thread[v]
    BY DEF WriteDay, PInv, Typed
<1>3. DOMAIN rows' = DOMAIN rows \union {thread[w].next}
    BY DEF WriteDay
<1>4. ThreadOK(w)'
    BY <1>0, <1>1, ConstantsAssumption DEF PInv, Typed, ThreadOK
<1>5. \A v \in Threads : ThreadOK(v)'
    BY <1>2, <1>4 DEF PInv, Typed, ThreadOK
<1>6. Typed'
    BY <1>1, <1>5 DEF WriteDay, PInv, Typed
<1>7. \A d \in 1..(thread'[w].next - 1) : d \in 1..(thread[w].next - 1) \/ d = thread[w].next
    BY <1>0, <1>1
<1>8. WrittenSoFar'
    BY <1>2, <1>3, <1>7 DEF PInv, WrittenSoFar
<1>9. FlagIsThread'
    BY <1>0, <1>1, <1>2 DEF WriteDay, PInv, FlagIsThread, Threads
<1>10. NoDayMissing'
    BY <1>3 DEF WriteDay, PInv, NoDayMissing
<1> QED
    BY <1>6, <1>8, <1>9, <1>10 DEF PInv

LEMMA FinishPInv == ASSUME PInv, NEW w \in Threads, Finish(w) PROVE PInv'
<1>1. last' \in 0..Days
    BY DEF Finish, PInv, Typed, ThreadOK
<1>2. \A d \in 1..last' : d \in DOMAIN rows
  <2>1. CASE w = "own"
    <3>1. last' = thread[w].today /\ thread[w].today <= thread[w].next - 1
        BY <2>1 DEF Finish, PInv, Typed, ThreadOK
    <3>2. \A d \in 1..last' : d \in 1..(thread[w].next - 1)
        BY <3>1 DEF PInv, Typed, ThreadOK
    <3> QED
        BY <3>2 DEF PInv, WrittenSoFar
  <2>2. CASE w # "own"
    BY <2>2 DEF Finish, PInv, NoDayMissing
  <2> QED
    BY <2>1, <2>2
<1> QED
    BY <1>1, <1>2, EndPInv DEF Finish

LEMMA RaisePInv == ASSUME PInv, NEW w \in Threads, Raise(w) PROVE PInv'
<1>1. last' \in 0..Days /\ \A d \in 1..last' : d \in DOMAIN rows
    BY DEF Raise, PInv, Typed, NoDayMissing
<1> QED
    BY <1>1, EndPInv DEF Raise

LEMMA RestartPInv == ASSUME PInv, Restart PROVE PInv'
<1>1. /\ DOMAIN thread' = Threads /\ thread'["own"] = Idle
      /\ thread'["orphan"] \in {Idle, thread["own"]}
    BY DEF Restart, PInv, Typed, Threads
<1>2. /\ DOMAIN Idle = Fields /\ Idle.at = "idle" /\ Idle.today = 0 /\ Idle.next = 1
    BY DEF Idle, Fields
<1>3. ThreadOK("own")' /\ ThreadOK("orphan")'
    BY <1>1, <1>2, ConstantsAssumption DEF PInv, Typed, ThreadOK, Places, Threads
<1>4. last' = 0 /\ rebuilding' = FALSE /\ unstarted' = FALSE /\ day' = day
    BY DEF Restart
<1>5. 0 \in 0..Days
    BY ConstantsAssumption
<1>6. Typed'
    BY <1>1, <1>3, <1>4, <1>5 DEF PInv, Typed, Threads
<1>7. WrittenSoFar'
    BY <1>1, <1>2 DEF Restart, PInv, WrittenSoFar, Threads
<1>8. FlagIsThread' /\ NoDayMissing'
    BY <1>1, <1>2 DEF Restart, FlagIsThread, NoDayMissing
<1> QED
    BY <1>6, <1>7, <1>8 DEF PInv

LEMMA NextPInv == ASSUME PInv, [Next]_vars PROVE PInv'
<1>1. CASE World
    BY <1>1, WorldPInv
<1>2. CASE MaybeRebuild
    BY <1>2, MaybeRebuildPInv
<1>3. ASSUME NEW w \in Threads, Step(w) PROVE PInv'
  <2>1. CASE ReadActivity(w)
    BY <2>1, ReadsPInv DEF ReadActivity, Places
  <2>2. CASE ReadTrades(w)
    BY <2>2, ReadsPInv DEF ReadTrades, Places
  <2>3. CASE ReadMerges(w)
    BY <2>3, ReadsPInv DEF ReadMerges, Places
  <2> QED
    BY <1>3, <2>1, <2>2, <2>3, WriteDayPInv, FinishPInv DEF Step
<1>4. ASSUME NEW w \in Threads, Raise(w) PROVE PInv'
    BY <1>4, RaisePInv
<1>5. CASE Restart
    BY <1>5, RestartPInv
<1>6. CASE StartRaises
    BY <1>6, StartRaisesPInv
<1>7. CASE UNCHANGED vars
    BY <1>7, KeepsPInv DEF vars, PInv, Typed
<1> QED
    BY <1>1, <1>2, <1>3, <1>4, <1>5, <1>6, <1>7 DEF Next

\* The worker's flag is never left set by a thread that has run: with
\* MaybeRebuild's guard, at most one rebuild of a worker runs, and a failed one
\* can be tried again, unless its thread could not be started at all.  KeepsUp
\* rests on it.
THEOREM FlagNeverStuck == Spec => []FlagIsThread
<1>1. PInv => FlagIsThread
    BY DEF PInv
<1> QED
    BY <1>1, InitPInv, NextPInv, PTL DEF Spec

\* Whatever raises half way through the rows, a date that the worker has stored
\* as rebuilt has a row for every day up to it.
THEOREM NoDayIsMissing == Spec => []NoDayMissing
<1>1. PInv => NoDayMissing
    BY DEF PInv
<1> QED
    BY <1>1, InitPInv, NextPInv, PTL DEF Spec

-----------------------------------------------------------------------------
\* The fills of a token

Deal == [day : Dates, side : {"BUY", "SELL"}, price : Nat, size : Nat \ {0}, fee : Nat]
Deals == Seq(Deal)
\* Nothing is sold before it was bought, and time goes on.
Covered(ts) == \A i \in DOMAIN ts : Upto(ts, "SELL", i) <= Upto(ts, "BUY", i)
InOrder(ts) == \A i, j \in DOMAIN ts : i <= j => ts[i].day <= ts[j].day

LEMMA DealAt ==
    ASSUME NEW ts \in Deals
    PROVE  /\ Len(ts) \in Nat /\ DOMAIN ts = 1..Len(ts) /\ IsFiniteSet(DOMAIN ts)
           /\ \A i \in DOMAIN ts :
                /\ ts[i] \in Deal /\ ts[i].day \in Dates /\ ts[i].side \in {"BUY", "SELL"}
                /\ ts[i].price \in Nat /\ ts[i].size \in Nat /\ ts[i].size > 0 /\ ts[i].fee \in Nat
<1>1. Len(ts) \in Nat /\ DOMAIN ts = 1..Len(ts)
    BY LenProperties DEF Deals
<1>2. IsFiniteSet(1..Len(ts))
    BY <1>1, FS_Interval
<1>3. \A i \in DOMAIN ts : ts[i] \in Deal
    BY <1>1, ElementOfSeq DEF Deals
<1> QED
    BY <1>1, <1>2, <1>3 DEF Deal

Sizes(ts, side) == [j \in DOMAIN ts |-> IF ts[j].side = side THEN ts[j].size ELSE 0]

LEMMA UptoIsSum ==
    ASSUME NEW ts \in Deals, NEW side, NEW i \in 0..Len(ts)
    PROVE  Upto(ts, side, i) = SumOn(Sizes(ts, side), 1..i)
<1>1. 1..i \subseteq DOMAIN ts
    BY DealAt
<1>2. [j \in 1..i |-> IF ts[j].side = side THEN ts[j].size ELSE 0] = [x \in 1..i |-> Sizes(ts, side)[x]]
    BY <1>1 DEF Sizes
<1> QED
    BY <1>2 DEF Upto, SumOn

\* One fill more, of this side or of the other.
LEMMA UptoStep ==
    ASSUME NEW ts \in Deals, NEW side, NEW i \in 1..Len(ts)
    PROVE  /\ Upto(ts, side, i) \in Int /\ Upto(ts, side, i - 1) \in Int
           /\ Upto(ts, side, i) = Upto(ts, side, i - 1) + Sizes(ts, side)[i]
           /\ Sizes(ts, side)[i] = (IF ts[i].side = side THEN ts[i].size ELSE 0)
           /\ Sizes(ts, side)[i] \in Nat
<1> DEFINE n == Len(ts)
           f == Sizes(ts, side)
<1>1. n \in Nat /\ f \in [1..n -> Int] /\ f[i] \in Nat
    BY DealAt DEF Sizes
<1>2. f[i] = IF ts[i].side = side THEN ts[i].size ELSE 0
    BY DealAt DEF Sizes
<1>3. i \in 0..Len(ts) /\ i - 1 \in 0..Len(ts)
    BY DealAt
<1>4. Upto(ts, side, i) = SumOn(f, 1..i) /\ Upto(ts, side, i - 1) = SumOn(f, 1..(i - 1))
    BY <1>3, UptoIsSum
<1> HIDE DEF f
<1>5. SumOn(f, 1..i) \in Int /\ SumOn(f, 1..(i - 1)) \in Int /\ SumOn(f, 1..i) = f[i] + SumOn(f, 1..(i - 1))
    BY <1>1, SumStep
<1>6. f[i] \in Int
    BY <1>1
<1>7. SumOn(f, 1..i) = SumOn(f, 1..(i - 1)) + f[i]
    BY <1>5, <1>6
<1> QED
    BY <1>1, <1>2, <1>4, <1>5, <1>7 DEF f

LEMMA UptoZero == ASSUME NEW ts \in Deals, NEW side PROVE Upto(ts, side, 0) = 0
<1>1. Upto(ts, side, 0) = SumOn(Sizes(ts, side), 1..0)
    BY DealAt, UptoIsSum
<1>2. 1..0 = {}
    OBVIOUS
<1> QED
    BY <1>1, <1>2, SumOnEmpty

\* What was bought, or sold, so far never gets less.
LEMMA UptoGrows ==
    ASSUME NEW ts \in Deals, NEW side
    PROVE  \A k \in 0..Len(ts) : \A i \in 0..k : Upto(ts, side, i) \in Nat
                                                 /\ Upto(ts, side, k) \in Nat
                                                 /\ Upto(ts, side, i) <= Upto(ts, side, k)
<1> DEFINE u == [i \in 0..Len(ts) |-> Upto(ts, side, i)]
           G == {k \in Nat : k <= Len(ts) => \A i \in 0..k : u[i] \in Nat /\ u[k] \in Nat /\ u[i] <= u[k]}
<1>0. Len(ts) \in Nat
    BY DealAt
<1>1. 0 \in G
    BY <1>0, UptoZero
<1>2. ASSUME NEW k \in Nat, k \in G PROVE k + 1 \in G
  <2> SUFFICES ASSUME k + 1 <= Len(ts), NEW i \in 0..(k + 1)
               PROVE  u[i] \in Nat /\ u[k + 1] \in Nat /\ u[i] <= u[k + 1]
      OBVIOUS
  <2>1. k + 1 \in 1..Len(ts) /\ (k + 1) - 1 = k /\ k \in 0..Len(ts) /\ k + 1 \in 0..Len(ts)
      BY <1>0
  <2>2. u[k + 1] = u[k] + Sizes(ts, side)[k + 1] /\ Sizes(ts, side)[k + 1] \in Nat
    <3>1. /\ Upto(ts, side, k + 1) = Upto(ts, side, (k + 1) - 1) + Sizes(ts, side)[k + 1]
          /\ Sizes(ts, side)[k + 1] \in Nat
        BY <2>1, UptoStep
    <3> QED
        BY <2>1, <3>1
  <2> HIDE DEF u
  <2>3. \A h \in 0..k : u[h] \in Nat /\ u[k] \in Nat /\ u[h] <= u[k]
      BY <1>2, <2>1
  <2>4. u[k] \in Nat
      BY <2>3
  <2>5. u[k + 1] \in Nat /\ u[k] <= u[k + 1]
      BY <2>2, <2>4
  <2>6. CASE i = k + 1
      BY <2>5, <2>6
  <2>7. CASE i # k + 1
    <3>1. i \in 0..k
        BY <2>7
    <3> QED
        BY <2>3, <2>5, <3>1
  <2> QED
      BY <2>6, <2>7
<1>3. Nat \subseteq G
  <2> HIDE DEF G
  <2> QED
      BY <1>1, <1>2, NatSetInduction
<1>4. ASSUME NEW k \in 0..Len(ts), NEW i \in 0..k
      PROVE  u[i] \in Nat /\ u[k] \in Nat /\ u[i] <= u[k]
    BY <1>0, <1>3
<1>5. ASSUME NEW k \in 0..Len(ts), NEW i \in 0..k PROVE i \in 0..Len(ts)
    BY <1>0
<1> QED
    BY <1>4, <1>5

\* The first i fills say how much they have traded.
LEMMA UptoSame ==
    ASSUME NEW ts, NEW us, NEW side, NEW i, \A j \in 1..i : ts[j] = us[j]
    PROVE  Upto(ts, side, i) = Upto(us, side, i)
<1>1. [j \in 1..i |-> IF ts[j].side = side THEN ts[j].size ELSE 0]
      = [j \in 1..i |-> IF us[j].side = side THEN us[j].size ELSE 0]
    OBVIOUS
<1> QED
    BY <1>1 DEF Upto

-----------------------------------------------------------------------------
\* The replay

LEMMA TakesTyped ==
    ASSUME NEW n \in Nat, NEW lots \in [1..n -> Int], NEW size \in Int
    PROVE  Takes(lots, size) \in [1..n -> Int]
<1>1. ASSUME NEW j \in 1..n
      PROVE  Fewest(lots[j], Most(0, size - SumFunction([k \in 1..(j - 1) |-> lots[k]]))) \in Int
  <2> DEFINE r == [k \in 1..(j - 1) |-> lots[k]]
  <2>1. r \in [1..(j - 1) -> Int] /\ IsFiniteSet(1..(j - 1))
      BY FS_Interval
  <2> HIDE DEF r
  <2>2. SumFunction(r) \in Int
      BY <2>1, SumInt
  <2> QED
      BY <2>2 DEF Fewest, Most, r
<1> QED
    BY <1>1 DEF Takes

\* One fill of those seen.
Replayed(lots, ts, seen, i) ==
    IF i \notin seen THEN lots
    ELSE IF ts[i].side = "BUY" THEN [lots EXCEPT ![i] = ts[i].size]
    ELSE LeftOf(lots, Takes(lots, ts[i].size))

LEMMA ReplayedTyped ==
    ASSUME NEW ts \in Deals, NEW seen, NEW i \in DOMAIN ts, NEW lots \in [DOMAIN ts -> Int]
    PROVE  Replayed(lots, ts, seen, i) \in [DOMAIN ts -> Int]
<1>1. ts[i].size \in Int
    BY DealAt
<1>2. PICK n \in Nat : DOMAIN ts = 1..n
    BY DealAt
<1>3. Takes(lots, ts[i].size) \in [1..n -> Int]
    BY <1>1, <1>2, TakesTyped
<1>4. LeftOf(lots, Takes(lots, ts[i].size)) \in [DOMAIN ts -> Int]
    BY <1>2, <1>3 DEF LeftOf
<1> QED
    BY <1>1, <1>4 DEF Replayed

Replays(ts, seen, g) ==
    g = [i \in 0..Len(ts) |->
            IF i = 0 THEN [j \in DOMAIN ts |-> 0]
            ELSE IF i \notin seen THEN g[i - 1]
            ELSE IF ts[i].side = "BUY" THEN [g[i - 1] EXCEPT ![i] = ts[i].size]
            ELSE LeftOf(g[i - 1], Takes(g[i - 1], ts[i].size))]

\* The function that Lots defines, and what it does with each fill.
LEMMA LotsReplay ==
    ASSUME NEW ts \in Deals, NEW seen
    PROVE  /\ Lots(ts, seen) \in [0..Len(ts) -> [DOMAIN ts -> Int]]
           /\ Lots(ts, seen)[0] = [j \in DOMAIN ts |-> 0]
           /\ \A i \in 1..Len(ts) :
                Lots(ts, seen)[i] = Replayed(Lots(ts, seen)[i - 1], ts, seen, i)
<1> DEFINE n == Len(ts)
           V == [DOMAIN ts -> Int]
           base == [j \in DOMAIN ts |-> 0]
           step == [i \in 1..n |-> [l \in V |-> Replayed(l, ts, seen, i)]]
           c == CHOOSE g : Replays(ts, seen, g)
<1>1. n \in Nat /\ DOMAIN ts = 1..n
    BY DealAt
<1>2. Lots(ts, seen) = c
    BY DEF Lots, Replays
<1>3. \E g : Replays(ts, seen, g)
  <2>1. step \in [1..n -> [V -> V]]
    <3>1. \A i \in 1..n : \A l \in V : Replayed(l, ts, seen, i) \in V
        BY <1>1, ReplayedTyped
    <3> QED
        BY <3>1
  <2>2. base \in V
      OBVIOUS
  <2>3. \A i \in 1..n : \A l \in V : step[i][l] = Replayed(l, ts, seen, i)
      OBVIOUS
  <2> HIDE DEF step, V, base
  <2>4. PICK g \in [0..n -> V] : g[0] = base /\ \A i \in 1..n : g[i] = step[i][g[i - 1]]
    <3>1. step \in Steps(n, V)
        BY <2>1 DEF Steps
    <3>2. Recursion(V, n, base, step)
        BY <1>1, <2>2, <3>1, RecursionExists
    <3> QED
        BY <3>2 DEF Recursion
  <2>5. ASSUME NEW i \in 1..n PROVE g[i] = Replayed(g[i - 1], ts, seen, i)
    <3>1. i - 1 \in 0..n
        BY <1>1
    <3> QED
        BY <2>3, <2>4, <3>1
  <2>6. g = [i \in 0..n |-> IF i = 0 THEN base ELSE Replayed(g[i - 1], ts, seen, i)]
    <3>1. \A i \in 0..n : g[i] = IF i = 0 THEN base ELSE Replayed(g[i - 1], ts, seen, i)
      <4>1. \A i \in 0..n : i # 0 => i \in 1..n
          BY <1>1
      <4> QED
          BY <2>4, <2>5, <4>1
    <3> QED
        BY <2>4, <3>1
  <2>7. Replays(ts, seen, g)
      BY <2>6 DEF Replays, Replayed, base
  <2> QED
      BY <2>7
<1>4. Replays(ts, seen, c)
    BY <1>3
<1>5. c = [i \in 0..n |-> IF i = 0 THEN base ELSE Replayed(c[i - 1], ts, seen, i)]
  <2> HIDE DEF c
  <2> QED
      BY <1>4 DEF Replays, Replayed
<1>6. /\ c[0] = base
      /\ \A i \in 1..n : c[i] = Replayed(c[i - 1], ts, seen, i)
  <2> HIDE DEF c, base
  <2>1. 0 \in 0..n /\ \A i \in 1..n : i \in 0..n /\ i # 0
      BY <1>1
  <2> QED
      BY <1>5, <2>1
<1>7. \A i \in 0..n : c[i] \in V
  <2> DEFINE G == {i \in Nat : i <= n => c[i] \in V}
  <2> HIDE DEF c
  <2>1. 0 \in G
      BY <1>6
  <2>2. ASSUME NEW i \in Nat, i \in G PROVE i + 1 \in G
    <3> SUFFICES ASSUME i + 1 <= n PROVE c[i + 1] \in V
        OBVIOUS
    <3>1. i + 1 \in 1..n /\ (i + 1) - 1 = i /\ c[i] \in V
        BY <1>1, <2>2
    <3>2. c[i + 1] = Replayed(c[i], ts, seen, i + 1)
        BY <1>6, <3>1
    <3>3. i + 1 \in DOMAIN ts
        BY <1>1, <3>1
    <3> QED
        BY <3>1, <3>2, <3>3, ReplayedTyped
  <2>3. Nat \subseteq G
    <3> HIDE DEF G
    <3> QED
        BY <2>1, <2>2, NatSetInduction
  <2> QED
      BY <1>1, <2>3
<1>8. c \in [0..n -> V]
  <2> HIDE DEF V, base, c
  <2> QED
      BY <1>5, <1>7
<1> QED
    BY <1>2, <1>6, <1>8

\* What the sales so far leave of a lot: its shares beyond those that were sold.
Remains(ts, i, j) ==
    IF j <= i THEN Most(0, Upto(ts, "BUY", j) - Most(Upto(ts, "BUY", j - 1), Upto(ts, "SELL", i)))
    ELSE 0
Shared(ts, i, j) == Cardinality(Shares(ts, "SELL", i) \intersect Shares(ts, "BUY", j))

LEMMA Ranges ==
    ASSUME NEW b0 \in Int, NEW b1 \in Int, NEW s0 \in Int, NEW s1 \in Int, b0 <= b1, s0 <= s1
    PROVE  /\ Fewest(Most(0, b1 - Most(b0, s0)), Most(0, (s1 - s0) - Most(0, b0 - s0)))
                = Most(0, Fewest(b1, s1) - Most(b0, s0))
           /\ Most(0, b1 - Most(b0, s0)) - Most(0, Fewest(b1, s1) - Most(b0, s0))
                = Most(0, b1 - Most(b0, s1))
           /\ Most(0, b0 - s0) + Most(0, b1 - Most(b0, s0)) = Most(0, b1 - s0)
           /\ Most(0, Fewest(b0, s1) - s0) + Most(0, Fewest(b1, s1) - Most(b0, s0))
                = Most(0, Fewest(b1, s1) - s0)
BY DEF Fewest, Most

\* Shares that two fills share, counted.
LEMMA SharedIs ==
    ASSUME NEW ts \in Deals, NEW i \in DOMAIN ts, NEW j \in DOMAIN ts
    PROVE  /\ Shared(ts, i, j) \in Nat
           /\ Shared(ts, i, j) = Most(0, Fewest(Upto(ts, "BUY", j), Upto(ts, "SELL", i))
                                         - Most(Upto(ts, "BUY", j - 1), Upto(ts, "SELL", i - 1)))
<1> DEFINE b0 == Upto(ts, "BUY", j - 1)
           b1 == Upto(ts, "BUY", j)
           s0 == Upto(ts, "SELL", i - 1)
           s1 == Upto(ts, "SELL", i)
<1>1. b0 \in Int /\ b1 \in Int /\ s0 \in Int /\ s1 \in Int
    BY DealAt, UptoStep
<1>2. Shared(ts, i, j) = Cardinality((s0 + 1..s1) \intersect (b0 + 1..b1))
    BY DEF Shared, Shares
<1> HIDE DEF b0, b1, s0, s1
<1>3. (s0 + 1..s1) \intersect (b0 + 1..b1) = (Most(b0, s0) + 1)..Fewest(b1, s1)
    BY <1>1 DEF Most, Fewest
<1>4. PICK x \in Int, y \in Int : x = Most(b0, s0) + 1 /\ y = Fewest(b1, s1)
    BY <1>1 DEF Most, Fewest
<1>5. Cardinality(x..y) = IF x > y THEN 0 ELSE y - x + 1
    BY FS_Interval
<1>6. Cardinality(x..y) = Most(0, Fewest(b1, s1) - Most(b0, s0))
    BY <1>1, <1>4, <1>5 DEF Most, Fewest
<1>7. Most(0, Fewest(b1, s1) - Most(b0, s0)) \in Nat
    BY <1>1 DEF Most, Fewest
<1> QED
    BY <1>2, <1>3, <1>4, <1>6, <1>7 DEF b0, b1, s0, s1

\* What is left of the first q lots.
LEMMA LeftBefore ==
    ASSUME NEW ts \in Deals, NEW i \in 0..Len(ts), NEW lots \in [DOMAIN ts -> Int],
           \A j \in DOMAIN ts : lots[j] = Remains(ts, i, j)
    PROVE  \A q \in 0..i : SumFunction([k \in 1..q |-> lots[k]])
                           = Most(0, Upto(ts, "BUY", q) - Upto(ts, "SELL", i))
<1> DEFINE s == Upto(ts, "SELL", i)
           b(q) == Upto(ts, "BUY", q)
           G == {q \in Nat : q <= i => SumOn(lots, 1..q) = Most(0, b(q) - s)}
           n == Len(ts)
<1>1. n \in Nat /\ DOMAIN ts = 1..n /\ i \in 0..n /\ lots \in [1..n -> Int]
    BY DealAt
<1>2. s \in Nat
    BY <1>1, UptoGrows
<1>3. 0 \in G
  <2>1. SumOn(lots, 1..0) = 0
      BY <1>1, SumOfNone
  <2>2. b(0) = 0
      BY UptoZero
  <2> QED
      BY <1>2, <2>1, <2>2 DEF Most
<1>4. ASSUME NEW q \in Nat, q \in G PROVE q + 1 \in G
  <2> SUFFICES ASSUME q + 1 <= i PROVE SumOn(lots, 1..(q + 1)) = Most(0, b(q + 1) - s)
      OBVIOUS
  <2>1. q + 1 \in 1..n /\ (q + 1) - 1 = q
      BY <1>1
  <2>2. SumOn(lots, 1..(q + 1)) = lots[q + 1] + SumOn(lots, 1..q)
    <3>1. SumOn(lots, 1..(q + 1)) = lots[q + 1] + SumOn(lots, 1..((q + 1) - 1))
        BY <1>1, <2>1, SumStep
    <3> QED
        BY <2>1, <3>1
  <2>3. SumOn(lots, 1..q) = Most(0, b(q) - s)
      BY <1>4
  <2>4. lots[q + 1] = Most(0, b(q + 1) - Most(b(q), s))
    <3>1. lots[q + 1] = Remains(ts, i, q + 1) /\ q + 1 <= i
        BY <1>1, <2>1
    <3> QED
        BY <2>1, <3>1 DEF Remains
  <2>5. b(q) \in Int /\ b(q + 1) \in Int /\ b(q) <= b(q + 1)
    <3>1. /\ b(q + 1) \in Int /\ b((q + 1) - 1) \in Int /\ Sizes(ts, "BUY")[q + 1] \in Nat
          /\ b(q + 1) = b((q + 1) - 1) + Sizes(ts, "BUY")[q + 1]
        BY <2>1, UptoStep
    <3> HIDE DEF b
    <3> QED
        BY <2>1, <3>1
  <2> HIDE DEF b, s
  <2>6. Most(0, b(q) - s) + Most(0, b(q + 1) - Most(b(q), s)) = Most(0, b(q + 1) - s)
    <3>1. PICK x \in Int, y \in Int, z \in Int : x = b(q) /\ y = b(q + 1) /\ z = s
        BY <1>2, <2>5
    <3>2. x <= y /\ z <= z
        BY <2>5, <3>1
    <3>3. Most(0, x - z) + Most(0, y - Most(x, z)) = Most(0, y - z)
        BY <3>2, Ranges
    <3> QED
        BY <3>1, <3>3
  <2>7. Most(0, b(q) - s) \in Int /\ Most(0, b(q + 1) - Most(b(q), s)) \in Int
      BY <1>2, <2>5 DEF Most
  <2> QED
      BY <2>2, <2>3, <2>4, <2>6, <2>7
<1>5. Nat \subseteq G
  <2> HIDE DEF G
  <2> QED
      BY <1>3, <1>4, NatSetInduction
<1>6. ASSUME NEW q \in 0..i PROVE SumOn(lots, 1..q) = Most(0, b(q) - s)
    BY <1>1, <1>5
<1> QED
    BY <1>6 DEF SumOn

\* A sale takes the shares that its number says, fill by fill.
LEMMA TakesShares ==
    ASSUME NEW ts \in Deals, NEW i \in DOMAIN ts, ts[i].side = "SELL",
           NEW lots \in [DOMAIN ts -> Int], \A j \in DOMAIN ts : lots[j] = Remains(ts, i - 1, j),
           NEW j \in DOMAIN ts
    PROVE  /\ j < i => Takes(lots, ts[i].size)[j] = Shared(ts, i, j)
           /\ j >= i => Takes(lots, ts[i].size)[j] = 0
           /\ lots[j] - Takes(lots, ts[i].size)[j] = Remains(ts, i, j)
<1> DEFINE b0 == Upto(ts, "BUY", j - 1)
           b1 == Upto(ts, "BUY", j)
           s0 == Upto(ts, "SELL", i - 1)
           s1 == Upto(ts, "SELL", i)
           size == ts[i].size
           r == [k \in 1..(j - 1) |-> lots[k]]
           take == Takes(lots, size)[j]
<1>1. /\ Len(ts) \in Nat /\ DOMAIN ts = 1..Len(ts) /\ i \in 1..Len(ts) /\ j \in 1..Len(ts)
      /\ size \in Nat /\ size > 0
    BY DealAt
<1>2. b0 \in Int /\ b1 \in Int /\ b0 <= b1
  <2>1. b1 = b0 + Sizes(ts, "BUY")[j] /\ b1 \in Int /\ b0 \in Int /\ Sizes(ts, "BUY")[j] \in Nat
      BY <1>1, UptoStep
  <2> HIDE DEF b0, b1
  <2> QED
      BY <2>1
<1>3. s0 \in Int /\ s1 \in Int /\ s1 = s0 + size
  <2>1. s1 = s0 + Sizes(ts, "SELL")[i] /\ s1 \in Int /\ s0 \in Int
      BY <1>1, UptoStep
  <2>2. Sizes(ts, "SELL")[i] = size
      BY <1>1 DEF Sizes
  <2> QED
      BY <2>1, <2>2
<1>4. take = Fewest(lots[j], Most(0, size - SumFunction(r)))
    BY DEF Takes
<1>5. CASE j < i
  <2>1. lots[j] = Most(0, b1 - Most(b0, s0))
    <3>1. j <= i - 1
        BY <1>1, <1>5
    <3> QED
        BY <3>1 DEF Remains
  <2>2. SumFunction(r) = Most(0, b0 - s0)
    <3>1. i - 1 \in 0..Len(ts) /\ j - 1 \in 0..(i - 1)
        BY <1>1, <1>5
    <3> QED
        BY <3>1, LeftBefore
  <2>3. Remains(ts, i, j) = Most(0, b1 - Most(b0, s1))
    <3>1. j <= i
        BY <1>1, <1>5
    <3> QED
        BY <3>1 DEF Remains
  <2>4. Shared(ts, i, j) = Most(0, Fewest(b1, s1) - Most(b0, s0))
      BY SharedIs
  <2>5. take = Fewest(Most(0, b1 - Most(b0, s0)), Most(0, size - Most(0, b0 - s0)))
      BY <1>4, <2>1, <2>2
  <2> HIDE DEF take, b0, b1, s0, s1, size, r
  <2>6. size = s1 - s0 /\ s0 <= s1
      BY <1>1, <1>3
  <2>7. take = Most(0, Fewest(b1, s1) - Most(b0, s0))
      BY <1>2, <1>3, <2>5, <2>6, Ranges
  <2>8. lots[j] - take = Most(0, b1 - Most(b0, s1))
      BY <1>2, <1>3, <2>1, <2>6, <2>7, Ranges
  <2>9. take = Shared(ts, i, j) /\ lots[j] - take = Remains(ts, i, j)
      BY <2>3, <2>4, <2>7, <2>8
  <2> QED
      BY <1>1, <1>5, <2>9 DEF take, size
<1>6. CASE j >= i
  <2>1. lots[j] = 0
    <3>1. ~ (j <= i - 1)
        BY <1>1, <1>6
    <3> QED
        BY <3>1 DEF Remains
  <2>2. r \in [1..(j - 1) -> Int] /\ IsFiniteSet(1..(j - 1))
    <3>1. \A k \in 1..(j - 1) : k \in DOMAIN ts
        BY <1>1
    <3>2. IsFiniteSet(1..(j - 1))
        BY <1>1, FS_Interval
    <3> QED
        BY <3>1, <3>2
  <2>3. SumFunction(r) \in Int
    <3> HIDE DEF r
    <3> QED
        BY <2>2, SumInt
  <2>4. take = 0
    <3> HIDE DEF r, take, size
    <3> QED
        BY <1>1, <1>4, <2>1, <2>3 DEF Most, Fewest
  <2>5. Remains(ts, i, j) = 0
    <3>1. CASE j > i
        BY <1>1, <3>1 DEF Remains
    <3>2. CASE j = i
      <4>1. b1 = b0
        <5>1. b1 = b0 + Sizes(ts, "BUY")[j]
            BY <1>1, UptoStep
        <5>2. Sizes(ts, "BUY")[j] = 0
            BY <1>1, <3>2 DEF Sizes
        <5> HIDE DEF b0, b1
        <5> QED
            BY <1>2, <5>1, <5>2
      <4>2. Remains(ts, i, j) = Most(0, b1 - Most(b0, s1))
          BY <1>1, <3>2 DEF Remains
      <4> HIDE DEF b0, b1, s0, s1
      <4> QED
          BY <1>2, <1>3, <4>1, <4>2 DEF Most
    <3> QED
        BY <1>1, <1>6, <3>1, <3>2
  <2> QED
      BY <1>1, <1>6, <2>1, <2>4, <2>5
<1> QED
    BY <1>1, <1>5, <1>6

\* The replay of fills that are all seen leaves of each lot what sales do not
\* reach.
LEMMA OldestFirst ==
    ASSUME NEW ts \in Deals, Covered(ts), NEW seen, NEW m \in 0..Len(ts), 1..m \subseteq seen
    PROVE  \A i \in 0..m : \A j \in DOMAIN ts : Lots(ts, seen)[i][j] = Remains(ts, i, j)
<1> DEFINE n == Len(ts)
           L == Lots(ts, seen)
           G == {i \in Nat : i <= m => \A j \in DOMAIN ts : L[i][j] = Remains(ts, i, j)}
<1>1. n \in Nat /\ DOMAIN ts = 1..n /\ m \in 0..n
    BY DealAt
<1>2. /\ L \in [0..n -> [DOMAIN ts -> Int]] /\ L[0] = [j \in DOMAIN ts |-> 0]
      /\ \A i \in 1..n : L[i] = Replayed(L[i - 1], ts, seen, i)
    BY LotsReplay
<1> HIDE DEF L
<1>3. 0 \in G
    BY <1>1, <1>2 DEF Remains
<1>4. ASSUME NEW i \in Nat, i \in G PROVE i + 1 \in G
  <2> SUFFICES ASSUME i + 1 <= m, NEW j \in DOMAIN ts PROVE L[i + 1][j] = Remains(ts, i + 1, j)
      OBVIOUS
  <2> DEFINE k == i + 1
             lots == L[i]
  <2>1. k \in 1..n /\ k \in DOMAIN ts /\ k - 1 = i /\ k \in seen /\ i \in 0..n /\ j \in 1..n
      BY <1>1
  <2>2. lots \in [DOMAIN ts -> Int] /\ \A h \in DOMAIN ts : lots[h] = Remains(ts, i, h)
      BY <1>2, <1>4, <2>1
  <2>3. L[k] = Replayed(lots, ts, seen, k)
      BY <1>2, <2>1
  <2> HIDE DEF k, lots
  <2>4. CASE ts[k].side = "BUY"
    <3>1. L[k] = [lots EXCEPT ![k] = ts[k].size]
        BY <2>1, <2>3, <2>4 DEF Replayed
    <3> DEFINE s0 == Upto(ts, "SELL", i)
               s1 == Upto(ts, "SELL", k)
               b0 == Upto(ts, "BUY", i)
               b1 == Upto(ts, "BUY", k)
    <3>2. s0 \in Int /\ b0 \in Int /\ b1 \in Int /\ s1 = s0 /\ b1 = b0 + ts[k].size
      <4>1. /\ s1 = s0 + Sizes(ts, "SELL")[k] /\ s1 \in Int /\ s0 \in Int
            /\ b1 = b0 + Sizes(ts, "BUY")[k] /\ b1 \in Int /\ b0 \in Int
        <5>1. /\ Upto(ts, "SELL", k) = Upto(ts, "SELL", k - 1) + Sizes(ts, "SELL")[k]
              /\ Upto(ts, "SELL", k) \in Int /\ Upto(ts, "SELL", k - 1) \in Int
            BY <2>1, UptoStep
        <5>2. /\ Upto(ts, "BUY", k) = Upto(ts, "BUY", k - 1) + Sizes(ts, "BUY")[k]
              /\ Upto(ts, "BUY", k) \in Int /\ Upto(ts, "BUY", k - 1) \in Int
            BY <2>1, UptoStep
        <5> QED
            BY <2>1, <5>1, <5>2
      <4>2. Sizes(ts, "SELL")[k] = 0 /\ Sizes(ts, "BUY")[k] = ts[k].size
          BY <2>1, <2>4 DEF Sizes
      <4> HIDE DEF s0, s1, b0, b1
      <4> QED
          BY <4>1, <4>2
    <3>3. s0 <= b0
      <4>1. CASE i = 0
          BY <4>1, UptoZero
      <4>2. CASE i # 0
        <5>1. i \in DOMAIN ts
            BY <1>1, <2>1, <4>2
        <5> QED
            BY <5>1 DEF Covered
      <4> QED
          BY <4>1, <4>2
    <3>4. CASE j = k
      <4>1. Remains(ts, k, j) = Most(0, b1 - Most(b0, s1))
        <5>1. j <= k
            BY <2>1, <3>4
        <5> QED
            BY <2>1, <3>4, <5>1 DEF Remains
      <4>2. ts[k].size \in Nat
          BY <2>1, DealAt
      <4> HIDE DEF s0, s1, b0, b1
      <4>3. Most(0, b1 - Most(b0, s1)) = ts[k].size
          BY <3>2, <3>3, <4>2 DEF Most
      <4> QED
          BY <2>1, <2>2, <3>1, <3>4, <4>1, <4>3 DEF k
    <3>5. CASE j # k
      <4>1. L[k][j] = Remains(ts, i, j)
          BY <2>2, <3>1, <3>5
      <4>2. j <= k <=> j <= i
          BY <2>1, <3>5 DEF k
      <4>3. Remains(ts, k, j) = Remains(ts, i, j)
          BY <3>2, <4>2 DEF Remains
      <4> QED
          BY <4>1, <4>3 DEF k
    <3> QED
        BY <3>4, <3>5
  <2>5. CASE ts[k].side # "BUY"
    <3>1. ts[k].side = "SELL"
        BY <2>1, <2>5, DealAt
    <3>2. L[k][j] = lots[j] - Takes(lots, ts[k].size)[j]
        BY <2>1, <2>2, <2>3, <2>5 DEF Replayed, LeftOf
    <3>3. lots[j] - Takes(lots, ts[k].size)[j] = Remains(ts, k, j)
        BY <2>1, <2>2, <3>1, TakesShares
    <3> QED
        BY <3>2, <3>3 DEF k
  <2> QED
      BY <2>4, <2>5
<1>5. Nat \subseteq G
  <2> HIDE DEF G
  <2> QED
      BY <1>3, <1>4, NatSetInduction
<1>6. ASSUME NEW i \in 0..m, NEW j \in DOMAIN ts PROVE L[i][j] = Remains(ts, i, j)
    BY <1>1, <1>5
<1> QED
    BY <1>6 DEF L

\* What a sale realizes, if all fills before it are seen, is what its shares do.
LEMMA RealizedIsGain ==
    ASSUME NEW ts \in Deals, Covered(ts), NEW seen, NEW i \in DOMAIN ts, 1..i \subseteq seen,
           ts[i].side = "SELL"
    PROVE  Realized(ts, i, Lots(ts, seen)[i - 1]) = SaleGain(ts, i)
<1> DEFINE lots == Lots(ts, seen)[i - 1]
           takes == Takes(lots, ts[i].size)
<1>1. Len(ts) \in Nat /\ DOMAIN ts = 1..Len(ts) /\ i - 1 \in 0..Len(ts) /\ i - 1 \in 0..(i - 1)
    BY DealAt
<1>2. lots \in [DOMAIN ts -> Int] /\ \A j \in DOMAIN ts : lots[j] = Remains(ts, i - 1, j)
  <2>1. Lots(ts, seen) \in [0..Len(ts) -> [DOMAIN ts -> Int]]
      BY LotsReplay
  <2>2. \A h \in 0..(i - 1) : \A j \in DOMAIN ts : Lots(ts, seen)[h][j] = Remains(ts, h, j)
    <3>1. 1..(i - 1) \subseteq seen
        BY <1>1
    <3> QED
        BY <1>1, <3>1, OldestFirst
  <2> QED
      BY <1>1, <2>1, <2>2
<1>3. \A j \in 1..(i - 1) : takes[j] = Shared(ts, i, j)
  <2> HIDE DEF lots
  <2>1. \A j \in 1..(i - 1) : j \in DOMAIN ts /\ j < i
      BY <1>1
  <2> QED
      BY <1>2, <2>1, TakesShares
<1> HIDE DEF takes, lots
<1>4. [j \in 1..(i - 1) |-> (ts[i].price - ts[j].price) * takes[j]]
      = [j \in 1..(i - 1) |-> (ts[i].price - ts[j].price) * Shared(ts, i, j)]
    BY <1>3
<1> QED
    BY <1>4 DEF takes, lots, Realized, SaleGain, Shared

\* A day all of whose fills, and all those before it, are seen is booked right.
LEMMA DayReplayed ==
    ASSUME NEW ts \in Deals, Covered(ts), InOrder(ts), NEW d \in 1..Days,
           NEW seen, \A i \in DOMAIN ts : ts[i].day <= d => i \in seen
    PROVE  RealizedByDay(ts, seen)[d] = Matched(ts)[d]
<1> DEFINE gain == [i \in seen |-> Realized(ts, i, Lots(ts, seen)[i - 1])]
<1>1. \A i \in FillsOn(ts, d) : i \in seen /\ i \in DOMAIN ts /\ 1..i \subseteq seen
  <2> TAKE i \in FillsOn(ts, d)
  <2>1. i \in DOMAIN ts /\ ts[i].day = d /\ d \in Int
      BY DEF FillsOn
  <2>2. ASSUME NEW j \in 1..i PROVE j \in seen
    <3>1. j \in DOMAIN ts /\ j <= i
        BY <2>1, DealAt
    <3> QED
        BY <2>1, <3>1 DEF InOrder
  <2>3. i \in 1..i
      BY <2>1, DealAt
  <2> QED
      BY <2>1, <2>2, <2>3
<1>2. /\ SalesOn(ts, d) \intersect seen = SalesOn(ts, d)
      /\ FillsOn(ts, d) \intersect seen = FillsOn(ts, d)
    BY <1>1 DEF SalesOn
<1>3. \A i \in SalesOn(ts, d) : gain[i] = SaleGain(ts, i)
    BY <1>1, RealizedIsGain DEF SalesOn
<1>4. RealizedByDay(ts, seen)[d] =
        [profit |-> SumFunction([i \in SalesOn(ts, d) |-> Most(gain[i], 0)]),
         loss |-> SumFunction([i \in SalesOn(ts, d) |-> Most(-gain[i], 0)]),
         fee |-> SumFunction([i \in FillsOn(ts, d) |-> ts[i].fee])]
    BY <1>2 DEF RealizedByDay
<1> HIDE DEF gain
<1>5. /\ [i \in SalesOn(ts, d) |-> Most(gain[i], 0)] = [i \in SalesOn(ts, d) |-> Most(SaleGain(ts, i), 0)]
      /\ [i \in SalesOn(ts, d) |-> Most(-gain[i], 0)] = [i \in SalesOn(ts, d) |-> Most(-SaleGain(ts, i), 0)]
    BY <1>3
<1> QED
    BY <1>4, <1>5 DEF Matched

\* A day on which nothing traded is booked right whatever is seen.
LEMMA DayIdle ==
    ASSUME NEW ts, NEW seen, NEW d \in 1..Days, FillsOn(ts, d) = {}
    PROVE  RealizedByDay(ts, seen)[d] = Matched(ts)[d]
<1>1. SalesOn(ts, d) = {}
    BY DEF SalesOn
<1>2. RealizedByDay(ts, seen)[d] =
        [profit |-> SumFunction([i \in {} |-> 0]), loss |-> SumFunction([i \in {} |-> 0]),
         fee |-> SumFunction([i \in {} |-> 0])]
  <2> DEFINE gain == [i \in seen |-> Realized(ts, i, Lots(ts, seen)[i - 1])]
  <2>1. RealizedByDay(ts, seen)[d] =
            [profit |-> SumFunction([i \in SalesOn(ts, d) \intersect seen |-> Most(gain[i], 0)]),
             loss |-> SumFunction([i \in SalesOn(ts, d) \intersect seen |-> Most(-gain[i], 0)]),
             fee |-> SumFunction([i \in FillsOn(ts, d) \intersect seen |-> ts[i].fee])]
      BY DEF RealizedByDay
  <2> HIDE DEF gain
  <2>2. /\ [i \in SalesOn(ts, d) \intersect seen |-> Most(gain[i], 0)] = [i \in {} |-> 0]
        /\ [i \in SalesOn(ts, d) \intersect seen |-> Most(-gain[i], 0)] = [i \in {} |-> 0]
        /\ [i \in FillsOn(ts, d) \intersect seen |-> ts[i].fee] = [i \in {} |-> 0]
      BY <1>1
  <2> QED
      BY <2>1, <2>2
<1>3. Matched(ts)[d] =
        [profit |-> SumFunction([i \in {} |-> 0]), loss |-> SumFunction([i \in {} |-> 0]),
         fee |-> SumFunction([i \in {} |-> 0])]
  <2>1. /\ [i \in SalesOn(ts, d) |-> Most(SaleGain(ts, i), 0)] = [i \in {} |-> 0]
        /\ [i \in SalesOn(ts, d) |-> Most(-SaleGain(ts, i), 0)] = [i \in {} |-> 0]
        /\ [i \in FillsOn(ts, d) |-> ts[i].fee] = [i \in {} |-> 0]
      BY <1>1
  <2> QED
      BY <2>1 DEF Matched
<1> QED
    BY <1>2, <1>3

-----------------------------------------------------------------------------
\* One fill, payment or merge more

LEMMA AppendDeal ==
    ASSUME NEW ts \in Deals, NEW x \in Deal, NEW us \in {Append(ts, x)}
    PROVE  /\ us \in Deals /\ Len(us) = Len(ts) + 1 /\ Len(ts) \in Nat
           /\ DOMAIN ts = 1..Len(ts) /\ DOMAIN us = 1..(Len(ts) + 1)
           /\ \A i \in DOMAIN ts : us[i] = ts[i]
           /\ us[Len(ts) + 1] = x
<1>1. us \in Deals /\ Len(us) = Len(ts) + 1 /\ Len(ts) \in Nat
    BY AppendProperties, LenProperties DEF Deals
<1>2. DOMAIN ts = 1..Len(ts) /\ DOMAIN us = 1..(Len(ts) + 1)
    BY <1>1, DealAt
<1>3. us[Len(ts) + 1] = x /\ \A i \in 1..Len(ts) : us[i] = ts[i]
    BY AppendProperties DEF Deals
<1> QED
    BY <1>1, <1>2, <1>3

LEMMA UptoAppend ==
    ASSUME NEW ts \in Deals, NEW x \in Deal, NEW us \in {Append(ts, x)}, NEW side
    PROVE  /\ \A i \in 0..Len(ts) : Upto(us, side, i) = Upto(ts, side, i)
           /\ Upto(us, side, Len(ts) + 1)
                = Upto(ts, side, Len(ts)) + (IF x.side = side THEN x.size ELSE 0)
<1> DEFINE n == Len(ts)
<1>1. /\ us \in Deals /\ Len(us) = n + 1 /\ n \in Nat /\ DOMAIN ts = 1..n
      /\ us[n + 1] = x /\ \A i \in 1..n : us[i] = ts[i]
  <2>1. /\ us \in Deals /\ Len(us) = Len(ts) + 1 /\ Len(ts) \in Nat
        /\ DOMAIN ts = 1..Len(ts) /\ DOMAIN us = 1..(Len(ts) + 1)
        /\ \A i \in DOMAIN ts : us[i] = ts[i]
        /\ us[Len(ts) + 1] = x
      BY AppendDeal
  <2> QED
      BY <2>1
<1>2. ASSUME NEW i \in 0..n PROVE Upto(us, side, i) = Upto(ts, side, i)
  <2>1. \A j \in 1..i : us[j] = ts[j]
      BY <1>1
  <2> QED
      BY <2>1, UptoSame
<1>3. n + 1 \in 1..Len(us) /\ (n + 1) - 1 = n /\ n \in 0..n /\ n + 1 \in DOMAIN us
    BY <1>1, DealAt
<1>4. Upto(us, side, n + 1) = Upto(us, side, n) + Sizes(us, side)[n + 1]
  <2>1. Upto(us, side, n + 1) = Upto(us, side, (n + 1) - 1) + Sizes(us, side)[n + 1]
      BY <1>1, <1>3, UptoStep
  <2> QED
      BY <1>3, <2>1
<1>5. Sizes(us, side)[n + 1] = IF x.side = side THEN x.size ELSE 0
    BY <1>1, <1>3 DEF Sizes
<1> QED
    BY <1>2, <1>3, <1>4, <1>5

\* A fill that may trade keeps the fills covered and in order.
LEMMA AppendKeeps ==
    ASSUME NEW ts \in Deals, NEW x \in Deal, NEW us \in {Append(ts, x)}, Covered(ts), InOrder(ts),
           \A i \in DOMAIN ts : ts[i].day <= x.day,
           x.side = "SELL" => x.size <= Upto(ts, "BUY", Len(ts)) - Upto(ts, "SELL", Len(ts))
    PROVE  Covered(us) /\ InOrder(us)
<1> DEFINE n == Len(ts)
<1>1. /\ us \in Deals /\ Len(us) = n + 1 /\ n \in Nat /\ DOMAIN ts = 1..n /\ DOMAIN us = 1..(n + 1)
      /\ us[n + 1] = x /\ \A i \in 1..n : us[i] = ts[i]
  <2>1. /\ us \in Deals /\ Len(us) = Len(ts) + 1 /\ Len(ts) \in Nat
        /\ DOMAIN ts = 1..Len(ts) /\ DOMAIN us = 1..(Len(ts) + 1)
        /\ \A i \in DOMAIN ts : us[i] = ts[i]
        /\ us[Len(ts) + 1] = x
      BY AppendDeal
  <2> QED
      BY <2>1
<1>2. Upto(us, "SELL", n + 1) <= Upto(us, "BUY", n + 1)
  <2> DEFINE b == Upto(ts, "BUY", n)
             s == Upto(ts, "SELL", n)
  <2>1. b \in Nat /\ s \in Nat
      BY <1>1, UptoGrows
  <2>2. s <= b
    <3>1. CASE n = 0
        BY <3>1, UptoZero
    <3>2. CASE n # 0
        BY <1>1, <3>2 DEF Covered
    <3> QED
        BY <3>1, <3>2
  <2>3. /\ Upto(us, "SELL", n + 1) = s + (IF x.side = "SELL" THEN x.size ELSE 0)
        /\ Upto(us, "BUY", n + 1) = b + (IF x.side = "BUY" THEN x.size ELSE 0)
      BY UptoAppend
  <2>4. x.side \in {"BUY", "SELL"} /\ x.size \in Nat /\ (x.side = "SELL" => x.size <= b - s)
      BY DEF Deal
  <2> HIDE DEF b, s
  <2> QED
      BY <2>1, <2>2, <2>3, <2>4
<1>3. Covered(us)
  <2> SUFFICES ASSUME NEW i \in 1..(n + 1) PROVE Upto(us, "SELL", i) <= Upto(us, "BUY", i)
      BY <1>1 DEF Covered
  <2>1. CASE i = n + 1
      BY <1>2, <2>1
  <2>2. CASE i # n + 1
    <3>1. i \in DOMAIN ts /\ i \in 0..n
        BY <1>1, <2>2
    <3>2. Upto(us, "SELL", i) = Upto(ts, "SELL", i) /\ Upto(us, "BUY", i) = Upto(ts, "BUY", i)
        BY <3>1, UptoAppend
    <3> QED
        BY <3>1, <3>2 DEF Covered
  <2> QED
      BY <2>1, <2>2
<1>4. InOrder(us)
  <2> SUFFICES ASSUME NEW i \in 1..(n + 1), NEW j \in 1..(n + 1), i <= j
               PROVE  us[i].day <= us[j].day
      BY <1>1 DEF InOrder
  <2>1. CASE j = n + 1 /\ i # n + 1
      BY <1>1, <2>1
  <2>2. CASE j # n + 1
      BY <1>1, <2>2 DEF InOrder
  <2>3. CASE j = n + 1 /\ i = n + 1
    <3>1. x.day \in Int
        BY DEF Deal, Dates
    <3> QED
        BY <1>1, <2>3, <3>1
  <2> QED
      BY <2>1, <2>2, <2>3
<1> QED
    BY <1>3, <1>4

\* A fill changes what its own day brings, and no other.
LEMMA MatchedAppend ==
    ASSUME NEW ts \in Deals, NEW x \in Deal, NEW us \in {Append(ts, x)}, NEW d \in 1..Days, d # x.day
    PROVE  Matched(us)[d] = Matched(ts)[d]
<1> DEFINE n == Len(ts)
<1>1. /\ us \in Deals /\ n \in Nat /\ DOMAIN ts = 1..n /\ DOMAIN us = 1..(n + 1)
      /\ us[n + 1] = x /\ \A i \in 1..n : us[i] = ts[i]
  <2>1. /\ us \in Deals /\ Len(us) = Len(ts) + 1 /\ Len(ts) \in Nat
        /\ DOMAIN ts = 1..Len(ts) /\ DOMAIN us = 1..(Len(ts) + 1)
        /\ \A i \in DOMAIN ts : us[i] = ts[i]
        /\ us[Len(ts) + 1] = x
      BY AppendDeal
  <2> QED
      BY <2>1
<1>2. FillsOn(us, d) = FillsOn(ts, d) /\ SalesOn(us, d) = SalesOn(ts, d)
  <2>1. \A i : i \in 1..(n + 1) <=> (i \in 1..n \/ i = n + 1)
      BY <1>1
  <2> QED
      BY <1>1, <2>1 DEF FillsOn, SalesOn
<1>3. \A i \in DOMAIN ts : \A j \in 1..i : \A side : Shares(us, side, j) = Shares(ts, side, j)
  <2> TAKE i \in DOMAIN ts
  <2> TAKE j \in 1..i
  <2>1. j \in 0..n /\ j - 1 \in 0..n
      BY <1>1
  <2>2. \A side : /\ Upto(us, side, j) = Upto(ts, side, j)
                  /\ Upto(us, side, j - 1) = Upto(ts, side, j - 1)
    <3> TAKE side
    <3>1. \A h \in 0..Len(ts) : Upto(us, side, h) = Upto(ts, side, h)
        BY UptoAppend
    <3> QED
        BY <2>1, <3>1
  <2> QED
      BY <2>2 DEF Shares
<1>4. \A i \in DOMAIN ts : SaleGain(us, i) = SaleGain(ts, i)
  <2> TAKE i \in DOMAIN ts
  <2>1. i \in 1..i /\ \A j \in 1..(i - 1) : j \in 1..i /\ j \in 1..n
      BY <1>1
  <2>2. \A j \in 1..(i - 1) : Shared(us, i, j) = Shared(ts, i, j)
      BY <1>3, <2>1 DEF Shared
  <2>3. [j \in 1..(i - 1) |-> (us[i].price - us[j].price) * Shared(us, i, j)]
        = [j \in 1..(i - 1) |-> (ts[i].price - ts[j].price) * Shared(ts, i, j)]
      BY <1>1, <2>1, <2>2
  <2> QED
      BY <2>3 DEF SaleGain, Shared
<1>5. /\ [i \in SalesOn(us, d) |-> Most(SaleGain(us, i), 0)] = [i \in SalesOn(ts, d) |-> Most(SaleGain(ts, i), 0)]
      /\ [i \in SalesOn(us, d) |-> Most(-SaleGain(us, i), 0)] = [i \in SalesOn(ts, d) |-> Most(-SaleGain(ts, i), 0)]
  <2>1. \A i \in SalesOn(ts, d) : SaleGain(us, i) = SaleGain(ts, i)
      BY <1>4 DEF SalesOn, FillsOn
  <2> QED
      BY <1>2, <2>1
<1>6. [i \in FillsOn(us, d) |-> us[i].fee] = [i \in FillsOn(ts, d) |-> ts[i].fee]
    BY <1>1, <1>2 DEF FillsOn
<1> QED
    BY <1>5, <1>6 DEF Matched

\* What is paid, or merged, changes what the day brings that it is booked on.
LEMMA PaidAppend ==
    ASSUME NEW S, NEW acts \in Seq(S), NEW x \in S, NEW type, NEW d, EarnedOn(x) # d
    PROVE  PaidFor(Append(acts, x), type, d) = PaidFor(acts, type, d)
<1> DEFINE n == Len(acts)
           news == Append(acts, x)
           on(as) == {k \in DOMAIN as : as[k].type = type /\ EarnedOn(as[k]) = d}
<1>1. /\ n \in Nat /\ DOMAIN acts = 1..n /\ DOMAIN news = 1..(n + 1)
      /\ news[n + 1] = x /\ \A i \in 1..n : news[i] = acts[i]
    BY AppendProperties, LenProperties
<1> HIDE DEF news
<1>2. on(news) = on(acts)
  <2>1. \A i : i \in 1..(n + 1) <=> (i \in 1..n \/ i = n + 1)
      BY <1>1
  <2> QED
      BY <1>1, <2>1
<1>3. [i \in on(news) |-> news[i].amount] = [i \in on(acts) |-> acts[i].amount]
    BY <1>1, <1>2
<1> QED
    BY <1>3 DEF PaidFor, news

LEMMA MergedAppend ==
    ASSUME NEW S, NEW evs \in Seq(S), NEW x \in S, NEW d, x.day # d
    PROVE  MergedOn(Append(evs, x), d) = MergedOn(evs, d)
<1> DEFINE n == Len(evs)
           news == Append(evs, x)
           on(es) == {k \in DOMAIN es : es[k].day = d}
<1>1. /\ n \in Nat /\ DOMAIN evs = 1..n /\ DOMAIN news = 1..(n + 1)
      /\ news[n + 1] = x /\ \A i \in 1..n : news[i] = evs[i]
    BY AppendProperties, LenProperties
<1> HIDE DEF news
<1>2. on(news) = on(evs)
  <2>1. \A i : i \in 1..(n + 1) <=> (i \in 1..n \/ i = n + 1)
      BY <1>1
  <2> QED
      BY <1>1, <2>1
<1>3. [i \in on(news) |-> news[i].gain] = [i \in on(evs) |-> evs[i].gain]
    BY <1>1, <1>2
<1> QED
    BY <1>3 DEF MergedOn, news

-----------------------------------------------------------------------------
\* What is so of the world

Payment == [day : Dates, type : {"REWARD", "MAKER_REBATE"}, amount : Nat]
Merged == [day : Dates, size : Nat, gain : Int]

\* A token's fills, and how late get_trades may list them.
TokenOK(t) ==
    /\ trades[t] \in Deals /\ Covered(trades[t]) /\ InOrder(trades[t])
    /\ listed[t] \subseteq DOMAIN trades[t]
    /\ \A i \in DOMAIN trades[t] : trades[t][i].day <= day
    /\ \A i \in DOMAIN trades[t] \ listed[t] : trades[t][i].day + 1 >= day
PaymentsOK ==
    /\ activity \in Seq(Payment)
    /\ \A i \in DOMAIN activity :
        activity[i].day <= day /\ (activity[i].type = "REWARD" => activity[i].day > 1)
MergesOK == merges \in Seq(Merged) /\ \A i \in DOMAIN merges : merges[i].day <= day
WorldInv ==
    /\ day \in Dates /\ DOMAIN trades = Tokens /\ DOMAIN listed = Tokens
    /\ \A t \in Tokens : TokenOK(t)
    /\ PaymentsOK /\ MergesOK

\* What had traded before the engine started.
LEMMA PastOK ==
    ASSUME NEW fs \in Seq(Fill), \A i \in DOMAIN fs : Upto(fs, "SELL", i) <= Upto(fs, "BUY", i),
           NEW ts, ts = [i \in DOMAIN fs |-> On(1, fs[i])]
    PROVE  /\ ts \in Deals /\ Covered(ts) /\ InOrder(ts)
           /\ DOMAIN ts = DOMAIN fs /\ \A i \in DOMAIN ts : ts[i].day = 1
<1>1. Len(fs) \in Nat /\ DOMAIN fs = 1..Len(fs) /\ \A i \in DOMAIN fs : fs[i] \in Fill
  <2>1. Len(fs) \in Nat /\ DOMAIN fs = 1..Len(fs)
      BY LenProperties
  <2> QED
      BY <2>1, ElementOfSeq
<1>2. 1 \in Dates
    BY ConstantsAssumption DEF Dates
<1>3. \A i \in DOMAIN fs : On(1, fs[i]) \in Deal
    BY <1>1, <1>2 DEF On, Fill, Deal
<1>4. ts \in Deals
  <2>1. ts \in [1..Len(fs) -> Deal]
      BY <1>1, <1>3
  <2> QED
      BY <1>1, <2>1, SeqDef DEF Deals
<1>5. DOMAIN ts = DOMAIN fs /\ \A i \in DOMAIN ts : ts[i].day = 1
    BY DEF On
<1>6. Covered(ts)
  <2> SUFFICES ASSUME NEW i \in DOMAIN ts PROVE Upto(ts, "SELL", i) <= Upto(ts, "BUY", i)
      BY DEF Covered
  <2>1. \A j \in 1..i : ts[j].side = fs[j].side /\ ts[j].size = fs[j].size
    <3>1. \A j \in 1..i : j \in DOMAIN fs
        BY <1>1, <1>5
    <3> QED
        BY <3>1 DEF On
  <2>2. ASSUME NEW side PROVE Upto(ts, side, i) = Upto(fs, side, i)
    <3>1. [j \in 1..i |-> IF ts[j].side = side THEN ts[j].size ELSE 0]
          = [j \in 1..i |-> IF fs[j].side = side THEN fs[j].size ELSE 0]
        BY <2>1
    <3> QED
        BY <3>1 DEF Upto
  <2>3. Upto(ts, "SELL", i) = Upto(fs, "SELL", i) /\ Upto(ts, "BUY", i) = Upto(fs, "BUY", i)
      BY <2>2
  <2> QED
      BY <1>5, <2>3
<1>7. InOrder(ts)
    BY <1>5 DEF InOrder
<1> QED
    BY <1>4, <1>5, <1>6, <1>7

LEMMA InitWorld == Init => WorldInv
<1> SUFFICES ASSUME Init PROVE WorldInv
    OBVIOUS
<1>1. PICK past \in Pasts : trades = [t \in Tokens |-> [i \in DOMAIN past[t] |-> On(1, past[t][i])]]
    BY DEF Init
<1>2. ASSUME NEW t \in Tokens PROVE TokenOK(t)
  <2>1. past[t] \in Seq(Fill) /\ \A i \in DOMAIN past[t] : Upto(past[t], "SELL", i) <= Upto(past[t], "BUY", i)
      BY ConstantsAssumption, PastsAssumption
  <2>2. trades[t] = [i \in DOMAIN past[t] |-> On(1, past[t][i])]
      BY <1>1
  <2>3. /\ trades[t] \in Deals /\ Covered(trades[t]) /\ InOrder(trades[t])
        /\ \A i \in DOMAIN trades[t] : trades[t][i].day = 1
      BY <2>1, <2>2, PastOK
  <2>4. listed[t] = DOMAIN trades[t] /\ day = 1
      BY DEF Init
  <2> QED
      BY <2>3, <2>4 DEF TokenOK
<1>3. PaymentsOK /\ MergesOK
  <2>1. activity = <<>> /\ merges = <<>>
      BY DEF Init
  <2>2. DOMAIN activity = {} /\ DOMAIN merges = {} /\ activity \in Seq(Payment) /\ merges \in Seq(Merged)
      BY <2>1, EmptySeq
  <2> QED
      BY <2>2 DEF PaymentsOK, MergesOK
<1>4. day \in Dates /\ DOMAIN trades = Tokens /\ DOMAIN listed = Tokens
    BY ConstantsAssumption DEF Init, Dates
<1> QED
    BY <1>2, <1>3, <1>4 DEF WorldInv

LEMMA BurntNat == ASSUME MergesOK PROVE Burnt \in Nat
<1> DEFINE f == [i \in DOMAIN merges |-> merges[i].size]
<1>1. Len(merges) \in Nat /\ DOMAIN merges = 1..Len(merges)
    BY LenProperties DEF MergesOK
<1>2. \A i \in DOMAIN merges : merges[i] \in Merged
    BY <1>1, ElementOfSeq DEF MergesOK
<1>3. f \in [DOMAIN merges -> Nat] /\ IsFiniteSet(DOMAIN merges)
    BY <1>1, <1>2, FS_Interval DEF Merged
<1> HIDE DEF f
<1>4. SumFunction(f) \in Nat
    BY <1>3, SumNat
<1> QED
    BY <1>4 DEF f, Burnt

\* A sequence with one element more.
LEMMA OneMore ==
    ASSUME NEW S, NEW s \in Seq(S), NEW x \in S
    PROVE  /\ Append(s, x) \in Seq(S) /\ Len(s) \in Nat
           /\ DOMAIN s = 1..Len(s) /\ DOMAIN Append(s, x) = 1..(Len(s) + 1)
           /\ \A i \in DOMAIN s : Append(s, x)[i] = s[i]
           /\ Append(s, x)[Len(s) + 1] = x
           /\ \A i \in DOMAIN Append(s, x) : i \in DOMAIN s \/ i = Len(s) + 1
<1>1. Append(s, x) \in Seq(S) /\ Len(s) \in Nat /\ Len(Append(s, x)) = Len(s) + 1
    BY AppendProperties, LenProperties
<1>2. DOMAIN s = 1..Len(s) /\ DOMAIN Append(s, x) = 1..(Len(s) + 1)
    BY <1>1, LenProperties
<1>3. Append(s, x)[Len(s) + 1] = x /\ \A i \in 1..Len(s) : Append(s, x)[i] = s[i]
    BY AppendProperties
<1>4. \A i \in 1..(Len(s) + 1) : i \in 1..Len(s) \/ i = Len(s) + 1
    BY <1>1
<1> QED
    BY <1>1, <1>2, <1>3, <1>4

LEMMA TradeWorld == ASSUME WorldInv, NEW t \in Tokens, NEW f \in Fills, Trade(t, f) PROVE WorldInv'
<1> DEFINE ts == trades[t]
           x == On(day, f)
           us == Append(ts, x)
           n == Len(ts)
<1>1. x \in Deal /\ x.day = day /\ x.side = f.side /\ x.size = f.size
    BY ConstantsAssumption DEF WorldInv, On, Fill, Deal
<1>2. ts \in Deals /\ Covered(ts) /\ InOrder(ts) /\ listed[t] \subseteq DOMAIN ts
    BY DEF WorldInv, TokenOK
<1>3. /\ trades' = [trades EXCEPT ![t] = us]
      /\ DOMAIN listed' = Tokens /\ \A r \in Tokens \ {t} : listed'[r] = listed[r]
      /\ listed'[t] \in {listed[t], listed[t] \union {n + 1}}
      /\ day' = day /\ UNCHANGED <<activity, merges>>
      /\ (f.side = "SELL" => f.size <= Held(t))
  <2>1. /\ trades' = [trades EXCEPT ![t] = us] /\ day' = day /\ UNCHANGED <<activity, merges>>
        /\ (f.side = "SELL" => f.size <= Held(t))
      BY DEF Trade
  <2>2. listed' = listed \/ listed' = [listed EXCEPT ![t] = listed[t] \union {n + 1}]
      BY DEF Trade
  <2>3. DOMAIN listed = Tokens
      BY DEF WorldInv
  <2> HIDE DEF us, n
  <2>4. CASE listed' = listed
      BY <2>1, <2>3, <2>4
  <2>5. CASE listed' = [listed EXCEPT ![t] = listed[t] \union {n + 1}]
      BY <2>1, <2>3, <2>5
  <2> QED
      BY <2>2, <2>4, <2>5
<1>4. x.side = "SELL" => x.size <= Upto(ts, "BUY", n) - Upto(ts, "SELL", n)
  <2>1. Held(t) = Upto(ts, "BUY", n) - Upto(ts, "SELL", n) - Burnt
      BY DEF Held
  <2>2. Burnt \in Nat
      BY BurntNat DEF WorldInv
  <2>3. Upto(ts, "BUY", n) \in Nat /\ Upto(ts, "SELL", n) \in Nat
    <3>1. n \in Nat
        BY <1>2, DealAt
    <3>2. n \in 0..n /\ n \in 0..Len(ts)
        BY <3>1
    <3> QED
        BY <1>2, <3>2, UptoGrows
  <2>4. x.size \in Nat
      BY <1>1 DEF Deal
  <2> HIDE DEF n, ts, x
  <2> QED
      BY <1>1, <1>3, <2>1, <2>2, <2>3, <2>4
<1>5. \A i \in DOMAIN ts : ts[i].day <= x.day
    BY <1>1 DEF WorldInv, TokenOK
<1> HIDE DEF x
<1>6. us \in Deals /\ Covered(us) /\ InOrder(us)
  <2>1. Covered(us) /\ InOrder(us)
      BY <1>1, <1>2, <1>4, <1>5, AppendKeeps
  <2>2. us \in Deals
      BY <1>1, <1>2, AppendDeal
  <2> QED
      BY <2>1, <2>2
<1>7. /\ n \in Nat /\ DOMAIN us = 1..(n + 1) /\ DOMAIN ts = 1..n
      /\ \A i \in DOMAIN ts : us[i] = ts[i]
      /\ us[n + 1] = x /\ \A i \in DOMAIN us : i \in DOMAIN ts \/ i = n + 1
  <2>1. ts \in Seq(Deal) /\ x \in Deal
      BY <1>1, <1>2 DEF Deals
  <2> HIDE DEF ts
  <2> QED
      BY <2>1, OneMore
<1>8. TokenOK(t)'
  <2>1. trades'[t] = us
      BY <1>3 DEF WorldInv
  <2>2. listed'[t] \subseteq DOMAIN us
      BY <1>2, <1>3, <1>7
  <2>3. day \in Int
      BY DEF WorldInv, Dates
  <2>4. \A i \in DOMAIN us : us[i].day <= day
      BY <1>1, <1>7, <2>3 DEF WorldInv, TokenOK
  <2>5. \A i \in DOMAIN us \ listed'[t] : us[i].day + 1 >= day
    <3> TAKE i \in DOMAIN us \ listed'[t]
    <3>1. CASE i \in DOMAIN ts
      <4>1. i \in DOMAIN ts \ listed[t] /\ us[i] = ts[i]
          BY <1>3, <1>7, <3>1
      <4> QED
          BY <4>1 DEF WorldInv, TokenOK
    <3>2. CASE i = n + 1
        BY <1>1, <1>7, <2>3, <3>2
    <3> QED
        BY <1>7, <3>1, <3>2
  <2> HIDE DEF us
  <2> QED
      BY <1>3, <1>6, <2>1, <2>2, <2>4, <2>5 DEF TokenOK
<1>9. \A r \in Tokens : TokenOK(r)'
  <2> SUFFICES ASSUME NEW r \in Tokens, r # t PROVE TokenOK(r)'
      BY <1>8
  <2>1. trades'[r] = trades[r] /\ listed'[r] = listed[r]
      BY <1>3 DEF WorldInv
  <2> QED
      BY <1>3, <2>1 DEF WorldInv, TokenOK
<1> QED
    BY <1>3, <1>9 DEF WorldInv, PaymentsOK, MergesOK

LEMMA ListWorld ==
    ASSUME WorldInv, NEW t \in Tokens, NEW i \in DOMAIN trades[t], List(t, i)
    PROVE  WorldInv'
<1>1. /\ UNCHANGED <<day, trades, merges, activity>> /\ DOMAIN listed' = Tokens
      /\ listed'[t] = listed[t] \union {i} /\ \A r \in Tokens \ {t} : listed'[r] = listed[r]
    BY DEF List, WorldInv
<1>2. \A r \in Tokens : TokenOK(r)'
    BY <1>1 DEF WorldInv, TokenOK
<1> QED
    BY <1>1, <1>2 DEF WorldInv, PaymentsOK, MergesOK

LEMMA PayWorld == ASSUME WorldInv, NEW a \in Grants, Pay(a) PROVE WorldInv'
<1> DEFINE x == [day |-> day, type |-> a.type, amount |-> a.amount]
<1>1. x \in Payment /\ x.day = day /\ (x.type = "REWARD" => x.day > 1)
    BY ConstantsAssumption DEF WorldInv, Payment, Pay
<1>2. activity' = Append(activity, x) /\ UNCHANGED <<day, trades, listed, merges>>
    BY DEF Pay
<1> HIDE DEF x
<1>3. /\ activity' \in Seq(Payment)
      /\ \A i \in DOMAIN activity : activity'[i] = activity[i]
      /\ activity'[Len(activity) + 1] = x
      /\ \A i \in DOMAIN activity' : i \in DOMAIN activity \/ i = Len(activity) + 1
  <2>1. activity \in Seq(Payment)
      BY DEF WorldInv, PaymentsOK
  <2> QED
      BY <1>1, <1>2, <2>1, OneMore
<1>4. PaymentsOK'
  <2>1. day <= day /\ day' = day
      BY <1>2 DEF WorldInv, Dates
  <2> QED
      BY <1>1, <1>3, <2>1 DEF WorldInv, PaymentsOK
<1> QED
    BY <1>2, <1>4 DEF WorldInv, TokenOK, MergesOK

LEMMA MergeWorld == ASSUME WorldInv, NEW gain \in Gains, Merge(gain) PROVE WorldInv'
<1> DEFINE x == [day |-> day, size |-> 1, gain |-> gain]
<1>1. x \in Merged /\ x.day = day
    BY ConstantsAssumption DEF WorldInv, Merged
<1>2. merges' = Append(merges, x) /\ UNCHANGED <<day, trades, listed, activity>>
    BY DEF Merge
<1> HIDE DEF x
<1>3. /\ merges' \in Seq(Merged)
      /\ \A i \in DOMAIN merges : merges'[i] = merges[i]
      /\ merges'[Len(merges) + 1] = x
      /\ \A i \in DOMAIN merges' : i \in DOMAIN merges \/ i = Len(merges) + 1
  <2>1. merges \in Seq(Merged)
      BY DEF WorldInv, MergesOK
  <2> QED
      BY <1>1, <1>2, <2>1, OneMore
<1>4. MergesOK'
  <2>1. day <= day /\ day' = day
      BY <1>2 DEF WorldInv, Dates
  <2> QED
      BY <1>1, <1>3, <2>1 DEF WorldInv, MergesOK
<1> QED
    BY <1>2, <1>4 DEF WorldInv, TokenOK, PaymentsOK

LEMMA NextDayWorld == ASSUME WorldInv, NextDay PROVE WorldInv'
<1>1. UNCHANGED <<trades, listed, merges, activity>> /\ day' = day + 1 /\ day < Days
    BY DEF NextDay, world
<1>2. day \in Int /\ day' \in Dates
    BY <1>1, ConstantsAssumption DEF WorldInv, Dates
<1>3. \A t \in Tokens : TokenOK(t)'
  <2> TAKE t \in Tokens
  <2>1. TokenOK(t) /\ \A i \in DOMAIN trades[t] \ listed[t] : trades[t][i].day = day
      BY DEF NextDay, WorldInv
  <2>2. \A i \in DOMAIN trades[t] : trades[t][i].day \in Int
      BY <2>1, DealAt DEF TokenOK, Dates
  <2>3. \A i \in DOMAIN trades[t] : trades[t][i].day <= day'
      BY <1>1, <1>2, <2>1, <2>2 DEF TokenOK
  <2>4. \A i \in DOMAIN trades[t] \ listed[t] : trades[t][i].day + 1 >= day'
      BY <1>1, <1>2, <2>1
  <2> QED
      BY <1>1, <2>1, <2>3, <2>4 DEF TokenOK
<1>4. PaymentsOK'
  <2>1. \A i \in DOMAIN activity : activity[i].day \in Int
    <3>1. DOMAIN activity = 1..Len(activity)
        BY LenProperties DEF WorldInv, PaymentsOK
    <3>2. \A i \in 1..Len(activity) : activity[i] \in Payment
        BY ElementOfSeq DEF WorldInv, PaymentsOK
    <3> QED
        BY <3>1, <3>2 DEF Payment, Dates
  <2>2. \A i \in DOMAIN activity : activity[i].day <= day'
      BY <1>1, <1>2, <2>1 DEF WorldInv, PaymentsOK
  <2> QED
      BY <1>1, <2>2 DEF WorldInv, PaymentsOK
<1>5. MergesOK'
  <2>1. \A i \in DOMAIN merges : merges[i].day \in Int
    <3>1. DOMAIN merges = 1..Len(merges)
        BY LenProperties DEF WorldInv, MergesOK
    <3>2. \A i \in 1..Len(merges) : merges[i] \in Merged
        BY ElementOfSeq DEF WorldInv, MergesOK
    <3> QED
        BY <3>1, <3>2 DEF Merged, Dates
  <2>2. \A i \in DOMAIN merges : merges[i].day <= day'
      BY <1>1, <1>2, <2>1 DEF WorldInv, MergesOK
  <2> QED
      BY <1>1, <2>2 DEF WorldInv, MergesOK
<1> QED
    BY <1>1, <1>2, <1>3, <1>4, <1>5 DEF WorldInv

LEMMA WorldWorld == ASSUME WorldInv, World PROVE WorldInv'
BY TradeWorld, ListWorld, PayWorld, MergeWorld, NextDayWorld DEF World

LEMMA KeepsWorld == ASSUME WorldInv, UNCHANGED <<day, world>> PROVE WorldInv'
BY DEF world, WorldInv, TokenOK, PaymentsOK, MergesOK

-----------------------------------------------------------------------------
\* What a day is due

\* A day that nothing is booked on.
Still(d) == Quiet(d) /\ \A i \in DOMAIN merges : merges[i].day # d

DuePaid(acts, d) ==
    \A type \in {"REWARD", "MAKER_REBATE"} : PaidFor(acts, type, d) = PaidFor(activity, type, d)
DueTraded(realized, d) == \A t \in Tokens : realized[t][d] = Matched(trades[t])[d]
DueMerged(evs, d) == MergedOn(evs, d) = MergedOn(merges, d)

\* A row depends on what its day brings.
LEMMA RowSame ==
    ASSUME NEW g, NEW h, NEW d,
           \A type \in {"REWARD", "MAKER_REBATE"} :
                PaidFor(g.activity, type, d) = PaidFor(h.activity, type, d),
           \A t \in Tokens : g.realized[t][d] = h.realized[t][d],
           MergedOn(g.merges, d) = MergedOn(h.merges, d)
    PROVE  Row(g, d) = Row(h, d)
<1>1. /\ PaidFor(g.activity, "REWARD", d) = PaidFor(h.activity, "REWARD", d)
      /\ PaidFor(g.activity, "MAKER_REBATE", d) = PaidFor(h.activity, "MAKER_REBATE", d)
    OBVIOUS
<1>2. /\ [t \in Tokens |-> g.realized[t][d]["profit"]] = [t \in Tokens |-> h.realized[t][d]["profit"]]
      /\ [t \in Tokens |-> g.realized[t][d]["loss"]] = [t \in Tokens |-> h.realized[t][d]["loss"]]
      /\ [t \in Tokens |-> g.realized[t][d]["fee"]] = [t \in Tokens |-> h.realized[t][d]["fee"]]
    OBVIOUS
<1> QED
    BY <1>1, <1>2 DEF Row

LEMMA RowIsDue ==
    ASSUME NEW g, NEW d, DuePaid(g.activity, d), DueTraded(g.realized, d), DueMerged(g.merges, d)
    PROVE  Row(g, d) = DueRow(d)
<1> DEFINE h == [activity |-> activity, realized |-> [t \in Tokens |-> Matched(trades[t])], merges |-> merges]
<1>1. /\ h.activity = activity /\ h.merges = merges
      /\ \A t \in Tokens : h.realized[t] = Matched(trades[t])
    OBVIOUS
<1> HIDE DEF h
<1>2. Row(g, d) = Row(h, d)
    BY <1>1, RowSame DEF DuePaid, DueTraded, DueMerged
<1> QED
    BY <1>2 DEF h, DueRow

\* What a step of the world leaves as it was, of a day.
Stays(d) ==
    /\ \A type \in {"REWARD", "MAKER_REBATE"} :
        PaidFor(activity', type, d) = PaidFor(activity, type, d)
    /\ \A t \in Tokens : Matched(trades'[t])[d] = Matched(trades[t])[d]
    /\ MergedOn(merges', d) = MergedOn(merges, d)
    /\ Still(d)' => Still(d)

LEMMA SameStays ==
    ASSUME NEW d, UNCHANGED <<trades, merges, activity>>
    PROVE  Stays(d)
BY DEF Stays, Still, Quiet

LEMMA TradeStays ==
    ASSUME WorldInv, NEW t \in Tokens, NEW f \in Fills, Trade(t, f),
           NEW d \in 1..Days, d + 2 <= day \/ Still(d)'
    PROVE  Stays(d)
<1> DEFINE ts == trades[t]
           x == On(day, f)
           us == Append(ts, x)
           n == Len(ts)
<1>1. x \in Deal /\ x.day = day
    BY ConstantsAssumption DEF WorldInv, On, Fill, Deal
<1>2. ts \in Deals
    BY DEF WorldInv, TokenOK
<1>3. /\ trades'[t] = us /\ \A r \in Tokens \ {t} : trades'[r] = trades[r]
      /\ UNCHANGED <<activity, merges>>
  <2>1. trades' = [trades EXCEPT ![t] = us] /\ UNCHANGED <<activity, merges>>
      BY DEF Trade
  <2>2. DOMAIN trades = Tokens
      BY DEF WorldInv
  <2> HIDE DEF us
  <2> QED
      BY <2>1, <2>2
<1> HIDE DEF x
<1>4. /\ n \in Nat /\ DOMAIN us = 1..(n + 1) /\ DOMAIN ts = 1..n
      /\ \A i \in DOMAIN ts : us[i] = ts[i]
      /\ us[n + 1] = x /\ \A i \in DOMAIN us : i \in DOMAIN ts \/ i = n + 1
  <2>1. ts \in Seq(Deal) /\ x \in Deal
      BY <1>1, <1>2 DEF Deals
  <2> HIDE DEF ts
  <2> QED
      BY <2>1, OneMore
<1>5. n + 1 \in DOMAIN us /\ \A i \in DOMAIN ts : i \in DOMAIN us
    BY <1>4
<1>6. d # x.day
  <2>1. CASE d + 2 <= day
      BY <1>1, <2>1 DEF WorldInv, Dates
  <2>2. CASE Still(d)'
    <3>1. FillsOn(us, d) = {}
        BY <1>3, <2>2 DEF Still, Quiet
    <3>2. n + 1 \in DOMAIN us /\ us[n + 1] = x
        BY <1>4, <1>5
    <3> HIDE DEF us, n
    <3> QED
        BY <3>1, <3>2 DEF FillsOn
  <2> QED
      BY <2>1, <2>2
<1>7. \A r \in Tokens : Matched(trades'[r])[d] = Matched(trades[r])[d]
  <2>1. Matched(us)[d] = Matched(ts)[d]
    <3> HIDE DEF ts
    <3> QED
        BY <1>1, <1>2, <1>6, MatchedAppend
  <2> QED
      BY <1>3, <2>1
<1>8. ASSUME Still(d)' PROVE Still(d)
  <2>1. \A r \in Tokens : FillsOn(trades'[r], d) = {}
      BY <1>8 DEF Still, Quiet
  <2>2. FillsOn(ts, d) = {}
    <3>1. FillsOn(us, d) = {}
        BY <1>3, <2>1
    <3> HIDE DEF us, ts
    <3> QED
        BY <1>4, <1>5, <3>1 DEF FillsOn
  <2>3. \A r \in Tokens : FillsOn(trades[r], d) = {}
      BY <1>3, <2>1, <2>2
  <2> QED
      BY <1>3, <1>8, <2>3 DEF Still, Quiet
<1> QED
    BY <1>3, <1>7, <1>8 DEF Stays

LEMMA PayStays ==
    ASSUME WorldInv, NEW a \in Grants, Pay(a), NEW d \in 1..Days, d + 2 <= day \/ Still(d)'
    PROVE  Stays(d)
<1> DEFINE x == [day |-> day, type |-> a.type, amount |-> a.amount]
           n == Len(activity)
           news == Append(activity, x)
<1>1. x \in Payment /\ EarnedOn(x) \in {day, day - 1} /\ day \in Int
    BY ConstantsAssumption DEF WorldInv, Payment, EarnedOn, Dates
<1>2. activity' = news /\ UNCHANGED <<trades, merges>>
    BY DEF Pay
<1> HIDE DEF x
<1>3. activity \in Seq(Payment)
    BY DEF WorldInv, PaymentsOK
<1>4. /\ n + 1 \in DOMAIN news /\ news[n + 1] = x
      /\ \A i \in DOMAIN activity : i \in DOMAIN news /\ news[i] = activity[i]
  <2>1. /\ n \in Nat /\ DOMAIN activity = 1..n /\ DOMAIN news = 1..(n + 1)
        /\ \A i \in DOMAIN activity : news[i] = activity[i]
        /\ news[n + 1] = x
      BY <1>1, <1>3, OneMore
  <2> HIDE DEF news, n
  <2> QED
      BY <2>1
<1>5. EarnedOn(x) # d
  <2>1. CASE d + 2 <= day
      BY <1>1, <2>1
  <2>2. CASE Still(d)'
    <3>1. \A i \in DOMAIN news : EarnedOn(news[i]) # d
        BY <1>2, <2>2 DEF Still, Quiet
    <3> HIDE DEF news, n
    <3> QED
        BY <1>4, <3>1
  <2> QED
      BY <2>1, <2>2
<1>6. \A type : PaidFor(news, type, d) = PaidFor(activity, type, d)
    BY <1>1, <1>3, <1>5, PaidAppend
<1> HIDE DEF news, n
<1>7. Still(d)' => Still(d)
    BY <1>2, <1>4 DEF Still, Quiet
<1> QED
    BY <1>2, <1>6, <1>7 DEF Stays

LEMMA MergeStays ==
    ASSUME WorldInv, NEW gain \in Gains, Merge(gain), NEW d \in 1..Days, d + 2 <= day \/ Still(d)'
    PROVE  Stays(d)
<1> DEFINE x == [day |-> day, size |-> 1, gain |-> gain]
           n == Len(merges)
           news == Append(merges, x)
<1>1. x \in Merged /\ x.day = day /\ day \in Int
    BY ConstantsAssumption DEF WorldInv, Merged, Dates
<1>2. merges' = news /\ UNCHANGED <<trades, activity>>
    BY DEF Merge
<1> HIDE DEF x
<1>3. merges \in Seq(Merged)
    BY DEF WorldInv, MergesOK
<1>4. /\ n + 1 \in DOMAIN news /\ news[n + 1] = x
      /\ \A i \in DOMAIN merges : i \in DOMAIN news /\ news[i] = merges[i]
  <2>1. /\ n \in Nat /\ DOMAIN merges = 1..n /\ DOMAIN news = 1..(n + 1)
        /\ \A i \in DOMAIN merges : news[i] = merges[i]
        /\ news[n + 1] = x
      BY <1>1, <1>3, OneMore
  <2> HIDE DEF news, n
  <2> QED
      BY <2>1
<1>5. x.day # d
  <2>1. CASE d + 2 <= day
      BY <1>1, <2>1
  <2>2. CASE Still(d)'
    <3>1. \A i \in DOMAIN news : news[i].day # d
        BY <1>2, <2>2 DEF Still
    <3> HIDE DEF news, n
    <3> QED
        BY <1>4, <3>1
  <2> QED
      BY <2>1, <2>2
<1>6. MergedOn(news, d) = MergedOn(merges, d)
    BY <1>1, <1>3, <1>5, MergedAppend
<1> HIDE DEF news, n
<1>7. Still(d)' => Still(d)
    BY <1>2, <1>4 DEF Still, Quiet
<1> QED
    BY <1>2, <1>6, <1>7 DEF Stays

\* A day that is two days past, or that nothing was booked on even after the
\* step, is due what it was due.
LEMMA WorldStays ==
    ASSUME WorldInv, World, NEW d \in 1..Days, d + 2 <= day \/ Still(d)'
    PROVE  Stays(d)
<1>1. ASSUME NEW t \in Tokens, NEW i \in DOMAIN trades[t], List(t, i) PROVE Stays(d)
    BY <1>1, SameStays DEF List
<1>2. CASE NextDay
    BY <1>2, SameStays DEF NextDay, world
<1> QED
    BY <1>1, <1>2, TradeStays, PayStays, MergeStays DEF World

LEMMA StaysDue ==
    ASSUME NEW d, Stays(d)
    PROVE  /\ DueRow(d)' = DueRow(d)
           /\ \A v : DuePaid(v, d) => DuePaid(v, d)'
           /\ \A v : DueTraded(v, d) => DueTraded(v, d)'
           /\ \A v : DueMerged(v, d) => DueMerged(v, d)'
<1> DEFINE g == [activity |-> activity, realized |-> [t \in Tokens |-> Matched(trades[t])], merges |-> merges]
           h == [activity |-> activity', realized |-> [t \in Tokens |-> Matched(trades'[t])], merges |-> merges']
<1>1. /\ g.activity = activity /\ g.merges = merges
      /\ \A t \in Tokens : g.realized[t] = Matched(trades[t])
      /\ h.activity = activity' /\ h.merges = merges'
      /\ \A t \in Tokens : h.realized[t] = Matched(trades'[t])
    OBVIOUS
<1>2. DueRow(d) = Row(g, d) /\ DueRow(d)' = Row(h, d)
    BY DEF DueRow
<1> HIDE DEF g, h
<1>3. Row(h, d) = Row(g, d)
    BY <1>1, RowSame DEF Stays
<1>4. /\ \A v : DuePaid(v, d) => DuePaid(v, d)'
      /\ \A v : DueTraded(v, d) => DueTraded(v, d)'
      /\ \A v : DueMerged(v, d) => DueMerged(v, d)'
    BY DEF Stays, DuePaid, DueTraded, DueMerged
<1> QED
    BY <1>2, <1>3, <1>4

-----------------------------------------------------------------------------
\* What the threads have read and written

Parts == {"activity", "realized", "merges"}
\* What a thread has read so far says what this day is due.
ReadRight(w, d) ==
    /\ thread[w].at \in {"trades", "merges", "write"} => DuePaid(thread[w].got["activity"], d)
    /\ thread[w].at \in {"merges", "write"} => DueTraded(thread[w].got["realized"], d)
    /\ thread[w].at = "write" => DueMerged(thread[w].got["merges"], d)
\* It does of a day two days before the one it started on, and of a day that
\* nothing is booked on.
GotOK(w) ==
    thread[w].at # "idle" =>
        /\ thread[w].today <= day /\ DOMAIN thread[w].got = Parts
        /\ \A d \in Dates : (d + 2 <= thread[w].today \/ Still(d)) => ReadRight(w, d)
\* So what the rows say of these days is right, of the ones the worker has
\* finished and of the ones it is at work on.
WorkerOK ==
    thread["own"].at # "idle" =>
        /\ last <= thread["own"].today
        /\ \A d \in 1..(thread["own"].next - 1) :
            (d + 2 <= thread["own"].today /\ d \notin overtaken) => rows[d] = DueRow(d)
RowsInv ==
    /\ DOMAIN rows \subseteq Dates /\ last <= day
    /\ \A d \in DOMAIN rows : Still(d) => rows[d] = DueRow(d)
    /\ \A d \in Dates : Settled(d) => rows[d] = DueRow(d)
    /\ WorkerOK

Right == (\A w \in Threads : GotOK(w)) /\ RowsInv

LEMMA InitRight == ASSUME Init PROVE Right
<1>1. \A w \in Threads : thread[w].at = "idle"
    BY DEF Init, Idle
<1>2. \A w \in Threads : GotOK(w)
    BY <1>1 DEF GotOK
<1>3. DOMAIN rows = {} /\ last = 0 /\ day = 1
    BY DEF Init
<1>4. \A d \in Dates : ~Settled(d)
    BY <1>3, ConstantsAssumption DEF Settled, Dates
<1>5. RowsInv
    BY <1>1, <1>3, <1>4 DEF RowsInv, WorkerOK, Threads
<1> QED
    BY <1>2, <1>5 DEF Right

\* What a step of the worker or its threads leaves as it was.
LEMMA SameDue ==
    ASSUME UNCHANGED <<day, world>>
    PROVE  /\ \A d : DueRow(d)' = DueRow(d)
           /\ \A d : Still(d)' = Still(d)
           /\ \A v, d : /\ DuePaid(v, d)' = DuePaid(v, d)
                        /\ DueTraded(v, d)' = DueTraded(v, d)
                        /\ DueMerged(v, d)' = DueMerged(v, d)
<1>1. UNCHANGED <<trades, merges, activity>>
    BY DEF world
<1>2. ASSUME NEW d PROVE DueRow(d)' = DueRow(d)
    BY <1>1, SameStays, StaysDue
<1>3. ASSUME NEW d PROVE Still(d)' = Still(d)
    BY <1>1 DEF Still, Quiet
<1>4. ASSUME NEW v, NEW d
      PROVE  /\ DuePaid(v, d)' = DuePaid(v, d)
             /\ DueTraded(v, d)' = DueTraded(v, d)
             /\ DueMerged(v, d)' = DueMerged(v, d)
    BY <1>1 DEF DuePaid, DueTraded, DueMerged
<1> QED
    BY <1>2, <1>3, <1>4

LEMMA WorldRight == ASSUME PInv, WorldInv, Right, World PROVE Right'
<1>1. UNCHANGED <<rows, last, rebuilding, unstarted, thread, overtaken>>
    BY DEF World, Trade, List, Pay, Merge, NextDay
<1>2. day \in Int /\ day' \in Int /\ day <= day'
  <2>1. day' = day \/ day' = day + 1
      BY DEF World, Trade, List, Pay, Merge, NextDay
  <2> QED
      BY <2>1 DEF WorldInv, Dates
<1>3. ASSUME NEW d \in Dates, d + 2 <= day \/ Still(d)'
      PROVE  /\ DueRow(d)' = DueRow(d)
             /\ \A v : DuePaid(v, d) => DuePaid(v, d)'
             /\ \A v : DueTraded(v, d) => DueTraded(v, d)'
             /\ \A v : DueMerged(v, d) => DueMerged(v, d)'
             /\ Still(d)' => Still(d)
  <2>1. Stays(d)
      BY <1>3, WorldStays DEF Dates
  <2> QED
      BY <2>1, StaysDue DEF Stays
<1>4. ASSUME NEW w \in Threads PROVE GotOK(w)'
  <2> SUFFICES ASSUME thread[w].at # "idle"
               PROVE  /\ thread[w].today <= day' /\ DOMAIN thread[w].got = Parts
                      /\ \A d \in Dates : (d + 2 <= thread[w].today \/ Still(d)') => ReadRight(w, d)'
      BY <1>1 DEF GotOK
  <2>1. GotOK(w) /\ thread[w].today \in Int
      BY DEF Right, PInv, Typed, ThreadOK
  <2>2. thread[w].today <= day /\ thread[w].today <= day' /\ DOMAIN thread[w].got = Parts
      BY <1>2, <2>1 DEF GotOK
  <2>3. ASSUME NEW d \in Dates, d + 2 <= thread[w].today \/ Still(d)' PROVE ReadRight(w, d)'
    <3>1. d + 2 <= day \/ Still(d)'
        BY <1>2, <2>1, <2>2, <2>3 DEF Dates
    <3>2. d + 2 <= thread[w].today \/ Still(d)
        BY <1>3, <2>3, <3>1
    <3>3. ReadRight(w, d)
        BY <2>1, <3>2 DEF GotOK
    <3> QED
        BY <1>1, <1>3, <3>1, <3>3 DEF ReadRight
  <2> QED
      BY <2>2, <2>3
<1>5. last \in Int /\ last <= day /\ last <= day'
    BY <1>2 DEF Right, RowsInv, PInv, Typed
<1>6. ASSUME NEW d \in DOMAIN rows, Still(d)' PROVE rows[d] = DueRow(d)'
  <2>1. d \in Dates
      BY DEF Right, RowsInv
  <2> QED
      BY <1>3, <1>6, <2>1 DEF Right, RowsInv
<1>7. ASSUME NEW d \in Dates, Settled(d) PROVE rows[d] = DueRow(d)'
  <2>1. d + 2 <= day
      BY <1>2, <1>5, <1>7 DEF Settled, Dates
  <2> QED
      BY <1>3, <1>7, <2>1 DEF Right, RowsInv
<1>8. ASSUME thread["own"].at # "idle", NEW d \in 1..(thread["own"].next - 1),
             d + 2 <= thread["own"].today, d \notin overtaken
      PROVE  rows[d] = DueRow(d)'
  <2>1. thread["own"].today <= day /\ thread["own"].today \in 0..Days
      BY <1>8 DEF Right, GotOK, Threads, PInv, Typed, ThreadOK
  <2>2. d \in Dates /\ d + 2 <= day
      BY <1>2, <1>8, <2>1, ConstantsAssumption DEF Dates
  <2>3. rows[d] = DueRow(d)
      BY <1>8 DEF Right, RowsInv, WorkerOK
  <2> QED
      BY <1>3, <2>2, <2>3
<1>9. RowsInv'
  <2>1. WorkerOK'
      BY <1>1, <1>8 DEF WorkerOK, Right, RowsInv
  <2>2. \A d \in Dates : Settled(d)' => Settled(d)
      BY <1>1 DEF Settled
  <2> QED
      BY <1>1, <1>5, <1>6, <1>7, <2>1, <2>2 DEF RowsInv, Right
<1> QED
    BY <1>4, <1>9 DEF Right

LEMMA KeepsRight ==
    ASSUME Right, UNCHANGED <<day, world, rows, last, thread, overtaken>>
    PROVE  Right'
<1>1. \A w \in Threads : GotOK(w)'
    BY SameDue DEF Right, GotOK, ReadRight
<1>2. RowsInv'
    BY SameDue DEF Right, RowsInv, WorkerOK, Settled
<1> QED
    BY <1>1, <1>2 DEF Right

\* A thread that moves leaves the other's part alone.
LEMMA OtherRight ==
    ASSUME Right, UNCHANGED <<day, world>>, NEW v \in Threads, thread'[v] = thread[v]
    PROVE  GotOK(v)'
BY SameDue DEF Right, GotOK, ReadRight

LEMMA MaybeRebuildRight == ASSUME PInv, WorldInv, Right, MaybeRebuild PROVE Right'
<1>1. /\ thread'["own"].at = "activity" /\ thread'["own"].today = day
      /\ thread'["own"].next = 1 /\ DOMAIN thread'["own"].got = Parts
    BY DEF MaybeRebuild, PInv, Typed, Threads, Idle, Nothing, Parts
<1>2. \A w \in Threads \ {"own"} : thread'[w] = thread[w]
    BY DEF MaybeRebuild, PInv, Typed
<1>3. UNCHANGED <<day, world, rows, last, overtaken>>
    BY DEF MaybeRebuild
<1>4. day <= day
    BY DEF WorldInv, Dates
<1>5. GotOK("own")'
    BY <1>1, <1>3, <1>4 DEF GotOK, ReadRight
<1>6. \A w \in Threads : GotOK(w)'
    BY <1>2, <1>3, <1>5, OtherRight
<1>7. WorkerOK'
    BY <1>1, <1>3 DEF WorkerOK, Right, RowsInv
<1>8. RowsInv'
    BY <1>3, <1>7, SameDue DEF Right, RowsInv, Settled
<1> QED
    BY <1>6, <1>8 DEF Right

\* A read is right if what it adds is.
LEMMA ReadsRight ==
    ASSUME PInv, WorldInv, Right, NEW w \in Threads,
           NEW at \in Places \ {"idle"}, NEW part \in Parts, NEW value, NEW then,
           Reads(w, at, part, value, then),
           \A d \in Dates : (d + 2 <= thread[w].today \/ Still(d)) => ReadRight(w, d)'
    PROVE  Right'
<1>1. /\ thread[w].at = at /\ UNCHANGED <<day, world, rows, last, overtaken>>
      /\ thread' = [thread EXCEPT ![w].got[part] = value, ![w].at = then]
    BY DEF Reads
<1>2. DOMAIN thread = Threads /\ DOMAIN thread[w] = Fields /\ DOMAIN thread[w].got = Parts
    BY <1>1 DEF PInv, Typed, ThreadOK, Right, GotOK
<1>3. /\ DOMAIN thread'[w].got = Parts
      /\ thread'[w].today = thread[w].today /\ thread'[w].next = thread[w].next
    BY <1>1, <1>2 DEF Fields
<1>4. \A v \in Threads \ {w} : thread'[v] = thread[v]
    BY <1>1, <1>2
<1>5. GotOK(w)'
  <2>1. thread[w].today <= day
      BY <1>1 DEF Right, GotOK
  <2>2. \A d \in Dates : Still(d)' = Still(d)
      BY <1>1, SameDue
  <2> QED
      BY <1>1, <1>3, <2>1, <2>2 DEF GotOK
<1>6. \A v \in Threads : GotOK(v)'
    BY <1>1, <1>4, <1>5, OtherRight
<1>7. WorkerOK'
  <2>1. thread["own"].at = "idle" => thread'["own"].at = "idle"
      BY <1>1, <1>4 DEF Threads
  <2>2. /\ thread'["own"].today = thread["own"].today
        /\ thread'["own"].next = thread["own"].next
      BY <1>3, <1>4 DEF Threads
  <2>3. thread'["own"].at # "idle" => thread["own"].at # "idle"
    <3>1. CASE w = "own"
        BY <1>1, <3>1
    <3>2. CASE w # "own"
        BY <1>4, <3>2 DEF Threads
    <3> QED
        BY <3>1, <3>2
  <2> QED
      BY <1>1, <2>2, <2>3, SameDue DEF WorkerOK, Right, RowsInv
<1>8. RowsInv'
    BY <1>1, <1>7, SameDue DEF Right, RowsInv, Settled
<1> QED
    BY <1>6, <1>8 DEF Right

\* What a read puts in the thread's locals, and what it leaves.
LEMMA ReadsGot ==
    ASSUME PInv, Right, NEW w \in Threads,
           NEW at \in Places \ {"idle"}, NEW part \in Parts, NEW value, NEW then,
           Reads(w, at, part, value, then)
    PROVE  /\ thread'[w].at = then /\ thread'[w].got[part] = value
           /\ \A p \in Parts \ {part} : thread'[w].got[p] = thread[w].got[p]
           /\ thread[w].at = at /\ UNCHANGED <<day, world>>
<1>1. /\ thread[w].at = at /\ UNCHANGED <<day, world>>
      /\ thread' = [thread EXCEPT ![w].got[part] = value, ![w].at = then]
    BY DEF Reads
<1>2. DOMAIN thread = Threads /\ DOMAIN thread[w] = Fields /\ DOMAIN thread[w].got = Parts
    BY <1>1 DEF PInv, Typed, ThreadOK, Right, GotOK
<1> QED
    BY <1>1, <1>2 DEF Fields

LEMMA ReadActivityRight ==
    ASSUME PInv, WorldInv, Right, NEW w \in Threads, ReadActivity(w) PROVE Right'
<1>1. Reads(w, "activity", "activity", activity, "trades")
    BY DEF ReadActivity
<1>2. "activity" \in Places \ {"idle"} /\ "activity" \in Parts
    BY DEF Places, Parts
<1>3. thread'[w].at = "trades" /\ thread'[w].got["activity"] = activity /\ activity' = activity
    BY <1>1, <1>2, ReadsGot DEF world
<1>4. \A d : ReadRight(w, d)'
    BY <1>3 DEF ReadRight, DuePaid
<1> QED
    BY <1>1, <1>2, <1>4, ReadsRight

LEMMA ReadTradesRight ==
    ASSUME PInv, WorldInv, Right, NEW w \in Threads, ReadTrades(w) PROVE Right'
<1> DEFINE value == [t \in Tokens |-> RealizedByDay(trades[t], listed[t])]
<1>1. Reads(w, "trades", "realized", value, "merges")
    BY DEF ReadTrades
<1>2. "trades" \in Places \ {"idle"} /\ "realized" \in Parts
    BY DEF Places, Parts
<1> HIDE DEF value
<1>3. /\ thread'[w].at = "merges" /\ thread'[w].got["realized"] = value
      /\ thread'[w].got["activity"] = thread[w].got["activity"]
      /\ thread[w].at = "trades" /\ UNCHANGED <<day, world>>
  <2>1. /\ thread'[w].at = "merges" /\ thread'[w].got["realized"] = value
        /\ \A p \in Parts \ {"realized"} : thread'[w].got[p] = thread[w].got[p]
        /\ thread[w].at = "trades" /\ UNCHANGED <<day, world>>
      BY <1>1, <1>2, ReadsGot
  <2> QED
      BY <2>1 DEF Parts
<1>4. ASSUME NEW d \in Dates, d + 2 <= thread[w].today \/ Still(d) PROVE ReadRight(w, d)'
  <2>1. GotOK(w) /\ thread[w].today \in Int /\ day \in Int
      BY DEF Right, PInv, Typed, ThreadOK, WorldInv, Dates
  <2>2. DuePaid(thread[w].got["activity"], d) /\ thread[w].today <= day
      BY <1>3, <1>4, <2>1 DEF GotOK, ReadRight
  <2>3. ASSUME NEW t \in Tokens PROVE value[t][d] = Matched(trades[t])[d]
    <3>1. TokenOK(t) /\ d \in 1..Days
        BY DEF WorldInv, Dates
    <3>2. value[t] = RealizedByDay(trades[t], listed[t])
        BY DEF value
    <3>3. CASE Still(d)
      <4>1. FillsOn(trades[t], d) = {}
          BY <3>3 DEF Still, Quiet
      <4> QED
          BY <3>1, <3>2, <4>1, DayIdle
    <3>4. CASE d + 2 <= thread[w].today
      <4>1. \A i \in DOMAIN trades[t] : trades[t][i].day <= d => i \in listed[t]
        <5> SUFFICES ASSUME NEW i \in DOMAIN trades[t], trades[t][i].day <= d, i \notin listed[t]
                     PROVE  FALSE
            OBVIOUS
        <5>1. trades[t][i].day + 1 >= day
            BY <3>1 DEF TokenOK
        <5>2. trades[t][i].day \in Int
            BY <3>1, DealAt DEF TokenOK, Dates
        <5> QED
            BY <2>1, <2>2, <3>4, <5>1, <5>2 DEF Dates
      <4> QED
          BY <3>1, <3>2, <4>1, DayReplayed DEF TokenOK
    <3> QED
        BY <1>4, <3>3, <3>4
  <2>4. trades' = trades /\ activity' = activity
      BY <1>3 DEF world
  <2> QED
      BY <1>3, <2>2, <2>3, <2>4 DEF ReadRight, DuePaid, DueTraded
<1> QED
    BY <1>1, <1>2, <1>4, ReadsRight

LEMMA ReadMergesRight ==
    ASSUME PInv, WorldInv, Right, NEW w \in Threads, ReadMerges(w) PROVE Right'
<1>1. Reads(w, "merges", "merges", merges, "write")
    BY DEF ReadMerges
<1>2. "merges" \in Places \ {"idle"} /\ "merges" \in Parts
    BY DEF Places, Parts
<1>3. /\ thread'[w].at = "write" /\ thread'[w].got["merges"] = merges
      /\ thread'[w].got["activity"] = thread[w].got["activity"]
      /\ thread'[w].got["realized"] = thread[w].got["realized"]
      /\ thread[w].at = "merges" /\ UNCHANGED <<day, world>>
  <2>1. /\ thread'[w].at = "write" /\ thread'[w].got["merges"] = merges
        /\ \A p \in Parts \ {"merges"} : thread'[w].got[p] = thread[w].got[p]
        /\ thread[w].at = "merges" /\ UNCHANGED <<day, world>>
      BY <1>1, <1>2, ReadsGot
  <2> QED
      BY <2>1 DEF Parts
<1>4. ASSUME NEW d \in Dates, d + 2 <= thread[w].today \/ Still(d) PROVE ReadRight(w, d)'
  <2>1. ReadRight(w, d)
      BY <1>3, <1>4 DEF Right, GotOK
  <2>2. trades' = trades /\ activity' = activity /\ merges' = merges
      BY <1>3 DEF world
  <2> QED
      BY <1>3, <2>1, <2>2 DEF ReadRight, DuePaid, DueTraded, DueMerged
<1> QED
    BY <1>1, <1>2, <1>4, ReadsRight

\* A row is written from what was read.  A replaced worker's thread may have
\* read less than the day is due: its days are overtaken.
LEMMA WriteDayRight ==
    ASSUME PInv, WorldInv, Right, NEW w \in Threads, WriteDay(w) PROVE Right'
<1> DEFINE date == thread[w].next
<1>1. /\ thread[w].at = "write" /\ date <= thread[w].today
      /\ rows' = [d \in DOMAIN rows \union {date} |->
                      IF d = date THEN Row(thread[w].got, date) ELSE rows[d]]
      /\ overtaken' = IF w = "own" THEN overtaken \ {date} ELSE overtaken \union {date}
      /\ thread' = [thread EXCEPT ![w].next = @ + 1]
      /\ UNCHANGED <<day, world, last>>
    BY DEF WriteDay
<1>2. /\ DOMAIN thread = Threads /\ DOMAIN thread[w] = Fields
      /\ date \in 1..Days + 1 /\ thread[w].today \in 0..Days
    BY DEF PInv, Typed, ThreadOK
<1>3. /\ thread'[w].at = "write" /\ thread'[w].today = thread[w].today
      /\ thread'[w].got = thread[w].got /\ thread'[w].next = date + 1
      /\ \A v \in Threads \ {w} : thread'[v] = thread[v]
    BY <1>1, <1>2 DEF Fields
<1>4. date \in Dates /\ thread[w].today <= day
  <2>1. thread[w].today <= day
      BY <1>1 DEF Right, GotOK
  <2> QED
      BY <1>1, <1>2, <2>1, ConstantsAssumption DEF Dates
<1>5. date + 2 <= thread[w].today \/ Still(date) => Row(thread[w].got, date) = DueRow(date)
  <2> SUFFICES ASSUME date + 2 <= thread[w].today \/ Still(date)
               PROVE  Row(thread[w].got, date) = DueRow(date)
      OBVIOUS
  <2>1. ReadRight(w, date)
      BY <1>1, <1>4 DEF Right, GotOK
  <2>2. /\ DuePaid(thread[w].got.activity, date) /\ DueTraded(thread[w].got.realized, date)
        /\ DueMerged(thread[w].got.merges, date)
      BY <1>1, <2>1 DEF ReadRight
  <2> HIDE DEF date
  <2> QED
      BY <2>2, RowIsDue
<1>6. /\ \A d : DueRow(d)' = DueRow(d)
      /\ \A d : Still(d)' = Still(d)
    BY <1>1, SameDue
<1>7. \A v \in Threads : GotOK(v)'
  <2>1. GotOK(w)'
    <3>1. \A d : ReadRight(w, d)' = ReadRight(w, d)
        BY <1>1, <1>3, SameDue DEF ReadRight
    <3> QED
        BY <1>1, <1>3, <1>6, <3>1 DEF Right, GotOK
  <2> QED
      BY <1>1, <1>3, <2>1, OtherRight
<1> HIDE DEF date
<1>8. DOMAIN rows' = DOMAIN rows \union {date} /\ rows'[date] = Row(thread[w].got, date)
      /\ \A d \in DOMAIN rows : d # date => rows'[d] = rows[d]
    BY <1>1
<1>9. ASSUME NEW d \in DOMAIN rows', Still(d)' PROVE rows'[d] = DueRow(d)'
  <2>1. CASE d = date
      BY <1>5, <1>6, <1>8, <1>9, <2>1
  <2>2. CASE d # date
      BY <1>6, <1>8, <1>9, <2>2 DEF Right, RowsInv
  <2> QED
      BY <2>1, <2>2
<1>10. ASSUME NEW d \in Dates, Settled(d)' PROVE rows'[d] = DueRow(d)'
  <2>1. d + 2 <= last /\ d \notin overtaken' /\ last \in 0..Days /\ d \in 1..Days
      BY <1>1, <1>10 DEF Settled, PInv, Typed, Dates
  <2>2. CASE d = date
    <3>1. w = "own"
        BY <1>1, <2>1, <2>2
    <3>2. last <= thread[w].today
        BY <1>1, <3>1 DEF Right, RowsInv, WorkerOK
    <3>3. date + 2 <= thread[w].today
        BY <1>2, <2>1, <2>2, <3>2
    <3> QED
        BY <1>5, <1>6, <1>8, <2>2, <3>3
  <2>3. CASE d # date
    <3>1. d \notin overtaken
        BY <1>1, <2>1, <2>3
    <3>2. rows[d] = DueRow(d)
        BY <2>1, <3>1 DEF Settled, Right, RowsInv
    <3>3. d \in 1..last
        BY <2>1
    <3>4. d \in DOMAIN rows
        BY <3>3 DEF PInv, NoDayMissing
    <3> QED
        BY <1>6, <1>8, <2>3, <3>2, <3>4
  <2> QED
      BY <2>2, <2>3
<1>11. WorkerOK'
  <2> SUFFICES ASSUME thread'["own"].at # "idle"
               PROVE  /\ last <= thread'["own"].today
                      /\ \A d \in 1..(thread'["own"].next - 1) :
                          (d + 2 <= thread'["own"].today /\ d \notin overtaken')
                            => rows'[d] = DueRow(d)'
      BY <1>1 DEF WorkerOK
  <2>1. /\ thread["own"].at # "idle" /\ thread'["own"].today = thread["own"].today
    <3>1. CASE w = "own"
        BY <1>1, <1>3, <3>1
    <3>2. CASE w # "own"
        BY <1>3, <3>2 DEF Threads
    <3> QED
        BY <3>1, <3>2
  <2>2. last <= thread["own"].today
      BY <2>1 DEF Right, RowsInv, WorkerOK
  <2>3. ASSUME NEW d \in 1..(thread'["own"].next - 1), d + 2 <= thread["own"].today,
               d \notin overtaken'
        PROVE  rows'[d] = DueRow(d)'
    <3>1. CASE d = date
      <4>1. w = "own"
          BY <1>1, <2>3, <3>1
      <4> QED
          BY <1>5, <1>6, <1>8, <2>3, <3>1, <4>1
    <3>2. CASE d # date
      <4>1. d \notin overtaken
          BY <1>1, <2>3, <3>2
      <4>2. d \in 1..(thread["own"].next - 1)
        <5>1. CASE w = "own"
            BY <1>2, <1>3, <2>3, <3>2, <5>1 DEF date
        <5>2. CASE w # "own"
            BY <1>3, <2>3, <5>2 DEF Threads
        <5> QED
            BY <5>1, <5>2
      <4>3. rows[d] = DueRow(d)
          BY <2>1, <2>3, <4>1, <4>2 DEF Right, RowsInv, WorkerOK
      <4>4. d \in DOMAIN rows
          BY <4>2 DEF PInv, WrittenSoFar, Threads
      <4> QED
          BY <1>6, <1>8, <3>2, <4>3, <4>4
    <3> QED
        BY <3>1, <3>2
  <2> QED
      BY <2>1, <2>2, <2>3
<1>12. RowsInv'
  <2>1. DOMAIN rows' \subseteq Dates /\ last <= day
      BY <1>4, <1>8 DEF Right, RowsInv
  <2> QED
      BY <1>1, <1>9, <1>10, <1>11, <2>1 DEF RowsInv
<1> QED
    BY <1>7, <1>12 DEF Right

\* A thread ends.
LEMMA EndRight ==
    ASSUME PInv, Right, NEW w \in Threads, thread' = [thread EXCEPT ![w] = Idle],
           last' <= day, w # "own" => last' = last,
           \A d \in Dates : (d + 2 <= last' /\ d \notin overtaken) => rows[d] = DueRow(d),
           UNCHANGED <<day, world, rows, overtaken>>
    PROVE  Right'
<1>1. thread'[w] = Idle /\ Idle.at = "idle" /\ \A v \in Threads \ {w} : thread'[v] = thread[v]
    BY DEF PInv, Typed, Idle
<1>2. \A v \in Threads : GotOK(v)'
  <2>1. GotOK(w)'
      BY <1>1 DEF GotOK
  <2> QED
      BY <1>1, <2>1, OtherRight
<1>3. /\ \A d : DueRow(d)' = DueRow(d)
      /\ \A d : Still(d)' = Still(d)
    BY SameDue
<1>4. WorkerOK'
  <2>1. CASE w = "own"
      BY <1>1, <2>1 DEF WorkerOK
  <2>2. CASE w # "own"
    <3>1. thread'["own"] = thread["own"] /\ last' = last
        BY <1>1, <2>2 DEF Threads
    <3> QED
        BY <1>3, <3>1 DEF WorkerOK, Right, RowsInv
  <2> QED
      BY <2>1, <2>2
<1>5. RowsInv'
    BY <1>3, <1>4 DEF Right, RowsInv, Settled
<1> QED
    BY <1>2, <1>5 DEF Right

LEMMA FinishRight == ASSUME PInv, WorldInv, Right, NEW w \in Threads, Finish(w) PROVE Right'
<1>1. /\ thread[w].at = "write" /\ thread[w].next > thread[w].today
      /\ thread' = [thread EXCEPT ![w] = Idle]
      /\ last' = IF w = "own" THEN thread[w].today ELSE last
      /\ UNCHANGED <<day, world, rows, overtaken>>
    BY DEF Finish
<1>2. CASE w = "own"
  <2>1. last' = thread["own"].today /\ last' <= day
      BY <1>1, <1>2 DEF Right, GotOK
  <2>2. ASSUME NEW d \in Dates, d + 2 <= last', d \notin overtaken PROVE rows[d] = DueRow(d)
    <3>1. thread["own"].today \in 0..Days /\ thread["own"].next \in 1..Days + 1
        BY DEF PInv, Typed, ThreadOK, Threads
    <3>2. d \in 1..(thread["own"].next - 1)
        BY <1>1, <1>2, <2>1, <2>2, <3>1 DEF Dates
    <3> QED
        BY <1>1, <1>2, <2>1, <2>2, <3>2 DEF Right, RowsInv, WorkerOK
  <2> QED
      BY <1>1, <1>2, <2>1, <2>2, EndRight
<1>3. CASE w # "own"
  <2>1. last' = last /\ last' <= day
      BY <1>1, <1>3 DEF Right, RowsInv
  <2>2. \A d \in Dates : (d + 2 <= last' /\ d \notin overtaken) => rows[d] = DueRow(d)
      BY <2>1 DEF Right, RowsInv, Settled
  <2> QED
      BY <1>1, <1>3, <2>1, <2>2, EndRight
<1> QED
    BY <1>2, <1>3

LEMMA RaiseRight == ASSUME PInv, Right, NEW w \in Threads, Raise(w) PROVE Right'
<1>1. thread' = [thread EXCEPT ![w] = Idle] /\ UNCHANGED <<day, world, rows, last, overtaken>>
    BY DEF Raise
<1>2. /\ last' = last /\ last' <= day
      /\ \A d \in Dates : (d + 2 <= last' /\ d \notin overtaken) => rows[d] = DueRow(d)
    BY <1>1 DEF Right, RowsInv, Settled
<1> QED
    BY <1>1, <1>2, EndRight

LEMMA RestartRight == ASSUME PInv, WorldInv, Right, Restart PROVE Right'
<1>1. /\ thread'["own"] = Idle /\ thread'["orphan"] \in {Idle, thread["own"]}
      /\ last' = 0 /\ UNCHANGED <<day, world, rows, overtaken>>
    BY DEF Restart, PInv, Typed, Threads
<1>2. Idle.at = "idle"
    BY DEF Idle
<1>3. /\ \A d : DueRow(d)' = DueRow(d)
      /\ \A d : Still(d)' = Still(d)
    BY <1>1, SameDue
<1>4. GotOK("own")'
    BY <1>1, <1>2 DEF GotOK
<1>5. GotOK("orphan")'
  <2>1. CASE thread'["orphan"] = Idle
      BY <1>2, <2>1 DEF GotOK
  <2>2. CASE thread'["orphan"] = thread["own"]
    <3>1. GotOK("own") /\ \A d : ReadRight("orphan", d)' = ReadRight("own", d)
        BY <1>1, <2>2, SameDue DEF ReadRight, Right, Threads
    <3> QED
        BY <1>1, <1>3, <2>2, <3>1 DEF GotOK
  <2> QED
      BY <1>1, <2>1, <2>2
<1>6. \A d \in Dates : ~Settled(d)' 
    BY <1>1, ConstantsAssumption DEF Settled, Dates
<1>7. WorkerOK' /\ last' <= day
    BY <1>1, <1>2 DEF WorkerOK, WorldInv, Dates
<1>8. RowsInv'
    BY <1>1, <1>3, <1>6, <1>7 DEF Right, RowsInv
<1> QED
    BY <1>4, <1>5, <1>8 DEF Right, Threads

RInv == PInv /\ WorldInv /\ Right

LEMMA InitRInv == Init => RInv
BY InitPInv, InitWorld, InitRight DEF RInv

LEMMA NextRInv == ASSUME RInv, [Next]_vars PROVE RInv'
<1>1. PInv'
    BY NextPInv DEF RInv
<1>2. CASE World
    BY <1>1, <1>2, WorldWorld, WorldRight DEF RInv
<1>3. CASE MaybeRebuild
  <2>1. UNCHANGED <<day, world>>
      BY <1>3 DEF MaybeRebuild
  <2> QED
      BY <1>1, <1>3, <2>1, KeepsWorld, MaybeRebuildRight DEF RInv
<1>4. ASSUME NEW w \in Threads, Step(w) PROVE RInv'
  <2>1. UNCHANGED <<day, world>>
      BY <1>4 DEF Step, ReadActivity, ReadTrades, ReadMerges, Reads, WriteDay, Finish
  <2>2. WorldInv'
      BY <2>1, KeepsWorld DEF RInv
  <2>3. Right'
      BY <1>4, ReadActivityRight, ReadTradesRight, ReadMergesRight, WriteDayRight, FinishRight
         DEF Step, RInv
  <2> QED
      BY <1>1, <2>2, <2>3 DEF RInv
<1>5. ASSUME NEW w \in Threads, Raise(w) PROVE RInv'
  <2>1. UNCHANGED <<day, world>>
      BY <1>5 DEF Raise
  <2> QED
      BY <1>1, <1>5, <2>1, KeepsWorld, RaiseRight DEF RInv
<1>6. CASE Restart
  <2>1. UNCHANGED <<day, world>>
      BY <1>6 DEF Restart
  <2> QED
      BY <1>1, <1>6, <2>1, KeepsWorld, RestartRight DEF RInv
<1>7. CASE StartRaises
  <2>1. UNCHANGED <<day, world, rows, last, thread, overtaken>>
      BY <1>7 DEF StartRaises
  <2> QED
      BY <1>1, <2>1, KeepsWorld, KeepsRight DEF RInv
<1>8. CASE UNCHANGED vars
  <2>1. UNCHANGED <<day, world, rows, last, thread, overtaken>>
      BY <1>8 DEF vars
  <2> QED
      BY <1>1, <2>1, KeepsWorld, KeepsRight DEF RInv
<1> QED
    BY <1>2, <1>3, <1>4, <1>5, <1>6, <1>7, <1>8 DEF Next

\* A day two rebuilds back is booked as the shares say, share by share, and
\* stays so: whatever was paid or listed late, raised half way through the rows
\* or was restarted in between.
THEOREM PastDaysRight == Spec => []PastDaysAreRight
<1>1. RInv => PastDaysAreRight
  <2> SUFFICES ASSUME RInv, NEW d \in 1..Days, Settled(d)
               PROVE  d \in DOMAIN rows /\ rows[d] = DueRow(d)
      BY DEF PastDaysAreRight
  <2>1. rows[d] = DueRow(d)
      BY DEF RInv, Right, RowsInv, Dates
  <2>2. d \in 1..last
      BY DEF RInv, PInv, Typed, Settled
  <2> QED
      BY <2>1, <2>2 DEF RInv, PInv, NoDayMissing
<1> QED
    BY <1>1, InitRInv, NextRInv, PTL DEF Spec

-----------------------------------------------------------------------------
\* What the shares of a token that is sold out have brought

\* The pieces an interval is cut into by ever larger numbers add up to it.
Tiled(n, u, lo, hi, f) ==
    /\ n \in Nat /\ u \in [0..n -> Int] /\ u[0] = 0 /\ \A k \in 1..n : u[k - 1] <= u[k]
    /\ lo \in Int /\ hi \in Int /\ 0 <= lo /\ lo <= hi /\ hi <= u[n]
    /\ f \in [1..n -> Int]
    /\ \A k \in 1..n : f[k] = Most(0, Fewest(u[k], hi) - Most(u[k - 1], lo))
LEMMA Tiles ==
    ASSUME NEW n, NEW u, NEW lo, NEW hi, NEW f, Tiled(n, u, lo, hi, f)
    PROVE  SumFunction(f) = hi - lo
<1> USE DEF Tiled
<1> DEFINE G == {k \in Nat : k <= n => SumOn(f, 1..k) = Most(0, Fewest(u[k], hi) - lo)}
<1>1. 0 \in G
  <2>1. SumOn(f, 1..0) = 0
      BY SumOfNone
  <2>2. Most(0, Fewest(u[0], hi) - lo) = 0
      BY DEF Most, Fewest
  <2> QED
      BY <2>1, <2>2
<1>2. ASSUME NEW k \in Nat, k \in G PROVE k + 1 \in G
  <2> SUFFICES ASSUME k + 1 <= n PROVE SumOn(f, 1..(k + 1)) = Most(0, Fewest(u[k + 1], hi) - lo)
      OBVIOUS
  <2>1. k + 1 \in 1..n /\ (k + 1) - 1 = k /\ k <= n /\ k \in 0..n /\ k + 1 \in 0..n
      OBVIOUS
  <2>2. SumOn(f, 1..(k + 1)) = f[k + 1] + SumOn(f, 1..k)
    <3>1. SumOn(f, 1..(k + 1)) = f[k + 1] + SumOn(f, 1..((k + 1) - 1))
        BY <2>1, SumStep
    <3> QED
        BY <2>1, <3>1
  <2>3. SumOn(f, 1..k) = Most(0, Fewest(u[k], hi) - lo)
      BY <1>2, <2>1
  <2>4. f[k + 1] = Most(0, Fewest(u[k + 1], hi) - Most(u[k], lo)) /\ u[k] <= u[k + 1]
    <3>1. f[k + 1] = Most(0, Fewest(u[k + 1], hi) - Most(u[(k + 1) - 1], lo)) /\ u[(k + 1) - 1] <= u[k + 1]
        BY <2>1
    <3> QED
        BY <2>1, <3>1
  <2>5. PICK b0 \in Int, b1 \in Int : b0 = u[k] /\ b1 = u[k + 1]
      BY <2>1
  <2>6. Most(0, Fewest(b0, hi) - lo) + Most(0, Fewest(b1, hi) - Most(b0, lo)) = Most(0, Fewest(b1, hi) - lo)
    <3>1. b0 <= b1 /\ lo \in Int /\ hi \in Int /\ lo <= hi
        BY <2>4, <2>5
    <3> QED
        BY <3>1, Ranges
  <2>7. Most(0, Fewest(b0, hi) - lo) \in Int /\ Most(0, Fewest(b1, hi) - Most(b0, lo)) \in Int
      BY <2>5 DEF Most, Fewest
  <2> QED
      BY <2>2, <2>3, <2>4, <2>5, <2>6, <2>7
<1>3. Nat \subseteq G
  <2> HIDE DEF G
  <2> QED
      BY <1>1, <1>2, NatSetInduction
<1>4. SumOn(f, 1..n) = Most(0, Fewest(u[n], hi) - lo)
    BY <1>3
<1>5. u[n] \in Int /\ SumOn(f, 1..n) = SumFunction(f)
    BY SumAll
<1>6. Fewest(u[n], hi) = hi
    BY <1>5 DEF Fewest
<1>7. Most(0, hi - lo) = hi - lo
    BY DEF Most
<1> QED
    BY <1>4, <1>5, <1>6, <1>7

\* The sums of sizes are ever larger.
LEMMA UptoTiles ==
    ASSUME NEW ts \in Deals, NEW side, NEW u, u = [k \in 0..Len(ts) |-> Upto(ts, side, k)]
    PROVE  /\ u \in [0..Len(ts) -> Int] /\ u[0] = 0
           /\ \A k \in 1..Len(ts) : u[k - 1] <= u[k] /\ 0 <= u[k - 1] /\ u[k] <= u[Len(ts)]
<1> DEFINE n == Len(ts)
<1>1. n \in Nat
    BY DealAt
<1>2. \A k \in 0..n : Upto(ts, side, k) \in Nat
    BY <1>1, UptoGrows
<1>3. u \in [0..n -> Int] /\ u[0] = 0
    BY <1>1, <1>2, UptoZero
<1>4. ASSUME NEW k \in 1..n PROVE u[k - 1] <= u[k] /\ 0 <= u[k - 1] /\ u[k] <= u[n]
  <2>1. k - 1 \in 0..n /\ k \in 0..n /\ k - 1 \in 0..k /\ n \in 0..n
      BY <1>1
  <2>2. Upto(ts, side, k - 1) \in Nat /\ Upto(ts, side, k - 1) <= Upto(ts, side, k)
      BY <2>1, UptoGrows
  <2>3. Upto(ts, side, k) <= Upto(ts, side, n)
      BY <2>1, UptoGrows
  <2> QED
      BY <2>1, <2>2, <2>3
<1> QED
    BY <1>3, <1>4

\* All shares of a sale were bought.
LEMMA SharedRow ==
    ASSUME NEW ts \in Deals, Covered(ts), NEW i \in DOMAIN ts,
           NEW f, f = [j \in DOMAIN ts |-> Shared(ts, i, j)]
    PROVE  f \in [DOMAIN ts -> Int] /\ SumFunction(f) = Sizes(ts, "SELL")[i]
<1> DEFINE n == Len(ts)
           u == [k \in 0..n |-> Upto(ts, "BUY", k)]
           lo == Upto(ts, "SELL", i - 1)
           hi == Upto(ts, "SELL", i)
<1>1. n \in Nat /\ DOMAIN ts = 1..n /\ i \in 1..n
    BY DealAt
<1>2. /\ u \in [0..n -> Int] /\ u[0] = 0
      /\ \A k \in 1..n : u[k - 1] <= u[k] /\ 0 <= u[k - 1] /\ u[k] <= u[n]
    BY UptoTiles
<1>3. lo \in Int /\ hi \in Int /\ hi = lo + Sizes(ts, "SELL")[i] /\ Sizes(ts, "SELL")[i] \in Nat
    BY <1>1, UptoStep
<1>4. 0 <= lo
  <2>1. i - 1 \in 0..n /\ i - 1 \in 0..(i - 1)
      BY <1>1
  <2> QED
      BY <2>1, UptoGrows
<1>5. hi <= u[n]
  <2>1. hi <= u[i]
      BY <1>1 DEF Covered
  <2>2. u[i] <= u[n] /\ u[i] \in Int /\ u[n] \in Int
      BY <1>1, <1>2
  <2> HIDE DEF hi, u, n
  <2> QED
      BY <1>3, <2>1, <2>2
<1>6. \A k \in 1..n : f[k] \in Int /\ f[k] = Most(0, Fewest(u[k], hi) - Most(u[k - 1], lo))
  <2> TAKE k \in 1..n
  <2>1. k \in DOMAIN ts /\ k \in 0..n /\ k - 1 \in 0..n
      BY <1>1
  <2> QED
      BY <2>1, SharedIs
<1>7. f \in [1..n -> Int]
    BY <1>1, <1>6
<1>8. SumFunction(f) = hi - lo
  <2> HIDE DEF u, hi, lo, n
  <2>1. Tiled(n, u, lo, hi, f)
    <3>1. lo <= hi
        BY <1>3
    <3>2. \A k \in 1..n : u[k - 1] <= u[k]
        BY <1>2
    <3>3. \A k \in 1..n : f[k] = Most(0, Fewest(u[k], hi) - Most(u[k - 1], lo))
        BY <1>6
    <3> QED
        BY <1>1, <1>2, <1>3, <1>4, <1>5, <1>7, <3>1, <3>2, <3>3 DEF Tiled
  <2> QED
      BY <2>1, Tiles
<1>9. hi - lo = Sizes(ts, "SELL")[i]
  <2> HIDE DEF lo, hi
  <2> QED
      BY <1>3
<1> QED
    BY <1>1, <1>7, <1>8, <1>9

\* All shares of a lot of a token that is sold out were sold.
LEMMA SharedColumn ==
    ASSUME NEW ts \in Deals, Upto(ts, "BUY", Len(ts)) = Upto(ts, "SELL", Len(ts)),
           NEW j \in DOMAIN ts,
           NEW f, f = [i \in DOMAIN ts |-> Shared(ts, i, j)]
    PROVE  f \in [DOMAIN ts -> Int] /\ SumFunction(f) = Sizes(ts, "BUY")[j]
<1> DEFINE n == Len(ts)
           u == [k \in 0..n |-> Upto(ts, "SELL", k)]
           lo == Upto(ts, "BUY", j - 1)
           hi == Upto(ts, "BUY", j)
<1>1. n \in Nat /\ DOMAIN ts = 1..n /\ j \in 1..n
    BY DealAt
<1>2. /\ u \in [0..n -> Int] /\ u[0] = 0
      /\ \A k \in 1..n : u[k - 1] <= u[k] /\ 0 <= u[k - 1] /\ u[k] <= u[n]
    BY UptoTiles
<1>3. lo \in Int /\ hi \in Int /\ hi = lo + Sizes(ts, "BUY")[j] /\ Sizes(ts, "BUY")[j] \in Nat
    BY <1>1, UptoStep
<1>4. 0 <= lo
  <2>1. j - 1 \in 0..n /\ j - 1 \in 0..(j - 1)
      BY <1>1
  <2> QED
      BY <2>1, UptoGrows
<1>5. hi <= u[n]
  <2>1. n \in 0..n /\ j \in 0..n
      BY <1>1
  <2>2. Upto(ts, "BUY", j) <= Upto(ts, "BUY", n)
      BY <1>1, <2>1, UptoGrows
  <2>3. u[n] = Upto(ts, "BUY", n)
      BY <2>1
  <2> QED
      BY <2>2, <2>3
<1>6. \A k \in 1..n : f[k] \in Int /\ f[k] = Most(0, Fewest(u[k], hi) - Most(u[k - 1], lo))
  <2> TAKE k \in 1..n
  <2>1. k \in DOMAIN ts /\ k \in 0..n /\ k - 1 \in 0..n
      BY <1>1
  <2>2. f[k] \in Int /\ f[k] = Most(0, Fewest(hi, u[k]) - Most(lo, u[k - 1]))
      BY <2>1, SharedIs
  <2>3. u[k] \in Int /\ u[k - 1] \in Int
      BY <1>2, <2>1
  <2> HIDE DEF u, hi, lo
  <2>4. Fewest(hi, u[k]) = Fewest(u[k], hi) /\ Most(lo, u[k - 1]) = Most(u[k - 1], lo)
      BY <1>3, <2>3 DEF Fewest, Most
  <2> QED
      BY <2>2, <2>4
<1>7. f \in [1..n -> Int]
    BY <1>1, <1>6
<1>8. SumFunction(f) = hi - lo
  <2> HIDE DEF u, hi, lo, n
  <2>1. Tiled(n, u, lo, hi, f)
    <3>1. lo <= hi
        BY <1>3
    <3>2. \A k \in 1..n : u[k - 1] <= u[k]
        BY <1>2
    <3>3. \A k \in 1..n : f[k] = Most(0, Fewest(u[k], hi) - Most(u[k - 1], lo))
        BY <1>6
    <3> QED
        BY <1>1, <1>2, <1>3, <1>4, <1>5, <1>7, <3>1, <3>2, <3>3 DEF Tiled
  <2> QED
      BY <2>1, Tiles
<1>9. hi - lo = Sizes(ts, "BUY")[j]
  <2> HIDE DEF lo, hi
  <2> QED
      BY <1>3
<1> QED
    BY <1>1, <1>7, <1>8, <1>9

\* A fill shares nothing with a later one, and a buy nothing with a lot.
LEMMA SharedNone ==
    ASSUME NEW ts \in Deals, Covered(ts), NEW i \in DOMAIN ts, NEW j \in DOMAIN ts,
           i <= j \/ ts[i].side # "SELL"
    PROVE  Shared(ts, i, j) = 0
<1> DEFINE n == Len(ts)
           b0 == Upto(ts, "BUY", j - 1)
           b1 == Upto(ts, "BUY", j)
           s0 == Upto(ts, "SELL", i - 1)
           s1 == Upto(ts, "SELL", i)
<1>1. n \in Nat /\ DOMAIN ts = 1..n /\ i \in 1..n /\ j \in 1..n
    BY DealAt
<1>2. /\ b0 \in Int /\ b1 \in Int /\ b1 = b0 + (IF ts[j].side = "BUY" THEN ts[j].size ELSE 0)
      /\ s0 \in Int /\ s1 \in Int /\ s1 = s0 + (IF ts[i].side = "SELL" THEN ts[i].size ELSE 0)
  <2>1. b0 \in Int /\ b1 \in Int /\ b1 = b0 + Sizes(ts, "BUY")[j]
      BY <1>1, UptoStep
  <2>2. s0 \in Int /\ s1 \in Int /\ s1 = s0 + Sizes(ts, "SELL")[i]
      BY <1>1, UptoStep
  <2>3. /\ Sizes(ts, "BUY")[j] = (IF ts[j].side = "BUY" THEN ts[j].size ELSE 0)
        /\ Sizes(ts, "SELL")[i] = (IF ts[i].side = "SELL" THEN ts[i].size ELSE 0)
      BY DEF Sizes
  <2> HIDE DEF b0, b1, s0, s1
  <2> QED
      BY <2>1, <2>2, <2>3
<1>3. Shared(ts, i, j) = Most(0, Fewest(b1, s1) - Most(b0, s0))
    BY SharedIs
<1>4. CASE ts[i].side # "SELL"
  <2>1. s1 = s0
      BY <1>2, <1>4
  <2> HIDE DEF b0, b1, s0, s1
  <2> QED
      BY <1>2, <1>3, <2>1 DEF Most, Fewest
<1>5. CASE i < j
  <2>1. s1 <= Upto(ts, "BUY", i)
      BY DEF Covered
  <2>2. Upto(ts, "BUY", i) \in Nat /\ Upto(ts, "BUY", i) <= b0
    <3>1. i \in 0..(j - 1) /\ j - 1 \in 0..n
        BY <1>1, <1>5
    <3> QED
        BY <3>1, UptoGrows
  <2>3. s1 <= b0
    <3> HIDE DEF s1, b0
    <3> QED
        BY <1>2, <2>1, <2>2
  <2> HIDE DEF b0, b1, s0, s1
  <2> QED
      BY <1>2, <1>3, <2>3 DEF Most, Fewest
<1>6. CASE i = j /\ ts[i].side = "SELL"
  <2>1. b1 = b0
      BY <1>2, <1>6
  <2> HIDE DEF b0, b1, s0, s1
  <2> QED
      BY <1>2, <1>3, <2>1 DEF Most, Fewest
<1> QED
    BY <1>1, <1>4, <1>5, <1>6

\* What each fill has gained.
Gain(ts) == [i \in DOMAIN ts |-> IF ts[i].side = "SELL" THEN SaleGain(ts, i) ELSE 0]

\* A product of integers is an integer.
LEMMA TimesInt == ASSUME NEW a \in Int, NEW b \in Int PROVE a * b \in Int
OBVIOUS

LEMMA GainIs ==
    ASSUME NEW ts \in Deals, Covered(ts), NEW i \in DOMAIN ts,
           NEW K, K = [j \in DOMAIN ts |-> (ts[i].price - ts[j].price) * Shared(ts, i, j)]
    PROVE  K \in [DOMAIN ts -> Int] /\ Gain(ts)[i] = SumFunction(K)
<1> DEFINE D == DOMAIN ts
           T == 1..(i - 1)
<1>1. IsFiniteSet(D) /\ T \in SUBSET D /\ \A j \in D : ts[j].price \in Nat
  <2>1. D = 1..Len(ts) /\ Len(ts) \in Nat /\ IsFiniteSet(D) /\ \A j \in D : ts[j].price \in Nat
      BY DealAt
  <2> QED
      BY <2>1
<1>2. \A j \in D : Shared(ts, i, j) \in Nat
    BY SharedIs
<1>3. \A j \in D : K[j] = (ts[i].price - ts[j].price) * Shared(ts, i, j) /\ K[j] \in Int
    BY <1>1, <1>2
<1>4. K \in [D -> Int]
    BY <1>3
<1>5. CASE ts[i].side = "SELL"
  <2>1. \A j \in D \ T : K[j] = 0
    <3> TAKE j \in D \ T
    <3>1. i <= j
      <4>1. i \in Int /\ j \in Int /\ j >= 1 /\ D = 1..Len(ts) /\ Len(ts) \in Nat
          BY DealAt
      <4> QED
          BY <4>1
    <3>2. Shared(ts, i, j) = 0
        BY <3>1, SharedNone
    <3>3. ts[i].price - ts[j].price \in Int
        BY <1>1
    <3> QED
        BY <1>3, <3>2, <3>3
  <2>2. SumFunction(K) = SumOn(K, T)
    <3> DEFINE k == K
    <3>1. k \in [D -> Int] /\ \A j \in D \ T : k[j] = 0
        BY <1>4, <2>1
    <3> HIDE DEF k, D, T
    <3>2. SumFunction(k) = SumOn(k, T)
        BY <1>1, <3>1, SumOnly
    <3> QED
        BY <3>2 DEF k
  <2>3. [j \in T |-> K[j]] = [j \in T |-> (ts[i].price - ts[j].price) * Shared(ts, i, j)]
      BY <1>1
  <2>4. SumOn(K, T) = SaleGain(ts, i)
      BY <2>3 DEF SumOn, SaleGain, Shared
  <2>5. Gain(ts)[i] = SaleGain(ts, i)
      BY <1>5 DEF Gain
  <2> QED
      BY <1>4, <2>2, <2>4, <2>5
<1>6. CASE ts[i].side # "SELL"
  <2>1. \A j \in D : K[j] = 0
    <3> TAKE j \in D
    <3>1. Shared(ts, i, j) = 0
        BY <1>6, SharedNone
    <3>2. ts[i].price - ts[j].price \in Int
        BY <1>1
    <3> QED
        BY <1>3, <3>1, <3>2
  <2>2. SumFunction(K) = 0
      BY <1>1, <1>4, <2>1, SumZero
  <2> QED
      BY <1>4, <1>6, <2>2 DEF Gain
<1> QED
    BY <1>5, <1>6

\* A token that is sold out has gained what its sales brought over what its
\* buys cost.
LEMMA SoldOut ==
    ASSUME NEW ts \in Deals, Covered(ts), Upto(ts, "BUY", Len(ts)) = Upto(ts, "SELL", Len(ts)),
           NEW p, p = [i \in DOMAIN ts |-> ts[i].price * Sizes(ts, "SELL")[i]
                                           - ts[i].price * Sizes(ts, "BUY")[i]]
    PROVE  /\ Gain(ts) \in [DOMAIN ts -> Int] /\ p \in [DOMAIN ts -> Int]
           /\ SumFunction(Gain(ts)) = SumFunction(p)
<1> DEFINE D == DOMAIN ts
           F == [i \in D |-> [j \in D |-> ts[j].price * Shared(ts, i, j)]]
           C == [j \in D |-> [i \in D |-> ts[j].price * Shared(ts, i, j)]]
           a1 == [i \in D |-> ts[i].price * Sizes(ts, "SELL")[i]]
           a2 == [i \in D |-> SumFunction(F[i])]
           b2 == [j \in D |-> ts[j].price * Sizes(ts, "BUY")[j]]
           g == Gain(ts)
<1>1. IsFiniteSet(D) /\ \A j \in D : ts[j].price \in Int
    BY DealAt
<1>2. \A i \in D : \A side : Sizes(ts, side)[i] \in Int
    BY DealAt DEF Sizes
<1>3. \A i \in D : \A j \in D : Shared(ts, i, j) \in Int
    BY SharedIs
<1>4. \A i \in D : F[i] \in [D -> Int]
    BY <1>1, <1>3, TimesInt
<1>5. \A j \in D : C[j] \in [D -> Int] /\ \A i \in D : C[j][i] = F[i][j]
    BY <1>1, <1>3, TimesInt
<1>6. a1 \in [D -> Int] /\ b2 \in [D -> Int]
    BY <1>1, <1>2, TimesInt
<1>7. a2 \in [D -> Int] /\ \A i \in D : a2[i] = SumFunction(F[i])
  <2>1. \A i \in D : SumFunction(F[i]) \in Int
    <3> HIDE DEF F
    <3> QED
        BY <1>1, <1>4, SumInt
  <2> QED
      BY <2>1
<1>8. ASSUME NEW i \in D PROVE g[i] = a1[i] - a2[i]
  <2> DEFINE f == [j \in D |-> Shared(ts, i, j)]
             f1 == [j \in D |-> ts[i].price * Shared(ts, i, j)]
             f2 == F[i]
             K == [j \in D |-> (ts[i].price - ts[j].price) * Shared(ts, i, j)]
  <2>1. f \in [D -> Int] /\ SumFunction(f) = Sizes(ts, "SELL")[i]
      BY SharedRow
  <2>2. K \in [D -> Int] /\ g[i] = SumFunction(K)
      BY GainIs
  <2>3. f1 \in [D -> Int] /\ f2 \in [D -> Int] /\ ts[i].price \in Int
      BY <1>1, <1>3, <1>4, TimesInt
  <2>4. ASSUME NEW j \in D PROVE f1[j] = ts[i].price * f[j] /\ K[j] = f1[j] - f2[j]
    <3>1. \A x, y, z \in Int : (x - y) * z = x * z - y * z
        OBVIOUS
    <3>2. (ts[i].price - ts[j].price) * Shared(ts, i, j)
          = ts[i].price * Shared(ts, i, j) - ts[j].price * Shared(ts, i, j)
        BY <1>1, <1>3, <3>1
    <3> QED
        BY <3>2
  <2>5. a1[i] = ts[i].price * Sizes(ts, "SELL")[i] /\ a2[i] = SumFunction(f2)
      OBVIOUS
  <2> HIDE DEF f, f1, f2, K, a1, a2, g, D
  <2>6. SumFunction(f1) = ts[i].price * SumFunction(f)
    <3>1. IsFiniteSet(D) /\ \A j \in D : f1[j] = ts[i].price * f[j]
        BY <1>1, <2>4
    <3>2. Multiple(D, f1, ts[i].price, f)
        BY <2>1, <2>3, <3>1 DEF Multiple
    <3> QED
        BY <3>2, SumScale
  <2>7. SumFunction(K) = SumFunction(f1) - SumFunction(f2)
    <3>1. IsFiniteSet(D) /\ \A j \in D : K[j] = f1[j] - f2[j]
        BY <1>1, <2>4
    <3>2. Difference(D, K, f1, f2)
        BY <2>2, <2>3, <3>1 DEF Difference
    <3> QED
        BY <3>2, SumMinus
  <2> QED
      BY <2>1, <2>2, <2>5, <2>6, <2>7
<1>9. ASSUME NEW j \in D PROVE b2[j] = SumFunction(C[j])
  <2> DEFINE f == [i \in D |-> Shared(ts, i, j)]
             c == C[j]
  <2>1. f \in [D -> Int] /\ SumFunction(f) = Sizes(ts, "BUY")[j]
      BY SharedColumn
  <2>2. c \in [D -> Int] /\ ts[j].price \in Int /\ \A i \in D : c[i] = ts[j].price * f[i]
      BY <1>1, <1>5
  <2>3. b2[j] = ts[j].price * Sizes(ts, "BUY")[j]
      OBVIOUS
  <2> HIDE DEF f, c, b2
  <2>4. SumFunction(c) = ts[j].price * SumFunction(f)
    <3>1. Multiple(D, c, ts[j].price, f)
        BY <1>1, <2>1, <2>2 DEF Multiple
    <3> QED
        BY <3>1, SumScale
  <2> QED
      BY <2>1, <2>3, <2>4 DEF c
<1>10. g \in [D -> Int]
  <2>1. DOMAIN g = D /\ g = [i \in D |-> g[i]]
      BY DEF Gain
  <2>2. \A i \in D : a1[i] \in Int /\ a2[i] \in Int
      BY <1>6, <1>7
  <2> HIDE DEF g, a1, a2
  <2>3. \A i \in D : g[i] \in Int
      BY <1>8, <2>2
  <2> QED
      BY <2>1, <2>3
<1>11. p \in [D -> Int] /\ \A i \in D : p[i] = a1[i] - b2[i]
  <2>1. \A i \in D : p[i] = a1[i] - b2[i]
      OBVIOUS
  <2>2. \A i \in D : a1[i] \in Int /\ b2[i] \in Int
      BY <1>6
  <2>3. p = [i \in D |-> a1[i] - b2[i]]
      OBVIOUS
  <2> HIDE DEF a1, b2
  <2> QED
      BY <2>1, <2>2, <2>3
<1> DEFINE q == p
<1>12. SumFunction(g) = SumFunction(q)
  <2>1. q \in [D -> Int] /\ \A i \in D : q[i] = a1[i] - b2[i]
      BY <1>11
  <2> HIDE DEF F, C, a1, a2, b2, g, q, D
  <2>2. Table(D, D, F, C, a2, b2)
      BY <1>4, <1>5, <1>6, <1>7, <1>9 DEF Table
  <2>3. SumFunction(a2) = SumFunction(b2)
      BY <1>1, <2>2, SumSwap
  <2>4. a1 \in [D -> Int] /\ a2 \in [D -> Int] /\ b2 \in [D -> Int] /\ IsFiniteSet(D)
      BY <1>1, <1>6, <1>7
  <2>5. SumFunction(g) = SumFunction(a1) - SumFunction(a2)
    <3>1. \A i \in D : g[i] = a1[i] - a2[i]
        BY <1>8
    <3>2. Difference(D, g, a1, a2)
        BY <1>10, <2>4, <3>1 DEF Difference
    <3> QED
        BY <3>2, SumMinus
  <2>6. SumFunction(q) = SumFunction(a1) - SumFunction(b2)
    <3>1. \A i \in D : q[i] = a1[i] - b2[i]
        BY <2>1
    <3>2. Difference(D, q, a1, b2)
        BY <2>1, <2>4, <3>1 DEF Difference
    <3> QED
        BY <3>2, SumMinus
  <2> QED
      BY <2>3, <2>5, <2>6
<1> QED
    BY <1>10, <1>11, <1>12

\* What a token adds to the net of a day.
NetOn(ts, d) == Matched(ts)[d]["profit"] - Matched(ts)[d]["loss"] - Matched(ts)[d]["fee"]

\* What each fill adds to the columns of its day.
Profits(ts) == [i \in DOMAIN ts |-> Most(Gain(ts)[i], 0)]
Losses(ts) == [i \in DOMAIN ts |-> Most(-Gain(ts)[i], 0)]
Charges(ts) == [i \in DOMAIN ts |-> ts[i].fee]

LEMMA ColumnsTyped ==
    ASSUME NEW ts \in Deals, Gain(ts) \in [DOMAIN ts -> Int]
    PROVE  /\ Profits(ts) \in [DOMAIN ts -> Int] /\ Losses(ts) \in [DOMAIN ts -> Int]
           /\ Charges(ts) \in [DOMAIN ts -> Int]
           /\ \A i \in DOMAIN ts : Gain(ts)[i] = Profits(ts)[i] - Losses(ts)[i]
<1>1. \A i \in DOMAIN ts : Gain(ts)[i] \in Int /\ ts[i].fee \in Int
    BY DealAt
<1> QED
    BY <1>1 DEF Profits, Losses, Charges, Most

\* Buys add nothing to a column of sales.
LEMMA SalesColumn ==
    ASSUME NEW ts \in Deals, NEW d, NEW f \in [DOMAIN ts -> Int],
           \A i \in DOMAIN ts : ts[i].side # "SELL" => f[i] = 0
    PROVE  SumOn(f, SalesOn(ts, d)) = SumOn(f, FillsOn(ts, d))
<1> DEFINE S == FillsOn(ts, d)
           T == SalesOn(ts, d)
           g == [x \in S |-> f[x]]
<1>1. S \in SUBSET DOMAIN ts /\ T \in SUBSET S /\ \A x \in S \ T : ts[x].side # "SELL"
    BY DEF FillsOn, SalesOn
<1>2. IsFiniteSet(S)
    BY <1>1, DealAt, FS_Subset
<1>3. g \in [S -> Int] /\ \A x \in S \ T : g[x] = 0
    BY <1>1
<1>4. [x \in T |-> g[x]] = [x \in T |-> f[x]]
    BY <1>1
<1>5. SumFunction(g) = SumOn(g, T)
  <2> HIDE DEF S, T, g
  <2> QED
      BY <1>1, <1>2, <1>3, SumOnly
<1> QED
    BY <1>4, <1>5 DEF SumOn

LEMMA MatchedIs ==
    ASSUME NEW ts \in Deals, Gain(ts) \in [DOMAIN ts -> Int], NEW d \in 1..Days
    PROVE  /\ Matched(ts)[d]["profit"] = SumOn(Profits(ts), FillsOn(ts, d))
           /\ Matched(ts)[d]["loss"] = SumOn(Losses(ts), FillsOn(ts, d))
           /\ Matched(ts)[d]["fee"] = SumOn(Charges(ts), FillsOn(ts, d))
<1> DEFINE T == SalesOn(ts, d)
<1>1. \A i \in T : i \in DOMAIN ts /\ ts[i].side = "SELL" /\ Gain(ts)[i] = SaleGain(ts, i)
    BY DEF SalesOn, FillsOn, Gain
<1>2. /\ [i \in T |-> Most(SaleGain(ts, i), 0)] = [i \in T |-> Profits(ts)[i]]
      /\ [i \in T |-> Most(-SaleGain(ts, i), 0)] = [i \in T |-> Losses(ts)[i]]
    BY <1>1 DEF Profits, Losses
<1>3. [i \in FillsOn(ts, d) |-> ts[i].fee] = [i \in FillsOn(ts, d) |-> Charges(ts)[i]]
    BY DEF FillsOn, Charges
<1>4. /\ Matched(ts)[d]["profit"] = SumOn(Profits(ts), T)
      /\ Matched(ts)[d]["loss"] = SumOn(Losses(ts), T)
      /\ Matched(ts)[d]["fee"] = SumOn(Charges(ts), FillsOn(ts, d))
    BY <1>2, <1>3 DEF Matched, SumOn
<1>5. \A i \in DOMAIN ts : ts[i].side # "SELL" => Profits(ts)[i] = 0 /\ Losses(ts)[i] = 0
    BY DEF Profits, Losses, Gain, Most
<1>6. Profits(ts) \in [DOMAIN ts -> Int] /\ Losses(ts) \in [DOMAIN ts -> Int]
    BY ColumnsTyped
<1>7. SumOn(Profits(ts), T) = SumOn(Profits(ts), FillsOn(ts, d))
    BY <1>5, <1>6, SalesColumn
<1>8. SumOn(Losses(ts), T) = SumOn(Losses(ts), FillsOn(ts, d))
    BY <1>5, <1>6, SalesColumn
<1> QED
    BY <1>4, <1>7, <1>8

\* A column of the days adds up to the column of the fills.
LEMMA ByDay ==
    ASSUME NEW ts \in Deals, NEW f \in [DOMAIN ts -> Int],
           NEW A, A = [d \in Dates |-> SumOn(f, FillsOn(ts, d))]
    PROVE  A \in [Dates -> Int] /\ SumFunction(A) = SumFunction(f)
<1> DEFINE e == [i \in DOMAIN ts |-> ts[i].day]
           S == DOMAIN ts
<1>1. e \in [S -> Dates] /\ IsFiniteSet(S) /\ IsFiniteSet(Dates)
    BY DealAt, FS_Interval, ConstantsAssumption DEF Dates
<1>2. A = [d \in Dates |-> SumOn(f, {x \in S : e[x] = d})]
  <2>1. \A d \in Dates : FillsOn(ts, d) = {x \in S : e[x] = d}
      BY DEF FillsOn
  <2> HIDE DEF e
  <2> QED
      BY <2>1
<1> HIDE DEF e, S
<1> QED
    BY <1>1, <1>2, SumGroups DEF S

\* Over the days, a token that is sold out brings the cash that went through it.
LEMMA TokenNet ==
    ASSUME NEW ts \in Deals, Covered(ts), Upto(ts, "BUY", Len(ts)) = Upto(ts, "SELL", Len(ts)),
           NEW A, A = [d \in Dates |-> NetOn(ts, d)]
    PROVE  A \in [Dates -> Int] /\ SumFunction(A) = CashOf(ts)
<1> DEFINE S == DOMAIN ts
           p == [i \in S |-> ts[i].price * Sizes(ts, "SELL")[i] - ts[i].price * Sizes(ts, "BUY")[i]]
           profit == [d \in Dates |-> SumOn(Profits(ts), FillsOn(ts, d))]
           loss == [d \in Dates |-> SumOn(Losses(ts), FillsOn(ts, d))]
           fee == [d \in Dates |-> SumOn(Charges(ts), FillsOn(ts, d))]
           gain == [d \in Dates |-> profit[d] - loss[d]]
           cash == [i \in S |-> Cash(ts[i])]
<1>1. Gain(ts) \in [S -> Int] /\ p \in [S -> Int] /\ SumFunction(Gain(ts)) = SumFunction(p)
  <2> HIDE DEF p
  <2> QED
      BY SoldOut DEF p
<1>2. /\ Profits(ts) \in [S -> Int] /\ Losses(ts) \in [S -> Int] /\ Charges(ts) \in [S -> Int]
      /\ \A i \in S : Gain(ts)[i] = Profits(ts)[i] - Losses(ts)[i]
    BY <1>1, ColumnsTyped
<1>3. profit \in [Dates -> Int] /\ SumFunction(profit) = SumFunction(Profits(ts))
    BY <1>2, ByDay
<1>4. loss \in [Dates -> Int] /\ SumFunction(loss) = SumFunction(Losses(ts))
    BY <1>2, ByDay
<1>5. fee \in [Dates -> Int] /\ SumFunction(fee) = SumFunction(Charges(ts))
    BY <1>2, ByDay
<1>6. IsFiniteSet(Dates) /\ IsFiniteSet(S)
    BY DealAt, FS_Interval, ConstantsAssumption DEF Dates
<1>7. \A d \in Dates : A[d] = gain[d] - fee[d] /\ gain[d] = profit[d] - loss[d]
  <2> TAKE d \in Dates
  <2>1. A[d] = NetOn(ts, d)
      OBVIOUS
  <2>2. /\ Matched(ts)[d]["profit"] = profit[d] /\ Matched(ts)[d]["loss"] = loss[d]
        /\ Matched(ts)[d]["fee"] = fee[d]
      BY <1>1, MatchedIs DEF Dates
  <2>3. gain[d] = profit[d] - loss[d]
      OBVIOUS
  <2> HIDE DEF profit, loss, fee, gain
  <2> QED
      BY <2>1, <2>2, <2>3 DEF NetOn
<1>8. gain \in [Dates -> Int]
  <2> HIDE DEF profit, loss
  <2> QED
      BY <1>3, <1>4
<1>9. A \in [Dates -> Int]
  <2>1. A = [d \in Dates |-> A[d]]
      OBVIOUS
  <2> HIDE DEF gain, fee
  <2>2. \A d \in Dates : gain[d] \in Int /\ fee[d] \in Int
      BY <1>5, <1>8
  <2>3. \A d \in Dates : A[d] \in Int
      BY <1>7, <2>2
  <2> QED
      BY <2>1, <2>3
<1>10. cash \in [S -> Int] /\ \A i \in S : cash[i] = p[i] - Charges(ts)[i]
  <2>1. ASSUME NEW i \in S PROVE cash[i] = p[i] - Charges(ts)[i]
    <3>1. /\ ts[i].price \in Int /\ ts[i].size \in Int /\ ts[i].fee \in Int
          /\ ts[i].side \in {"BUY", "SELL"}
        BY DealAt
    <3>2. \A x, y \in Int : (-x) * y = x * 0 - x * y /\ x * y = x * y - x * 0
        OBVIOUS
    <3>3. /\ Sizes(ts, "SELL")[i] = (IF ts[i].side = "SELL" THEN ts[i].size ELSE 0)
          /\ Sizes(ts, "BUY")[i] = (IF ts[i].side = "BUY" THEN ts[i].size ELSE 0)
        BY DEF Sizes
    <3>4. CASE ts[i].side = "SELL"
      <4>1. Sizes(ts, "SELL")[i] = ts[i].size /\ Sizes(ts, "BUY")[i] = 0
          BY <3>3, <3>4
      <4>2. cash[i] = ts[i].price * ts[i].size - ts[i].fee
          BY <3>4 DEF Cash
      <4>3. p[i] = ts[i].price * ts[i].size
          BY <3>1, <3>2, <4>1
      <4> HIDE DEF cash, p
      <4> QED
          BY <4>2, <4>3 DEF Charges
    <3>5. CASE ts[i].side = "BUY"
      <4>1. Sizes(ts, "SELL")[i] = 0 /\ Sizes(ts, "BUY")[i] = ts[i].size
          BY <3>3, <3>5
      <4>2. cash[i] = (-ts[i].price) * ts[i].size - ts[i].fee
          BY <3>5 DEF Cash
      <4>3. p[i] = (-ts[i].price) * ts[i].size
          BY <3>1, <3>2, <4>1
      <4> HIDE DEF cash, p
      <4> QED
          BY <4>2, <4>3 DEF Charges
    <3> QED
        BY <3>1, <3>4, <3>5
  <2>2. cash = [i \in S |-> cash[i]]
      OBVIOUS
  <2> HIDE DEF cash, p
  <2>3. \A i \in S : p[i] \in Int /\ Charges(ts)[i] \in Int
      BY <1>1, <1>2
  <2>4. \A i \in S : cash[i] \in Int
      BY <2>1, <2>3
  <2> QED
      BY <2>1, <2>2, <2>4
<1> DEFINE a == A
<1>11. SumFunction(a) = SumFunction(cash)
  <2>1. a \in [Dates -> Int] /\ \A d \in Dates : a[d] = gain[d] - fee[d]
      BY <1>7, <1>9
  <2> HIDE DEF S, p, profit, loss, fee, gain, cash, a
  <2>2. Difference(Dates, a, gain, fee)
      BY <1>5, <1>6, <1>8, <2>1 DEF Difference
  <2>3. Difference(Dates, gain, profit, loss)
      BY <1>3, <1>4, <1>6, <1>7, <1>8 DEF Difference
  <2>4. Difference(S, Gain(ts), Profits(ts), Losses(ts))
      BY <1>1, <1>2, <1>6 DEF Difference
  <2>5. Difference(S, cash, p, Charges(ts))
      BY <1>1, <1>2, <1>6, <1>10 DEF Difference
  <2>6. SumFunction(a) = SumFunction(gain) - SumFunction(fee)
      BY <2>2, SumMinus
  <2>7. SumFunction(gain) = SumFunction(profit) - SumFunction(loss)
      BY <2>3, SumMinus
  <2>8. SumFunction(Gain(ts)) = SumFunction(Profits(ts)) - SumFunction(Losses(ts))
      BY <2>4, SumMinus
  <2>9. SumFunction(cash) = SumFunction(p) - SumFunction(Charges(ts))
      BY <2>5, SumMinus
  <2> QED
      BY <1>1, <1>3, <1>4, <1>5, <2>6, <2>7, <2>8, <2>9
<1> QED
    BY <1>9, <1>11 DEF CashOf

\* What is paid for a day.
PaidOn(d) == PaidFor(activity, "REWARD", d) + PaidFor(activity, "MAKER_REBATE", d)

\* Over the days, what was earned is what was paid.
LEMMA PaidByDay ==
    ASSUME WorldInv, NEW A, A = [d \in Dates |-> PaidOn(d)]
    PROVE  A \in [Dates -> Int] /\ SumFunction(A) = Granted
<1> DEFINE S == DOMAIN activity
           h == [i \in S |-> activity[i].amount]
           e == [i \in S |-> EarnedOn(activity[i])]
           on(d) == {x \in S : e[x] = d}
<1>1. /\ \A i \in S : activity[i] \in Payment /\ activity[i].amount \in Int
      /\ IsFiniteSet(S) /\ IsFiniteSet(Dates)
  <2>1. Len(activity) \in Nat /\ S = 1..Len(activity)
      BY LenProperties DEF WorldInv, PaymentsOK
  <2>2. \A i \in S : activity[i] \in Payment
      BY <2>1, ElementOfSeq DEF WorldInv, PaymentsOK
  <2> QED
      BY <2>1, <2>2, FS_Interval, ConstantsAssumption DEF Payment, Dates
<1>2. h \in [S -> Int]
    BY <1>1
<1>3. e \in [S -> Dates]
  <2>1. ASSUME NEW i \in S PROVE EarnedOn(activity[i]) \in Dates
    <3>1. activity[i].day \in Dates /\ (activity[i].type = "REWARD" => activity[i].day > 1)
        BY <1>1 DEF Payment, WorldInv, PaymentsOK
    <3> QED
        BY <3>1, ConstantsAssumption DEF EarnedOn, Dates
  <2> QED
      BY <2>1
<1>4. ASSUME NEW d \in Dates PROVE PaidOn(d) = SumOn(h, on(d))
  <2> DEFINE T == {k \in S : activity[k].type = "REWARD" /\ EarnedOn(activity[k]) = d}
             U == {k \in S : activity[k].type = "MAKER_REBATE" /\ EarnedOn(activity[k]) = d}
             Q == on(d)
             g == [x \in Q |-> h[x]]
  <2>1. Q \in SUBSET S /\ T \in SUBSET Q /\ Q \ T = U
      BY <1>1 DEF Payment
  <2>2. g \in [Q -> Int] /\ IsFiniteSet(Q)
    <3>1. IsFiniteSet(Q)
        BY <1>1, <2>1, FS_Subset
    <3>2. g \in [Q -> Int]
        BY <1>2, <2>1
    <3> QED
        BY <3>1, <3>2
  <2>3. /\ [x \in T |-> g[x]] = [x \in T |-> activity[x].amount]
        /\ [x \in U |-> g[x]] = [x \in U |-> activity[x].amount]
      BY <2>1
  <2>4. SumOn(g, T) = PaidFor(activity, "REWARD", d) /\ SumOn(g, U) = PaidFor(activity, "MAKER_REBATE", d)
      BY <2>3 DEF SumOn, PaidFor
  <2>5. SumFunction(g) = SumOn(g, T) + SumOn(g, Q \ T)
    <3> HIDE DEF Q, T, g
    <3> QED
        BY <2>1, <2>2, SumParts
  <2>6. SumFunction(g) = SumOn(h, Q)
      BY DEF SumOn
  <2> HIDE DEF Q, T, U, g
  <2>7. PaidOn(d) = SumOn(h, Q)
      BY <2>1, <2>4, <2>5, <2>6 DEF PaidOn
  <2> QED
      BY <2>7 DEF Q
<1>5. A = [d \in Dates |-> SumOn(h, {x \in S : e[x] = d})]
    BY <1>4
<1> HIDE DEF S, h, e
<1>6. A \in [Dates -> Int] /\ SumFunction(A) = SumFunction(h)
    BY <1>1, <1>2, <1>3, <1>5, SumGroups
<1> QED
    BY <1>6 DEF h, S, Granted

\* What the tokens add to the net of a day.
TokensNet(d) == SumFunction([t \in Tokens |-> NetOn(trades[t], d)])

\* No merges, and no token is held.
SoldAll == merges = <<>> /\ \A t \in Tokens : Held(t) = 0

LEMMA SoldAllTokens ==
    ASSUME WorldInv, SoldAll, NEW t \in Tokens
    PROVE  /\ trades[t] \in Deals /\ Covered(trades[t])
           /\ Upto(trades[t], "BUY", Len(trades[t])) = Upto(trades[t], "SELL", Len(trades[t]))
           /\ Gain(trades[t]) \in [DOMAIN trades[t] -> Int]
<1> DEFINE ts == trades[t]
           n == Len(ts)
<1>1. ts \in Deals /\ Covered(ts)
    BY DEF WorldInv, TokenOK
<1>2. Upto(ts, "BUY", n) \in Nat /\ Upto(ts, "SELL", n) \in Nat
  <2>1. n \in 0..n /\ n \in 0..Len(ts)
      BY <1>1, DealAt
  <2> QED
      BY <1>1, <2>1, UptoGrows
<1>3. Burnt = 0
  <2> DEFINE f == [i \in DOMAIN merges |-> merges[i].size]
  <2>1. DOMAIN f = {}
      BY DEF SoldAll
  <2> HIDE DEF f
  <2>2. SumFunction(f) = 0
      BY <2>1, SumEmpty
  <2> QED
      BY <2>2 DEF Burnt, f
<1>4. Upto(ts, "BUY", n) - Upto(ts, "SELL", n) - Burnt = 0
    BY DEF SoldAll, Held
<1>5. Upto(ts, "BUY", n) = Upto(ts, "SELL", n)
    BY <1>2, <1>3, <1>4
<1> DEFINE p == [i \in DOMAIN ts |-> ts[i].price * Sizes(ts, "SELL")[i] - ts[i].price * Sizes(ts, "BUY")[i]]
<1> HIDE DEF ts
<1>6. Gain(ts) \in [DOMAIN ts -> Int]
    BY <1>1, <1>5, SoldOut
<1> QED
    BY <1>1, <1>5, <1>6 DEF ts

LEMMA DueNet ==
    ASSUME WorldInv, SoldAll, NEW d \in Dates
    PROVE  /\ DueRow(d)["net"] = PaidOn(d) + TokensNet(d)
           /\ TokensNet(d) \in Int /\ \A t \in Tokens : NetOn(trades[t], d) \in Int
<1> DEFINE profit == [t \in Tokens |-> Matched(trades[t])[d]["profit"]]
           loss == [t \in Tokens |-> Matched(trades[t])[d]["loss"]]
           fee == [t \in Tokens |-> Matched(trades[t])[d]["fee"]]
           gain == [t \in Tokens |-> profit[t] - loss[t]]
           net == [t \in Tokens |-> NetOn(trades[t], d)]
<1>1. ASSUME NEW t \in Tokens
      PROVE  /\ Matched(trades[t])[d]["profit"] \in Int /\ Matched(trades[t])[d]["loss"] \in Int
             /\ Matched(trades[t])[d]["fee"] \in Int
  <2> DEFINE ts == trades[t]
             S == DOMAIN ts
             T == FillsOn(ts, d)
  <2>1. ts \in Deals /\ Gain(ts) \in [S -> Int]
      BY SoldAllTokens
  <2> HIDE DEF ts
  <2>2. IsFiniteSet(S) /\ T \in SUBSET S
      BY <2>1, DealAt DEF FillsOn
  <2>3. Profits(ts) \in [S -> Int] /\ Losses(ts) \in [S -> Int] /\ Charges(ts) \in [S -> Int]
      BY <2>1, ColumnsTyped
  <2>4. SumOn(Profits(ts), T) \in Int /\ SumOn(Losses(ts), T) \in Int /\ SumOn(Charges(ts), T) \in Int
    <3> HIDE DEF S, T
    <3> QED
        BY <2>2, <2>3, SumOnInt
  <2>5. /\ Matched(ts)[d]["profit"] = SumOn(Profits(ts), T)
        /\ Matched(ts)[d]["loss"] = SumOn(Losses(ts), T)
        /\ Matched(ts)[d]["fee"] = SumOn(Charges(ts), T)
      BY <2>1, MatchedIs DEF Dates
  <2> QED
      BY <2>4, <2>5 DEF ts
<1>2. IsFiniteSet(Tokens)
    BY ConstantsAssumption
<1>3. profit \in [Tokens -> Int] /\ loss \in [Tokens -> Int] /\ fee \in [Tokens -> Int]
    BY <1>1
<1>4. \A t \in Tokens : net[t] = gain[t] - fee[t] /\ gain[t] = profit[t] - loss[t]
    BY DEF NetOn
<1>5. gain \in [Tokens -> Int]
  <2> HIDE DEF profit, loss
  <2> QED
      BY <1>3
<1>6. \A t \in Tokens : NetOn(trades[t], d) \in Int
    BY <1>1 DEF NetOn
<1>7. net \in [Tokens -> Int]
    BY <1>6
<1>8. MergedOn(merges, d) = 0
  <2> DEFINE f == [i \in {k \in DOMAIN merges : merges[k].day = d} |-> merges[i].gain]
  <2>1. DOMAIN f = {}
      BY DEF SoldAll
  <2> HIDE DEF f
  <2>2. SumFunction(f) = 0
      BY <2>1, SumEmpty
  <2> QED
      BY <2>2 DEF f, MergedOn
<1>9. DueRow(d)["net"] = PaidFor(activity, "REWARD", d) + PaidFor(activity, "MAKER_REBATE", d)
                         + SumFunction(profit) + MergedOn(merges, d) - SumFunction(loss) - SumFunction(fee)
  <2> DEFINE g == [activity |-> activity, realized |-> [t \in Tokens |-> Matched(trades[t])], merges |-> merges]
  <2>1. /\ g.activity = activity /\ g.merges = merges
        /\ \A t \in Tokens : g.realized[t] = Matched(trades[t])
      OBVIOUS
  <2>2. DueRow(d) = Row(g, d)
      BY DEF DueRow
  <2> HIDE DEF g
  <2>3. /\ [t \in Tokens |-> g.realized[t][d]["profit"]] = profit
        /\ [t \in Tokens |-> g.realized[t][d]["loss"]] = loss
        /\ [t \in Tokens |-> g.realized[t][d]["fee"]] = fee
      BY <2>1
  <2> HIDE DEF profit, loss, fee
  <2> QED
      BY <2>1, <2>2, <2>3 DEF Row
<1>10. PaidFor(activity, "REWARD", d) \in Int /\ PaidFor(activity, "MAKER_REBATE", d) \in Int
  <2> DEFINE h == [i \in DOMAIN activity |-> activity[i].amount]
  <2>1. h \in [DOMAIN activity -> Int] /\ IsFiniteSet(DOMAIN activity)
    <3>1. Len(activity) \in Nat /\ DOMAIN activity = 1..Len(activity)
        BY LenProperties DEF WorldInv, PaymentsOK
    <3>2. \A i \in 1..Len(activity) : activity[i] \in Payment
        BY ElementOfSeq DEF WorldInv, PaymentsOK
    <3> QED
        BY <3>1, <3>2, FS_Interval DEF Payment
  <2>2. ASSUME NEW type PROVE PaidFor(activity, type, d) \in Int
    <3> DEFINE T == {k \in DOMAIN activity : activity[k].type = type /\ EarnedOn(activity[k]) = d}
    <3>1. T \in SUBSET DOMAIN activity /\ [i \in T |-> h[i]] = [i \in T |-> activity[i].amount]
        OBVIOUS
    <3> HIDE DEF h
    <3>2. SumOn(h, T) \in Int
      <4> HIDE DEF T
      <4> QED
          BY <2>1, <3>1, SumOnInt
    <3> QED
        BY <3>1, <3>2 DEF SumOn, PaidFor
  <2> QED
      BY <2>2
<1> HIDE DEF profit, loss, fee, gain
<1>11. SumFunction(net) = SumFunction(gain) - SumFunction(fee)
  <2> HIDE DEF net
  <2>1. Difference(Tokens, net, gain, fee)
      BY <1>2, <1>3, <1>4, <1>5, <1>7 DEF Difference
  <2> QED
      BY <2>1, SumMinus
<1>12. SumFunction(gain) = SumFunction(profit) - SumFunction(loss)
  <2> HIDE DEF net
  <2>1. Difference(Tokens, gain, profit, loss)
      BY <1>2, <1>3, <1>4, <1>5 DEF Difference
  <2> QED
      BY <2>1, SumMinus
<1>13. /\ SumFunction(profit) \in Int /\ SumFunction(loss) \in Int /\ SumFunction(fee) \in Int
       /\ SumFunction(net) \in Int
  <2> HIDE DEF net
  <2> QED
      BY <1>2, <1>3, <1>7, SumInt
<1>14. TokensNet(d) = SumFunction(net)
    BY DEF TokensNet
<1> HIDE DEF net
<1> QED
    BY <1>6, <1>8, <1>9, <1>10, <1>11, <1>12, <1>13, <1>14 DEF PaidOn

\* A quiet day brings nothing.
LEMMA QuietNet ==
    ASSUME WorldInv, SoldAll, NEW d \in Dates, Quiet(d)
    PROVE  DueRow(d)["net"] = 0
<1>1. ASSUME NEW type PROVE PaidFor(activity, type, d) = 0
  <2> DEFINE f == [i \in {k \in DOMAIN activity : activity[k].type = type /\ EarnedOn(activity[k]) = d}
                    |-> activity[i].amount]
  <2>1. DOMAIN f = {}
      BY DEF Quiet
  <2> HIDE DEF f
  <2>2. SumFunction(f) = 0
      BY <2>1, SumEmpty
  <2> QED
      BY <2>2 DEF f, PaidFor
<1>2. ASSUME NEW t \in Tokens PROVE NetOn(trades[t], d) = 0
  <2> DEFINE ts == trades[t]
  <2>1. ts \in Deals /\ Gain(ts) \in [DOMAIN ts -> Int] /\ FillsOn(ts, d) = {}
      BY SoldAllTokens DEF Quiet
  <2> HIDE DEF ts
  <2>2. /\ Matched(ts)[d]["profit"] = SumOn(Profits(ts), {})
        /\ Matched(ts)[d]["loss"] = SumOn(Losses(ts), {})
        /\ Matched(ts)[d]["fee"] = SumOn(Charges(ts), {})
      BY <2>1, MatchedIs DEF Dates
  <2>3. NetOn(ts, d) = 0
      BY <2>2, SumOnEmpty DEF NetOn
  <2> QED
      BY <2>3 DEF ts
<1>3. TokensNet(d) = 0
  <2> DEFINE f == [t \in Tokens |-> NetOn(trades[t], d)]
  <2>1. f \in [Tokens -> Int] /\ \A t \in Tokens : f[t] = 0
      BY <1>2
  <2> HIDE DEF f
  <2>2. SumFunction(f) = 0
      BY <2>1, SumZero, ConstantsAssumption
  <2> QED
      BY <2>2 DEF f, TokensNet
<1>4. PaidOn(d) = 0
    BY <1>1 DEF PaidOn
<1> QED
    BY <1>3, <1>4, DueNet

\* What all days are due adds up to the cash that went through the wallet.
LEMMA DaysAddUp ==
    ASSUME WorldInv, SoldAll, NEW f, f = [d \in Dates |-> DueRow(d)["net"]]
    PROVE  /\ f \in [Dates -> Int]
           /\ SumFunction(f) = SumFunction([t \in Tokens |-> CashOf(trades[t])]) + Granted
<1> DEFINE paid == [d \in Dates |-> PaidOn(d)]
           toks == [d \in Dates |-> TokensNet(d)]
           F == [d \in Dates |-> [t \in Tokens |-> NetOn(trades[t], d)]]
           C == [t \in Tokens |-> [d \in Dates |-> NetOn(trades[t], d)]]
           cash == [t \in Tokens |-> CashOf(trades[t])]
           g == f
<1>1. IsFiniteSet(Dates) /\ IsFiniteSet(Tokens)
    BY FS_Interval, ConstantsAssumption DEF Dates
<1>2. paid \in [Dates -> Int] /\ SumFunction(paid) = Granted
  <2> HIDE DEF paid
  <2> QED
      BY PaidByDay DEF paid
<1>3. /\ toks \in [Dates -> Int]
      /\ \A d \in Dates : toks[d] = SumFunction(F[d]) /\ F[d] \in [Tokens -> Int]
      /\ \A d \in Dates : g[d] = paid[d] + toks[d]
    BY DueNet DEF TokensNet
<1>4. \A t \in Tokens : C[t] \in [Dates -> Int] /\ cash[t] = SumFunction(C[t])
  <2> TAKE t \in Tokens
  <2> DEFINE c == C[t]
  <2>1. /\ trades[t] \in Deals /\ Covered(trades[t])
        /\ Upto(trades[t], "BUY", Len(trades[t])) = Upto(trades[t], "SELL", Len(trades[t]))
      BY SoldAllTokens
  <2>2. c = [d \in Dates |-> NetOn(trades[t], d)] /\ cash[t] = CashOf(trades[t])
      OBVIOUS
  <2> HIDE DEF C, cash, c
  <2>3. c \in [Dates -> Int] /\ SumFunction(c) = CashOf(trades[t])
      BY <2>1, <2>2, TokenNet
  <2> QED
      BY <2>2, <2>3 DEF c
<1>5. \A t \in Tokens : \A d \in Dates : C[t][d] = F[d][t]
    OBVIOUS
<1>6. cash \in [Tokens -> Int]
  <2>1. cash = [t \in Tokens |-> cash[t]]
      OBVIOUS
  <2> HIDE DEF cash, C
  <2>2. \A t \in Tokens : cash[t] \in Int
      BY <1>1, <1>4, SumInt
  <2> QED
      BY <2>1, <2>2
<1>7. g \in [Dates -> Int]
  <2>1. g = [d \in Dates |-> g[d]]
      OBVIOUS
  <2> HIDE DEF g, paid, toks, F
  <2>2. \A d \in Dates : g[d] \in Int
      BY <1>2, <1>3
  <2> QED
      BY <2>1, <2>2
<1>8. SumFunction(g) = SumFunction(cash) + Granted
  <2> HIDE DEF paid, toks, F, C, cash, g
  <2>1. Table(Dates, Tokens, F, C, toks, cash)
      BY <1>3, <1>4, <1>5, <1>6 DEF Table
  <2>2. SumFunction(toks) = SumFunction(cash)
      BY <1>1, <2>1, SumSwap
  <2>3. \A d \in Dates : paid[d] \in Int /\ toks[d] \in Int /\ g[d] \in Int /\ g[d] = paid[d] + toks[d]
      BY <1>2, <1>3, <1>7
  <2>4. \A d \in Dates : paid[d] = g[d] - toks[d]
      BY <2>3
  <2>5. Difference(Dates, paid, g, toks)
      BY <1>1, <1>2, <1>3, <1>7, <2>4 DEF Difference
  <2>6. SumFunction(paid) = SumFunction(g) - SumFunction(toks)
      BY <2>5, SumMinus
  <2>7. SumFunction(g) \in Int /\ SumFunction(toks) \in Int /\ SumFunction(paid) \in Int
      BY <1>1, <1>2, <1>3, <1>7, SumInt
  <2> QED
      BY <1>2, <2>2, <2>6, <2>7
<1> QED
    BY <1>7, <1>8

\* A wallet that has sold all it bought finds in its rows the cash that went
\* through it, fees deducted, and what it was granted: no share's profit is
\* booked twice, on no day or at the price of another lot.
THEOREM SoldIsCash == Spec => []FlatIsCash
<1>1. RInv => FlatIsCash
  <2> SUFFICES ASSUME RInv, merges = <<>>, \A t \in Tokens : Held(t) = 0,
                      \A d \in 1..Days : Settled(d) \/ Quiet(d)
               PROVE  NetSum = SumFunction([t \in Tokens |-> CashOf(trades[t])]) + Granted
      BY DEF FlatIsCash
  <2> DEFINE f == [d \in Dates |-> DueRow(d)["net"]]
             D == DOMAIN rows
  <2>1. WorldInv /\ SoldAll /\ RowsInv /\ NoDayMissing /\ Typed
      BY DEF RInv, PInv, Right, SoldAll
  <2>2. /\ f \in [Dates -> Int]
        /\ SumFunction(f) = SumFunction([t \in Tokens |-> CashOf(trades[t])]) + Granted
      BY <2>1, DaysAddUp
  <2>3. D \in SUBSET Dates
      BY <2>1 DEF RowsInv
  <2>4. \A d \in D : rows[d] = DueRow(d)
    <3> TAKE d \in D
    <3>1. d \in Dates /\ (Settled(d) \/ Quiet(d))
        BY <2>3 DEF Dates
    <3>2. Quiet(d) => Still(d)
        BY DEF Still
    <3> QED
        BY <2>1, <3>1, <3>2 DEF RowsInv
  <2>5. \A d \in Dates \ D : f[d] = 0
    <3> TAKE d \in Dates \ D
    <3>1. Quiet(d)
      <4>1. Settled(d) => d \in 1..last
          BY <2>1 DEF Settled, Dates, Typed
      <4> QED
          BY <2>1, <4>1 DEF NoDayMissing, Dates
    <3> QED
        BY <2>1, <3>1, QuietNet
  <2>6. [d \in D |-> rows[d].net] = [d \in D |-> f[d]]
      BY <2>3, <2>4
  <2> HIDE DEF f, D
  <2>7. SumFunction(f) = SumOn(f, D)
    <3>1. IsFiniteSet(Dates)
        BY FS_Interval, ConstantsAssumption DEF Dates
    <3> QED
        BY <2>2, <2>3, <2>5, <3>1, SumOnly
  <2>8. NetSum = SumOn(f, D)
      BY <2>6 DEF NetSum, SumOn, D
  <2> QED
      BY <2>2, <2>7, <2>8
<1> QED
    BY <1>1, InitRInv, NextRInv, PTL DEF Spec

=============================================================================
