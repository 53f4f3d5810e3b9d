--------------------------- MODULE ExitTick_proofs ---------------------------
(***************************************************************************)
(* What holds of the exits of a tick for any positions, books, templates   *)
(* and bounds: a position has one sell at most, a sell the tick reports is *)
(* one it has not taken off itself, what is sold was held, liquidations    *)
(* stop at their target, no sell rests below cost, and a tick that nothing *)
(* disturbs leaves no position behind.                                     *)
(***************************************************************************)
EXTENDS ExitTick, Sums

-----------------------------------------------------------------------------
\* New ids

LEMMA IdsFinite ==
    ASSUME NEW S, IsFiniteSet(S) PROVE IsFiniteSet(IdsOf(S))
<1> DEFINE f == [o \in S |-> o.id]
<1>1. f \in Surjection(S, IdsOf(S))
    BY DEF Surjection, IdsOf
<1> QED
    BY <1>1, FS_Surjection

LEMMA ImageFinite ==
    ASSUME NEW f PROVE IsFiniteSet({f[p] : p \in Positions})
<1> DEFINE T == {f[p] : p \in Positions}
           g == [p \in Positions |-> f[p]]
<1>1. g \in Surjection(Positions, T)
    BY DEF Surjection
<1> QED
    BY <1>1, FS_Surjection, ConstantsAssumption

LEMMA Untaken ==
    ASSUME NEW used, IsFiniteSet(used)
    PROVE  \E id \in 1..(Cardinality(used) + 1) : id \notin used
<1> DEFINE n == Cardinality(used)
<1>1. n \in Nat
    BY FS_CardinalityType
<1>2. Cardinality(1..(n + 1)) = n + 1
  <2>1. 1 \in Int /\ n + 1 \in Int /\ ~(1 > n + 1) /\ (n + 1) - 1 + 1 = n + 1
    BY <1>1
  <2> QED
    BY <2>1, FS_Interval
<1>3. ASSUME 1..(n + 1) \subseteq used PROVE FALSE
  <2>1. Cardinality(1..(n + 1)) <= n
    BY <1>3, FS_Subset
  <2> QED
    BY <1>1, <1>2, <2>1
<1> QED
    BY <1>3

\* What the tick remembers is finite.
Finite ==
    /\ IsFiniteSet(orders) /\ IsFiniteSet(view)
    /\ IsFiniteSet(cancelled) /\ IsFiniteSet(pulled) /\ IsFiniteSet(deaf)
    /\ snapshot = Unread \/ IsFiniteSet(snapshot)

\* A sell that is placed has an id that nobody remembers.
LEMMA NewIdIsNew ==
    ASSUME Finite
    PROVE  /\ NewId \in Nat \ {0}
           /\ NewId \notin IdsOf(orders) /\ NewId \notin IdsOf(view)
           /\ NewId \notin cancelled /\ NewId \notin pulled /\ NewId \notin deaf
           /\ \A p \in Positions : managed[p] # NewId
<1> DEFINE reported == {row[p].id : p \in Positions}
           kept == {managed[p] : p \in Positions}
           used == IdsOf(orders) \union IdsOf(view) \union cancelled \union pulled
                       \union deaf \union reported \union kept
<1>1. IsFiniteSet(IdsOf(orders)) /\ IsFiniteSet(IdsOf(view))
    BY IdsFinite DEF Finite
<1>2. IsFiniteSet(kept)
    BY ImageFinite
<1>3. IsFiniteSet(reported)
  <2> DEFINE f == [p \in Positions |-> row[p].id]
  <2>1. reported = {f[p] : p \in Positions}
    OBVIOUS
  <2> QED
    BY <2>1, ImageFinite
<1>4. IsFiniteSet(used)
  <2> HIDE DEF reported, kept
  <2> QED
    BY <1>1, <1>2, <1>3, FS_Union DEF Finite
<1>5. NewId \in 1..(Cardinality(used) + 1) /\ NewId \notin used
  <2>1. NewId = CHOOSE id \in 1..(Cardinality(used) + 1) : id \notin used
    BY DEF NewId
  <2> HIDE DEF used
  <2> QED
    BY <1>4, <2>1, Untaken
<1>6. NewId \in Nat \ {0}
  <2> HIDE DEF used
  <2>1. Cardinality(used) \in Nat
    BY <1>4, FS_CardinalityType
  <2> QED
    BY <1>5, <2>1
<1> QED
    BY <1>5, <1>6

-----------------------------------------------------------------------------
\* Sells and their ids

\* The sells the tick knows of, in whatever state it read them.
Sells == orders \union view \union (IF snapshot = Unread THEN {} ELSE snapshot)

SellsOK ==
    /\ DOMAIN row = Positions /\ DOMAIN managed = Positions /\ template \in Templates
    /\ Finite
    /\ pc \in {"liquidate", "each"} => snapshot \in {Unread, view}
    /\ \A o \in orders : {"id", "pos", "price"} \subseteq DOMAIN o
    /\ \A o1, o2 \in orders : o1.id = o2.id => o1 = o2
    /\ \A o1, o2 \in Sells : o1.id = o2.id => o1.pos = o2.pos /\ o1.price = o2.price
    /\ \A p \in Positions : \A o \in Sells :
           o.id = managed[p] => managed[p] = 0 \/ o.pos = p

\* What a step of the tick does to the sells of a position: it asks to cancel
\* some, and may rest a new one.
Asks(p, ids, answer) ==
    /\ pc \in {"liquidate", "each"} /\ UNCHANGED <<pc, template, snapshot, view>>
    /\ ids \subseteq IdsOf(SellsOf(p, view)) /\ answer \in CancelAnswers
    /\ Cancel(ids, answer)
    /\ cancelled \subseteq cancelled'
    /\ cancelled' \subseteq cancelled \union (IF answer = "error" THEN {} ELSE ids)
    /\ DOMAIN row' = Positions /\ DOMAIN managed' = Positions
    /\ \A q \in Positions \ {p} : row'[q] = row[q] /\ managed'[q] = managed[q]
    /\ managed'[p] \in {0, managed[p], NewId}
\* The sell o is new, and takes the place of all the others of the position,
\* unless the router rests it.
Rests(p, ids, answer, o) ==
    /\ o.id = NewId /\ o.pos = p /\ {"id", "pos", "price"} \subseteq DOMAIN o
    /\ orders' = After(ids, answer) \union {o}
    /\ template.router \/ (answer # "error" /\ ids = IdsOf(OwnSells(p)))
Sends(p, ids, answer) ==
    \/ orders' = After(ids, answer)
    \/ \E o : Rests(p, ids, answer, o)

LEMMA AskedFinite ==
    ASSUME SellsOK, NEW p, NEW ids, NEW answer, Asks(p, ids, answer)
    PROVE  IsFiniteSet(ids) /\ IsFiniteSet(cancelled') /\ IsFiniteSet(pulled') /\ IsFiniteSet(deaf')
<1>1. IsFiniteSet(IdsOf(SellsOf(p, view)))
  <2>1. SellsOf(p, view) \subseteq view
    BY DEF SellsOf
  <2>2. IsFiniteSet(SellsOf(p, view))
    BY <2>1, FS_Subset DEF SellsOK, Finite
  <2> QED
    BY <2>2, IdsFinite
<1>2. IsFiniteSet(ids)
    BY <1>1, FS_Subset DEF Asks
<1>3. IsFiniteSet(cancelled \union ids) /\ IsFiniteSet(pulled \union ids) /\ IsFiniteSet(deaf \union ids)
    BY <1>2, FS_Union DEF SellsOK, Finite
<1>4. cancelled' \subseteq cancelled \union ids /\ pulled' \subseteq pulled \union ids
      /\ deaf' \subseteq deaf \union ids
    BY DEF Asks, Cancel
<1> QED
    BY <1>2, <1>3, <1>4, FS_Subset

LEMMA AfterLess == ASSUME NEW ids, NEW answer PROVE After(ids, answer) \subseteq orders
    BY DEF After

LEMMA AskedSells ==
    ASSUME SellsOK, NEW p \in Positions, NEW ids, NEW answer,
           Asks(p, ids, answer), Sends(p, ids, answer)
    PROVE  SellsOK'
<1> DEFINE new == NewId
<1>0. /\ new # 0 /\ new \notin IdsOf(orders) /\ new \notin IdsOf(view)
      /\ \A q \in Positions : managed[q] # new
    BY NewIdIsNew DEF SellsOK
<1> HIDE DEF new
<1>1. PICK added : /\ orders' \subseteq orders \union added
                   /\ added = {} \/ \E o : /\ added = {o} /\ o.id = new /\ o.pos = p
                                           /\ {"id", "pos", "price"} \subseteq DOMAIN o
  <2>1. CASE orders' = After(ids, answer)
    BY <2>1, AfterLess
  <2>2. CASE \E o : Rests(p, ids, answer, o)
    <3>1. PICK o : Rests(p, ids, answer, o)
        BY <2>2
    <3>2. orders' \subseteq orders \union {o}
        BY <3>1, AfterLess DEF Rests
    <3> QED
        BY <3>1, <3>2 DEF Rests, new
  <2> QED
    BY <2>1, <2>2 DEF Sends
<1>2. IsFiniteSet(orders')
  <2>1. IsFiniteSet(added)
    <3>1. CASE added = {}
        BY <3>1, FS_EmptySet
    <3>2. ASSUME NEW o, added = {o} PROVE IsFiniteSet(added)
        BY <3>2, FS_Singleton
    <3> QED
        BY <1>1, <3>1, <3>2
  <2>2. IsFiniteSet(orders \union added)
    BY <2>1, FS_Union DEF SellsOK, Finite
  <2> QED
    BY <1>1, <2>2, FS_Subset
<1>3. Finite'
    BY <1>2, AskedFinite DEF SellsOK, Finite, Asks
<1>4. \A o \in orders' : {"id", "pos", "price"} \subseteq DOMAIN o
    BY <1>1 DEF SellsOK
<1>5. \A o1, o2 \in orders' : o1.id = o2.id => o1 = o2
    BY <1>0, <1>1 DEF SellsOK, IdsOf
<1>6. Sells' \subseteq Sells \union added
    BY <1>1 DEF Sells, Asks
<1>7. \A o \in added, x \in Sells : o.id # x.id
  <2>1. Sells \subseteq orders \union view
    BY DEF Sells, Asks, SellsOK
  <2> QED
    BY <1>0, <1>1, <2>1 DEF IdsOf
<1>8. \A o1, o2 \in Sells' : o1.id = o2.id => o1.pos = o2.pos /\ o1.price = o2.price
    BY <1>1, <1>6, <1>7 DEF SellsOK
<1>9. ASSUME NEW q \in Positions, NEW o \in Sells', o.id = managed'[q]
      PROVE  managed'[q] = 0 \/ o.pos = q
  <2>1. CASE managed'[q] = managed[q]
    <3>1. CASE o \in Sells
        BY <1>9, <2>1, <3>1 DEF SellsOK
    <3>2. CASE o \in added
        BY <1>0, <1>1, <1>9, <2>1, <3>2
    <3> QED
        BY <1>6, <3>1, <3>2
  <2>2. CASE managed'[q] = new /\ q = p
    <3>1. \A x \in orders \union view : x.id # new
        BY <1>0 DEF IdsOf
    <3>2. Sells \subseteq orders \union view
        BY DEF Sells, Asks, SellsOK
    <3> QED
        BY <1>1, <1>6, <1>9, <2>2, <3>1, <3>2
  <2> QED
    BY <2>1, <2>2 DEF Asks, new
<1>10. /\ DOMAIN row' = Positions /\ DOMAIN managed' = Positions /\ template' \in Templates
       /\ snapshot' \in {Unread, view'}
    BY DEF Asks, SellsOK
<1> QED
    BY <1>3, <1>4, <1>5, <1>8, <1>9, <1>10 DEF SellsOK

-----------------------------------------------------------------------------
\* One sell of a position

\* What the tick has cancelled is gone, or the CLOB did not do as it answered.
CancelledGone == \A x \in cancelled : x \in deaf \/ \A o \in orders : o.id # x

\* The open orders the tick shares show every sell it has yet to deal with.
AllSeen ==
    /\ pc \in {"low", "liquidate", "exit"} /\ snapshot # Unread =>
           \A o \in orders : \E x \in snapshot : x.id = o.id
    /\ pc = "each" => \A o \in orders : o.pos \in DOMAIN todo => \E x \in view : x.id = o.id

AtMostOne ==
    ~template.router => \A o1, o2 \in orders :
        o1.pos = o2.pos /\ o1.id \notin deaf /\ o2.id \notin deaf => o1.id = o2.id

OneInv == SellsOK /\ CancelledGone /\ AllSeen /\ AtMostOne

\* Where a step leaves the ids of the sells that rest as they are, or fewer.
Fewer == \A o \in orders' : \E x \in orders : x.id = o.id /\ x.pos = o.pos

LEMMA AskedGone ==
    ASSUME SellsOK, CancelledGone, NEW p, NEW ids, NEW answer, Asks(p, ids, answer),
           Sends(p, ids, answer)
    PROVE  CancelledGone'
<1>0. deaf \subseteq deaf'
    BY DEF Asks, Cancel
<1>1. ASSUME NEW x \in cancelled', NEW o \in After(ids, answer), o.id = x PROVE x \in deaf'
  <2>1. CASE x \in cancelled
    BY <1>0, <1>1, <2>1, AfterLess DEF CancelledGone
  <2>2. CASE answer # "error" /\ x \in ids
    BY <1>1, <2>2 DEF Asks, Cancel, CancelAnswers, After
  <2> QED
    BY <2>1, <2>2 DEF Asks
<1>2. NewId \notin cancelled /\ NewId \notin IdsOf(view)
    BY NewIdIsNew DEF SellsOK
<1>3. IdsOf(SellsOf(p, view)) \subseteq IdsOf(view)
    BY DEF IdsOf, SellsOf
<1>4. NewId \notin cancelled'
    BY <1>2, <1>3 DEF Asks
<1>5. ASSUME NEW x \in cancelled', NEW o \in orders', o.id = x PROVE x \in deaf'
  <2>1. o \in After(ids, answer) \/ o.id = NewId
    BY DEF Sends, Rests
  <2> QED
    BY <1>1, <1>4, <1>5, <2>1
<1> QED
    BY <1>5 DEF CancelledGone

\* A position's turn leaves the others' sells as the view shows them, and its own
\* replaced by the one it rests.
LEMMA TurnOneInv ==
    ASSUME OneInv, NEW p \in Positions, NEW ids, NEW answer, Asks(p, ids, answer),
           Sends(p, ids, answer), pc = "each", p \in DOMAIN todo, DOMAIN todo' = DOMAIN todo \ {p}
    PROVE  OneInv'
<1>1. SellsOK' /\ CancelledGone'
    BY AskedSells, AskedGone DEF OneInv
<1>2. ASSUME NEW o \in orders' PROVE o \in orders \/ o.pos = p
    BY AfterLess DEF Sends, Rests
<1>3. AllSeen'
    BY <1>2 DEF OneInv, AllSeen, Asks
<1>4. deaf \subseteq deaf'
    BY DEF Asks, Cancel
<1>5. ASSUME ~template.router, NEW o, Rests(p, ids, answer, o), NEW x \in After(ids, answer),
             x.pos = p, x.id \notin deaf'
      PROVE  FALSE
  <2>1. x \in orders
    BY AfterLess
  <2>2. PICK v \in view : v.id = x.id
    BY <1>5, <2>1 DEF OneInv, AllSeen
  <2>3. v.pos = p
    BY <1>5, <2>1, <2>2 DEF OneInv, SellsOK, Sells
  <2>4. x.id \notin cancelled
    BY <1>4, <1>5, <2>1 DEF OneInv, CancelledGone
  <2>5. x.id \in ids /\ answer # "error"
    BY <1>5, <2>2, <2>3, <2>4 DEF Rests, OwnSells, SellsOf, IdsOf
  <2> QED
    BY <1>5, <2>5 DEF Asks, Cancel, CancelAnswers, After
<1>6. AtMostOne'
  <2>1. CASE template.router
    BY <2>1 DEF AtMostOne, Asks
  <2>2. CASE ~template.router /\ orders' = After(ids, answer)
    BY <1>4, <2>2, AfterLess DEF OneInv, AtMostOne, Asks
  <2>3. ASSUME ~template.router, NEW o, Rests(p, ids, answer, o) PROVE AtMostOne'
    <3>1. orders' = After(ids, answer) \union {o} /\ o.pos = p
        BY <2>3 DEF Rests
    <3>2. \A x \in After(ids, answer) : x.pos = p => x.id \in deaf'
        BY <1>5, <2>3
    <3> QED
        BY <1>4, <2>3, <3>1, <3>2, AfterLess DEF OneInv, AtMostOne
  <2> QED
    BY <2>1, <2>2, <2>3 DEF Sends
<1> QED
    BY <1>1, <1>3, <1>6 DEF OneInv

-----------------------------------------------------------------------------
\* The turns of check_exit

\* What the row of the position says after its turn.
Tells(p) ==
    \/ row'[p].id = 0 \/ row'[p] = row[p] \/ row'[p].id = NewId
    \/ pulled' = pulled /\ row'[p].is = "waits" /\ row'[p].id = managed[p]
    \/ pulled' = pulled /\ \E o \in OwnSells(p) : row'[p].id = o.id
Turn(p) == \E ids, answer : Asks(p, ids, answer) /\ Sends(p, ids, answer) /\ Tells(p)

LEMMA NothingAsked ==
    ASSUME SellsOK, NEW p \in Positions, pc = "each", UNCHANGED <<pc, template, snapshot, view>>,
           Untouched, NEW is, NEW id, Report(p, is, id),
           id = 0 \/ (is = "waits" /\ id = managed[p]) \/ \E o \in OwnSells(p) : id = o.id
    PROVE  Turn(p)
<1> DEFINE none == {}
<1>1. Asks(p, none, "done")
    BY DEF SellsOK, Asks, Cancel, CancelAnswers, Untouched, Report
<1>2. Sends(p, none, "done")
  <2>1. After(none, "done") = orders
    BY DEF After
  <2> QED
    BY <2>1 DEF Sends, Untouched
<1>3. row'[p].id = id /\ row'[p].is = is
    BY DEF Report, SellsOK
<1>4. Tells(p)
    BY <1>3 DEF Tells, Untouched
<1> QED
    BY <1>1, <1>2, <1>4 DEF Turn

LEMMA OwnAmong == ASSUME NEW p PROVE IdsOf(OwnSells(p)) \subseteq IdsOf(SellsOf(p, view))
    BY DEF OwnSells, IdsOf

\* A dump asks for the own sells and reports no sell.
LEMMA DumpAsks ==
    ASSUME SellsOK, NEW p \in Positions, NEW cancel \in CancelAnswers, NEW sale, NEW fill,
           pc \in {"liquidate", "each"}, MarketDump(p, cancel, sale, fill),
           UNCHANGED <<pc, template, snapshot, view, managed>>
    PROVE  /\ Asks(p, IdsOf(OwnSells(p)), cancel) /\ orders' = After(IdsOf(OwnSells(p)), cancel)
           /\ row'[p].id = 0 /\ \A q \in Positions \ {p} : row'[q] = row[q]
<1> DEFINE ids == IdsOf(OwnSells(p))
<1>1. ids \subseteq IdsOf(SellsOf(p, view))
    BY OwnAmong
<1>2. /\ Cancel(ids, cancel) /\ orders' = After(ids, cancel)
      /\ cancelled' = IF cancel = "error" THEN cancelled ELSE cancelled \union ids
    BY DEF MarketDump
<1>3. DOMAIN row' = Positions /\ row'[p].id = 0 /\ \A q \in Positions \ {p} : row'[q] = row[q]
    BY DEF MarketDump, Report, SellsOK
<1> HIDE DEF ids
<1>4. Asks(p, ids, cancel)
    BY <1>1, <1>2, <1>3 DEF Asks, SellsOK
<1> QED
    BY <1>2, <1>3, <1>4 DEF ids

LEMMA ResolveTurns == ASSUME SellsOK, NEW p \in Positions, Resolve(p) PROVE Turn(p)
<1>1. pc = "each" /\ UNCHANGED <<pc, template, snapshot, view>>
    BY DEF Resolve, Looks
<1>2. CASE Report(p, "nobid", 0) /\ Untouched
    BY <1>1, <1>2, NothingAsked
<1>3. ASSUME NEW cancel \in CancelAnswers, NEW sale, NEW fill,
             MarketDump(p, cancel, sale, fill), UNCHANGED managed
      PROVE  Turn(p)
    BY <1>1, <1>3, DumpAsks DEF Turn, Sends, Tells
<1> QED
    BY <1>2, <1>3 DEF Resolve

LEMMA QuietTurns ==
    ASSUME SellsOK, NEW p \in Positions, Naked(p) \/ DeadBook(p) \/ Keep(p) \/ MakerWaits(p)
    PROVE  Turn(p)
<1>1. pc = "each" /\ UNCHANGED <<pc, template, snapshot, view>> /\ Untouched
    BY DEF Naked, DeadBook, Keep, MakerWaits, Decides, Routes, Looks
<1>2. CASE Naked(p)
    BY <1>1, <1>2, NothingAsked DEF Naked
<1>3. CASE DeadBook(p)
    BY <1>1, <1>3, NothingAsked DEF DeadBook
<1>4. CASE Keep(p)
  <2>1. PICK o \in OwnSells(p) : Report(p, "keep", o.id)
    BY <1>4 DEF Keep
  <2> QED
    BY <1>1, <2>1, NothingAsked
<1>5. CASE MakerWaits(p)
    BY <1>1, <1>5, NothingAsked DEF MakerWaits, Routes
<1> QED
    BY <1>2, <1>3, <1>4, <1>5

\* A sell that is sent: it rests, or the open orders are as the cancel left them.
LEMMA PlacedRests ==
    ASSUME NEW p, NEW ids, NEW answer, NEW price, NEW size, NEW sale,
           orders' = Placed(p, price, size, After(ids, answer), sale),
           template.router \/ (answer # "error" /\ ids = IdsOf(OwnSells(p)))
    PROVE  Sends(p, ids, answer)
<1> DEFINE o == [id |-> NewId, pos |-> p, price |-> price, left |-> size]
<1>1. orders' = After(ids, answer) \/ orders' = After(ids, answer) \union {o}
    BY DEF Placed
<1>2. o.id = NewId /\ o.pos = p /\ {"id", "pos", "price"} \subseteq DOMAIN o
    OBVIOUS
<1> HIDE DEF o
<1> QED
    BY <1>1, <1>2 DEF Sends, Rests

LEMMA RestTurns == ASSUME SellsOK, NEW p \in Positions, Rest(p) PROVE Turn(p)
<1> DEFINE ids == IdsOf(OwnSells(p))
<1>1. pc = "each" /\ UNCHANGED <<pc, template, snapshot, view>> /\ UNCHANGED <<managed, cancelled>>
    BY DEF Rest, Decides, Looks
<1>2. PICK cancel \in CancelAnswers, sale \in SaleAnswers :
        /\ Cancel(ids, cancel)
        /\ \/ cancel = "error" /\ orders' = After(ids, cancel) /\ UNCHANGED row
           \/ /\ cancel # "error"
              /\ orders' = Placed(p, RestPrice(p), todo[p], After(ids, cancel), sale)
              /\ Report(p, "rest", NewId) \/ Report(p, "naked", 0)
    BY DEF Rest, Replaced
<1>3. ids \subseteq IdsOf(SellsOf(p, view))
    BY OwnAmong
<1>4. Sends(p, ids, cancel)
  <2>1. CASE orders' = After(ids, cancel)
    BY <2>1 DEF Sends
  <2> QED
    BY <1>2, <2>1, PlacedRests
<1>5. DOMAIN row' = Positions /\ (row'[p] = row[p] \/ row'[p].id \in {0, NewId})
      /\ \A q \in Positions \ {p} : row'[q] = row[q]
    BY <1>2 DEF Report, SellsOK
<1> HIDE DEF ids
<1>6. Asks(p, ids, cancel)
    BY <1>1, <1>2, <1>3, <1>5 DEF Asks, SellsOK
<1> QED
    BY <1>4, <1>5, <1>6 DEF Turn, Tells

LEMMA SellNowTurns == ASSUME SellsOK, NEW p \in Positions, SellNow(p) PROVE Turn(p)
<1> DEFINE ids == IdsOf(OwnSells(p))
<1>1. pc = "each" /\ UNCHANGED <<pc, template, snapshot, view>> /\ UNCHANGED <<managed, cancelled>>
    BY DEF SellNow, Decides, Looks
<1>2. PICK cancel \in CancelAnswers : /\ Cancel(ids, cancel) /\ orders' = After(ids, cancel)
                                      /\ Report(p, "sold", 0) \/ Report(p, "naked", 0)
    BY DEF SellNow
<1>3. ids \subseteq IdsOf(SellsOf(p, view))
    BY OwnAmong
<1>4. DOMAIN row' = Positions /\ row'[p].id = 0 /\ \A q \in Positions \ {p} : row'[q] = row[q]
    BY <1>2 DEF Report, SellsOK
<1> HIDE DEF ids
<1>5. Asks(p, ids, cancel)
    BY <1>1, <1>2, <1>3, <1>4 DEF Asks, SellsOK
<1> QED
    BY <1>2, <1>4, <1>5 DEF Turn, Tells, Sends

LEMMA MakerRestsTurns == ASSUME SellsOK, NEW p \in Positions, MakerRests(p) PROVE Turn(p)
<1> DEFINE ids == IdsOf(SellsOf(p, view))
<1>1. pc = "each" /\ UNCHANGED <<pc, template, snapshot, view>> /\ template.router
    BY DEF MakerRests, Routes, Looks
<1>2. CASE Report(p, "noask", 0) /\ Untouched
    BY <1>1, <1>2, NothingAsked
<1>3. ASSUME NEW cancel \in CancelAnswers, NEW sale, Cancel(ids, cancel), UNCHANGED cancelled,
             \/ orders' = After(ids, cancel)
             \/ orders' = Placed(p, BestAsk(quote[p]), todo[p], After(ids, cancel), sale),
             \/ Report(p, "maker", NewId) /\ managed' = [managed EXCEPT ![p] = NewId]
             \/ Report(p, "unsold", 0) /\ UNCHANGED managed
      PROVE  Turn(p)
  <2>1. Sends(p, ids, cancel)
    <3>1. CASE orders' = After(ids, cancel)
        BY <3>1 DEF Sends
    <3> QED
        BY <1>1, <1>3, <3>1, PlacedRests
  <2>2. /\ DOMAIN row' = Positions /\ row'[p].id \in {0, NewId}
        /\ \A q \in Positions \ {p} : row'[q] = row[q]
    BY <1>3 DEF Report, SellsOK
  <2>3. /\ DOMAIN managed' = Positions /\ managed'[p] \in {0, managed[p], NewId}
        /\ \A q \in Positions \ {p} : managed'[q] = managed[q]
    BY <1>3 DEF SellsOK
  <2> HIDE DEF ids
  <2>4. ids \subseteq IdsOf(SellsOf(p, view))
    BY DEF ids
  <2>5. Asks(p, ids, cancel)
    BY <1>1, <1>3, <2>2, <2>3, <2>4 DEF Asks
  <2> QED
    BY <2>1, <2>2, <2>5 DEF Turn, Tells
<1> QED
    BY <1>2, <1>3 DEF MakerRests

LEMMA CompareTurns == ASSUME SellsOK, NEW p \in Positions, Compare(p) PROVE Turn(p)
<1>1. pc = "each" /\ UNCHANGED <<pc, template, snapshot, view>> /\ UNCHANGED cancelled
    BY DEF Compare, Routes, Looks
<1>2. PICK cancel \in CancelAnswers, ids \in {IdsOf(SellsOf(p, view)), {}} :
        /\ Cancel(ids, cancel) /\ orders' = After(ids, cancel)
        /\ managed' = managed \/ managed' = [managed EXCEPT ![p] = 0]
        /\ Report(p, "sold", 0) \/ Report(p, "unsold", 0)
    BY DEF Compare
<1>3. ids \subseteq IdsOf(SellsOf(p, view))
    BY <1>2
<1>4. /\ DOMAIN row' = Positions /\ row'[p].id = 0
      /\ \A q \in Positions \ {p} : row'[q] = row[q]
    BY <1>2 DEF Report, SellsOK
<1>5. /\ DOMAIN managed' = Positions /\ managed'[p] \in {0, managed[p], NewId}
      /\ \A q \in Positions \ {p} : managed'[q] = managed[q]
    BY <1>2 DEF SellsOK
<1>6. Asks(p, ids, cancel)
    BY <1>1, <1>2, <1>3, <1>4, <1>5 DEF Asks
<1> QED
    BY <1>2, <1>4, <1>6 DEF Turn, Tells, Sends

\* The turn of p, whichever it is.
TurnOf(p) ==
    \/ Resolve(p) \/ Naked(p) \/ DeadBook(p) \/ Keep(p) \/ Rest(p) \/ SellNow(p)
    \/ MakerWaits(p) \/ MakerRests(p) \/ Compare(p)

LEMMA TurnOfTurns ==
    ASSUME SellsOK, NEW p \in Positions, TurnOf(p)
    PROVE  Turn(p) /\ Looks(p)
<1>1. Turn(p)
    BY ResolveTurns, QuietTurns, RestTurns, SellNowTurns, MakerRestsTurns, CompareTurns DEF TurnOf
<1>2. Looks(p)
    BY DEF TurnOf, Resolve, Naked, DeadBook, Keep, Rest, SellNow, MakerWaits, MakerRests, Compare,
           Decides, Routes
<1> QED
    BY <1>1, <1>2

LEMMA ExitTurns ==
    ASSUME SellsOK, Exit
    PROVE  \E p \in Positions : /\ Turn(p) /\ pc = "each" /\ p \in DOMAIN todo
                                /\ DOMAIN todo' = DOMAIN todo \ {p}
<1>1. PICK p \in Positions : TurnOf(p)
    BY DEF Exit, TurnOf
<1>2. Turn(p) /\ Looks(p)
    BY <1>1, TurnOfTurns
<1>3. pc = "each" /\ p \in DOMAIN todo /\ DOMAIN todo' = DOMAIN todo \ {p}
    BY <1>2 DEF Looks, Without
<1> QED
    BY <1>2, <1>3

-----------------------------------------------------------------------------
\* The rest of the tick, and the world

LEMMA InitOneInv == Init => OneInv
<1> SUFFICES ASSUME Init PROVE OneInv
    OBVIOUS
<1>1. /\ DOMAIN row = Positions /\ DOMAIN managed = Positions /\ template \in Templates
      /\ \A p \in Positions : managed[p] = 0
      /\ view = {} /\ cancelled = {} /\ pulled = {} /\ deaf = {} /\ snapshot = Unread
      /\ pc = "idle" /\ orders \in Resting
    BY DEF Init
<1>2. Finite
    BY <1>1, FS_EmptySet, RestingAssumption DEF Finite
<1>3. /\ \A o1, o2 \in orders : o1.id = o2.id \/ o1.pos = o2.pos => o1 = o2
      /\ \A o \in orders : {"id", "pos", "price"} \subseteq DOMAIN o
    BY <1>1, RestingAssumption, ConstantsAssumption
<1>4. Sells = orders
    BY <1>1 DEF Sells
<1>5. SellsOK
    BY <1>1, <1>2, <1>3, <1>4 DEF SellsOK
<1> QED
    BY <1>1, <1>3, <1>5 DEF OneInv, CancelledGone, AllSeen, AtMostOne

LEMMA BeginTickOneInv == ASSUME OneInv, BeginTick PROVE OneInv'
<1>1. /\ snapshot' \in {orders, Unread} /\ UNCHANGED <<orders, view, managed, template>>
      /\ cancelled' = {} /\ pulled' = {} /\ deaf' = deaf \intersect IdsOf(orders)
      /\ pc' = "low" /\ DOMAIN row' = Positions
    BY DEF BeginTick
<1>2. IsFiniteSet(deaf')
    BY <1>1, FS_Subset DEF OneInv, SellsOK, Finite
<1>3. Finite'
    BY <1>1, <1>2, FS_EmptySet DEF OneInv, SellsOK, Finite
<1>4. Sells' \subseteq Sells
    BY <1>1 DEF Sells
<1>5. SellsOK'
    BY <1>1, <1>3, <1>4 DEF OneInv, SellsOK
<1>6. \A o \in orders : o.id \in deaf <=> o.id \in deaf'
    BY <1>1 DEF IdsOf
<1> QED
    BY <1>1, <1>5, <1>6 DEF OneInv, CancelledGone, AllSeen, AtMostOne

\* A step reads the open orders, or finds those of the tick's beginning.
LEMMA ReadsOneInv ==
    ASSUME OneInv, view' = OpenOrders, pc' \in {"liquidate", "each"}, pc \in {"low", "exit"},
           UNCHANGED <<template, orders, snapshot, cancelled, pulled, deaf>>,
           DOMAIN row' = Positions, DOMAIN managed' = Positions,
           \A p \in Positions : managed'[p] \in {0, managed[p]}
    PROVE  OneInv'
<1>1. Finite'
    BY DEF OneInv, SellsOK, Finite, OpenOrders
<1>2. Sells' \subseteq Sells
    BY DEF Sells, OpenOrders
<1>3. snapshot' \in {Unread, view'}
    BY DEF OpenOrders
<1>4. SellsOK'
    BY <1>1, <1>2, <1>3 DEF OneInv, SellsOK
<1>5. AllSeen'
    BY DEF OneInv, AllSeen, OpenOrders
<1> QED
    BY <1>4, <1>5 DEF OneInv, CancelledGone, AtMostOne

LEMMA LowReadsOneInv == ASSUME OneInv, LowReads PROVE OneInv'
<1>1. /\ view' = OpenOrders /\ pc' = "liquidate" /\ pc = "low"
      /\ UNCHANGED <<template, orders, snapshot, cancelled, pulled, deaf, row, managed>>
    BY DEF LowReads, world
<1> QED
    BY <1>1, ReadsOneInv DEF OneInv, SellsOK

LEMMA ExitReadsOneInv == ASSUME OneInv, ExitReads PROVE OneInv'
<1>1. /\ view' = OpenOrders /\ pc' = "each" /\ pc = "exit"
      /\ UNCHANGED <<template, orders, snapshot, cancelled, pulled, deaf, row>>
    BY DEF ExitReads, world
<1>2. DOMAIN managed' = Positions /\ \A p \in Positions : managed'[p] \in {0, managed[p]}
    BY DEF ExitReads
<1> QED
    BY <1>1, <1>2, ReadsOneInv DEF OneInv, SellsOK

\* What leaves the sells alone and goes on to check_exit.
LEMMA LowEndsOneInv == ASSUME OneInv, LowSkipped \/ LowDone PROVE OneInv'
<1>1. /\ pc' = "exit" /\ pc \in {"low", "liquidate"}
      /\ UNCHANGED <<template, orders, snapshot, view, cancelled, pulled, deaf, row, managed>>
    BY DEF LowSkipped, LowDone, world, reads, history
<1>2. Sells' = Sells /\ Finite'
    BY <1>1 DEF Sells, Finite, OneInv, SellsOK
<1>3. SellsOK'
    BY <1>1, <1>2 DEF OneInv, SellsOK
<1> QED
    BY <1>1, <1>3 DEF OneInv, CancelledGone, AllSeen, AtMostOne

LEMMA EndsOneInv == ASSUME OneInv, TickEnds \/ ExitFails PROVE OneInv'
<1>1. /\ pc' = "idle" /\ snapshot' = Unread /\ view' = {} /\ pulled' = {}
      /\ UNCHANGED <<template, orders, cancelled, deaf, managed>> /\ DOMAIN row' = Positions
    BY DEF TickEnds, ExitFails, Ends, world
<1>2. Sells' \subseteq Sells
    BY <1>1 DEF Sells
<1>3. Finite'
    BY <1>1, FS_EmptySet DEF OneInv, SellsOK, Finite
<1>4. SellsOK'
    BY <1>1, <1>2, <1>3 DEF OneInv, SellsOK
<1> QED
    BY <1>1, <1>4 DEF OneInv, CancelledGone, AllSeen, AtMostOne

LEMMA LiquidateOneInv == ASSUME OneInv, NEW p \in Positions, Liquidate(p) PROVE OneInv'
<1>1. pc = "liquidate" /\ UNCHANGED <<pc, template, snapshot, view, managed>>
    BY DEF Liquidate
<1>2. CASE UNCHANGED <<orders, cancelled, pulled, deaf, row>>
  <2>1. Sells' = Sells /\ Finite'
    BY <1>1, <1>2 DEF Sells, Finite, OneInv, SellsOK
  <2>2. SellsOK'
    BY <1>1, <1>2, <2>1 DEF OneInv, SellsOK
  <2> QED
    BY <1>1, <1>2, <2>2 DEF OneInv, CancelledGone, AllSeen, AtMostOne
<1>3. ASSUME NEW cancel \in CancelAnswers, NEW sale, NEW fill, MarketDump(p, cancel, sale, fill)
      PROVE  OneInv'
  <2> DEFINE ids == IdsOf(OwnSells(p))
  <2>1. Asks(p, ids, cancel) /\ orders' = After(ids, cancel)
    BY <1>1, <1>3, DumpAsks DEF OneInv
  <2> HIDE DEF ids
  <2>2. Sends(p, ids, cancel)
    BY <2>1 DEF Sends
  <2>3. SellsOK' /\ CancelledGone'
    BY <2>1, <2>2, AskedSells, AskedGone DEF OneInv
  <2>4. orders' \subseteq orders /\ deaf \subseteq deaf'
    BY <2>1, AfterLess DEF Asks, Cancel
  <2> QED
    BY <1>1, <2>3, <2>4 DEF OneInv, AllSeen, AtMostOne
<1> QED
    BY <1>2, <1>3 DEF Liquidate

\* A sell that trades keeps its id and its position, or is gone.
LEMMA WorldSells ==
    ASSUME OneInv, World
    PROVE  /\ UNCHANGED <<template, managed, pc, snapshot, view, todo, cancelled, pulled, deaf, row>>
           /\ \/ orders' = orders
              \/ \E o \in orders : \E r :
                     /\ r.id = o.id /\ r.pos = o.pos /\ r.price = o.price /\ DOMAIN r = DOMAIN o
                     /\ orders' \in {orders \ {o}, (orders \ {o}) \union {r}}
<1>1. Alone
    BY DEF World, BuyTrades, BookMoves, Proposal, CatchUp, SellTrades, Settle, CoolsDown
<1>2. UNCHANGED <<template, managed, pc, snapshot, view, todo, cancelled, pulled, deaf, row>>
    BY <1>1 DEF Alone, reads, history
<1>3. CASE \E p \in Positions : BuyTrades(p) \/ BookMoves(p) \/ Proposal(p) \/ CatchUp(p)
    BY <1>2, <1>3 DEF BuyTrades, BookMoves, Proposal, CatchUp
<1>4. CASE Settle \/ CoolsDown
    BY <1>2, <1>4 DEF Settle, CoolsDown, world
<1>5. ASSUME NEW o \in orders, SellTrades(o)
      PROVE  \E r : /\ r.id = o.id /\ r.pos = o.pos /\ r.price = o.price /\ DOMAIN r = DOMAIN o
                    /\ orders' \in {orders \ {o}, (orders \ {o}) \union {r}}
  <2>1. PICK size : orders' = (orders \ {o}) \union {r \in {[o EXCEPT !.left = @ - size]} : r.left > 0}
    BY <1>5 DEF SellTrades
  <2> DEFINE r == [o EXCEPT !.left = @ - size]
  <2>2. {"id", "pos", "price"} \subseteq DOMAIN o
    BY DEF OneInv, SellsOK
  <2>3. r.id = o.id /\ r.pos = o.pos /\ r.price = o.price /\ DOMAIN r = DOMAIN o
    BY <2>2
  <2>4. orders' \in {orders \ {o}, (orders \ {o}) \union {r}}
    BY <2>1
  <2> QED
    BY <2>3, <2>4
<1> QED
    BY <1>2, <1>3, <1>4, <1>5 DEF World

LEMMA WorldOneInv == ASSUME OneInv, World PROVE OneInv'
<1>1. UNCHANGED <<template, managed, pc, snapshot, view, todo, cancelled, pulled, deaf, row>>
    BY WorldSells
<1>2. CASE orders' = orders
  <2>1. Sells' = Sells /\ Finite'
    BY <1>1, <1>2 DEF Sells, Finite, OneInv, SellsOK
  <2>2. SellsOK'
    BY <1>1, <1>2, <2>1 DEF OneInv, SellsOK
  <2> QED
    BY <1>1, <1>2, <2>2 DEF OneInv, CancelledGone, AllSeen, AtMostOne
<1>3. ASSUME NEW o \in orders, NEW r, r.id = o.id, r.pos = o.pos, r.price = o.price,
             DOMAIN r = DOMAIN o,
             orders' \in {orders \ {o}, (orders \ {o}) \union {r}}
      PROVE  OneInv'
  <2>1. IsFiniteSet(orders')
    <3>1. IsFiniteSet(orders)
        BY DEF OneInv, SellsOK, Finite
    <3>2. IsFiniteSet(orders \ {o})
        BY <3>1, FS_RemoveElement
    <3>3. IsFiniteSet((orders \ {o}) \union {r})
        BY <3>2, FS_AddElement
    <3> QED
        BY <1>3, <3>2, <3>3
  <2>2. Finite'
    BY <1>1, <2>1 DEF OneInv, SellsOK, Finite
  <2>3. \A x \in orders' : x \in orders \/ x = r
    BY <1>3
  <2>4. \A x1, x2 \in orders' : x1.id = x2.id => x1 = x2
    BY <1>3, <2>3 DEF OneInv, SellsOK
  <2>5. \A x \in Sells' : \E y \in Sells : y.id = x.id /\ y.pos = x.pos /\ y.price = x.price
    BY <1>1, <1>3, <2>3 DEF Sells
  <2>6. \A x \in orders' : {"id", "pos", "price"} \subseteq DOMAIN x
    BY <1>3, <2>3 DEF OneInv, SellsOK
  <2>7. SellsOK'
    BY <1>1, <2>2, <2>4, <2>5, <2>6 DEF OneInv, SellsOK
  <2>8. Fewer
    BY <1>3, <2>3 DEF Fewer
  <2> QED
    BY <1>1, <2>7, <2>8 DEF OneInv, CancelledGone, AllSeen, AtMostOne, Fewer
<1> QED
    BY <1>2, <1>3, WorldSells

LEMMA ExitOneInv == ASSUME OneInv, Exit PROVE OneInv'
<1>1. PICK p \in Positions : Turn(p) /\ pc = "each" /\ p \in DOMAIN todo
                             /\ DOMAIN todo' = DOMAIN todo \ {p}
    BY ExitTurns DEF OneInv
<1>2. PICK ids, answer : Asks(p, ids, answer) /\ Sends(p, ids, answer)
    BY <1>1 DEF Turn
<1> QED
    BY <1>1, <1>2, TurnOneInv

LEMMA NextOneInv == ASSUME OneInv, [Next]_vars PROVE OneInv'
<1>1. CASE Tick
    BY <1>1, BeginTickOneInv, LowReadsOneInv, LowEndsOneInv, LiquidateOneInv, ExitReadsOneInv,
       EndsOneInv, ExitOneInv DEF Tick
<1>2. CASE World
    BY <1>2, WorldOneInv
<1>3. CASE UNCHANGED vars
  <2>1. Sells' = Sells /\ Finite'
    BY <1>3 DEF Sells, Finite, OneInv, SellsOK, vars, world, reads, history
  <2>2. SellsOK'
    BY <1>3, <2>1 DEF OneInv, SellsOK, vars, world, reads, history
  <2> QED
    BY <1>3, <2>2 DEF OneInv, CancelledGone, AllSeen, AtMostOne, vars, world, reads, history
<1> QED
    BY <1>1, <1>2, <1>3 DEF Next

\* A position never has two sells, unless the CLOB ignored a cancel it answered:
\* plan_take_profit and the dumps take off what rests before they sell, and a
\* cancel that raises is not followed by a sell that rests (monitor.py:824-894).
THEOREM OneSellOnly == Spec => []OneSell
<1>1. OneInv => OneSell
  <2> SUFFICES ASSUME OneInv, ~template.router, NEW p \in Positions
               PROVE  Cardinality({o \in SellsOf(p, orders) : o.id \notin deaf}) <= 1
    BY DEF OneSell
  <2> DEFINE S == {o \in SellsOf(p, orders) : o.id \notin deaf}
  <2>1. \A o1, o2 \in S : o1 = o2
    BY DEF OneInv, SellsOK, AtMostOne, SellsOf
  <2>2. S = {} \/ \E o : S = {o}
    BY <2>1
  <2> HIDE DEF S
  <2>3. Cardinality(S) \in {0, 1}
    BY <2>2, FS_EmptySet, FS_Singleton
  <2>4. Cardinality(S) <= 1
    BY <2>3
  <2> QED
    BY <2>4 DEF S
<1> QED
    BY <1>1, InitOneInv, NextOneInv, PTL DEF Spec

-----------------------------------------------------------------------------
\* What is reported is there

\* The ids a later turn of the tick may still meet: what was pulled before
\* check_exit is among the cancelled ones, and what it pulls is of positions
\* that had their turn.
PulledOK ==
    /\ pc = "low" => pulled = {}
    /\ pc \in {"liquidate", "exit"} => pulled \subseteq cancelled
    /\ pc = "each" => \A o \in view : o.id \in pulled /\ o.pos \in DOMAIN todo => o.id \in cancelled

\* What a row says of its sell.
TellsTrue(p) ==
    \/ row[p].id \notin pulled
    \/ row[p].is = "waits" /\ row[p].id \in cancelled
RowsOK == \A p \in Positions : row[p].id # 0 =>
    /\ pc = "each" /\ p \notin DOMAIN todo /\ TellsTrue(p)
    /\ \A o \in view : o.id = row[p].id => o.pos = p

ManagedOK == pc = "each" => \A p \in Positions :
    p \in DOMAIN todo => managed[p] = 0 \/ \E o \in view : o.id = managed[p]

KeptInv == OneInv /\ PulledOK /\ RowsOK /\ ManagedOK

LEMMA TurnKeptInv ==
    ASSUME KeptInv, NEW p \in Positions, Turn(p), pc = "each", p \in DOMAIN todo,
           DOMAIN todo' = DOMAIN todo \ {p}
    PROVE  KeptInv'
<1>1. PICK ids, answer : Asks(p, ids, answer) /\ Sends(p, ids, answer) /\ Tells(p)
    BY DEF Turn
<1>2. OneInv'
    BY <1>1, TurnOneInv DEF KeptInv
<1>3. pulled' \subseteq pulled \union ids /\ UNCHANGED <<pc, template, snapshot, view>>
      /\ ids \subseteq IdsOf(SellsOf(p, view)) /\ cancelled \subseteq cancelled'
    BY <1>1 DEF Asks, Cancel
<1>4. \A o \in view : o.id \in ids => o.pos = p
  <2>1. ASSUME NEW o \in view, o.id \in ids PROVE o.pos = p
    <3>1. PICK x \in view : x.pos = p /\ x.id = o.id
        BY <1>3, <2>1 DEF IdsOf, SellsOf
    <3> QED
        BY <3>1 DEF KeptInv, OneInv, SellsOK, Sells
  <2> QED
    BY <2>1
<1>5. PulledOK'
    BY <1>3, <1>4 DEF KeptInv, PulledOK
<1>6. NewId \notin pulled' /\ NewId \notin IdsOf(view) /\ NewId # 0
  <2>1. IdsOf(SellsOf(p, view)) \subseteq IdsOf(view)
    BY DEF IdsOf, SellsOf
  <2> QED
    BY <1>3, <2>1, NewIdIsNew DEF KeptInv, OneInv, SellsOK
<1>7. ASSUME NEW q \in Positions \ {p}, row'[q].id # 0
      PROVE  /\ q \notin DOMAIN todo' /\ TellsTrue(q)'
             /\ \A o \in view : o.id = row'[q].id => o.pos = q
  <2>1. row'[q] = row[q]
    BY <1>1 DEF Asks
  <2>2. /\ q \notin DOMAIN todo /\ TellsTrue(q)
        /\ \A o \in view : o.id = row[q].id => o.pos = q
    BY <1>7, <2>1 DEF KeptInv, RowsOK
  <2>3. row[q].id \notin ids
    BY <1>3, <1>4, <2>2 DEF IdsOf, SellsOf
  <2>4. TellsTrue(q)'
    BY <1>3, <2>1, <2>2, <2>3 DEF TellsTrue
  <2> QED
    BY <2>1, <2>2, <2>4
<1>8. ASSUME row'[p].id # 0
      PROVE  TellsTrue(p)' /\ \A o \in view : o.id = row'[p].id => o.pos = p
  <2>1. CASE row'[p].id = NewId
    <3>1. \A o \in view : o.id # NewId
        BY <1>6 DEF IdsOf
    <3> QED
        BY <1>6, <2>1, <3>1 DEF TellsTrue
  <2>2. CASE row'[p] = row[p]
    BY <1>8, <2>2 DEF KeptInv, RowsOK
  <2>3. CASE pulled' = pulled /\ row'[p].is = "waits" /\ row'[p].id = managed[p]
    <3>1. PICK o \in view : o.id = managed[p]
        BY <1>8, <2>3 DEF KeptInv, ManagedOK
    <3>2. \A x \in view : x.id = managed[p] => x.pos = p
        BY <1>8, <2>3 DEF KeptInv, OneInv, SellsOK, Sells
    <3>3. o.id \in pulled => o.id \in cancelled
        BY <3>1, <3>2 DEF KeptInv, PulledOK
    <3>4. TellsTrue(p)'
        BY <1>3, <2>3, <3>1, <3>3 DEF TellsTrue
    <3> QED
        BY <2>3, <3>2, <3>4
  <2>4. ASSUME pulled' = pulled, NEW o \in OwnSells(p), row'[p].id = o.id
        PROVE  TellsTrue(p)' /\ \A x \in view : x.id = row'[p].id => x.pos = p
    <3>1. o \in view /\ o.pos = p /\ o.id \notin cancelled
        BY <2>4 DEF OwnSells, SellsOf
    <3>2. o.id \notin pulled
        BY <3>1 DEF KeptInv, PulledOK
    <3>3. \A x \in view : x.id = o.id => x.pos = p
        BY <3>1 DEF KeptInv, OneInv, SellsOK, Sells
    <3> QED
        BY <2>4, <3>2, <3>3 DEF TellsTrue
  <2> QED
    BY <1>1, <1>8, <2>1, <2>2, <2>3, <2>4 DEF Tells
<1>9. RowsOK'
    BY <1>3, <1>7, <1>8 DEF RowsOK
<1>10. ManagedOK'
    BY <1>1, <1>3 DEF KeptInv, ManagedOK, Asks
<1> QED
    BY <1>2, <1>5, <1>9, <1>10 DEF KeptInv

\* Where nothing is asked or reported, a row stays as it is.
LEMMA LowKeptInv ==
    ASSUME KeptInv, LowReads \/ LowSkipped \/ LowDone \/ ExitReads
    PROVE  KeptInv'
<1>1. OneInv'
    BY LowReadsOneInv, LowEndsOneInv, ExitReadsOneInv DEF KeptInv
<1>2. UNCHANGED <<template, row, pulled, cancelled>> /\ pc \in {"low", "liquidate", "exit"}
    BY DEF LowReads, LowSkipped, LowDone, ExitReads, reads, history
<1>3. RowsOK'
    BY <1>2 DEF KeptInv, RowsOK
<1>4. CASE LowReads
  <2>1. pc' = "liquidate" /\ pc = "low"
    BY <1>4 DEF LowReads
  <2> QED
    BY <1>1, <1>2, <1>3, <2>1 DEF KeptInv, PulledOK, ManagedOK
<1>5. CASE LowSkipped \/ LowDone
  <2>1. pc' = "exit" /\ pc \in {"low", "liquidate"}
    BY <1>5 DEF LowSkipped, LowDone
  <2> QED
    BY <1>1, <1>2, <1>3, <2>1 DEF KeptInv, PulledOK, ManagedOK
<1>6. CASE ExitReads
  <2>1. /\ pc' = "each" /\ pc = "exit" /\ view' = OpenOrders
        /\ managed' = [p \in Positions |-> IF managed[p] \in IdsOf(OpenOrders) THEN managed[p] ELSE 0]
    BY <1>6 DEF ExitReads
  <2>2. ManagedOK'
    BY <2>1 DEF ManagedOK, IdsOf
  <2>3. PulledOK'
    BY <1>2, <2>1 DEF KeptInv, PulledOK
  <2> QED
    BY <1>1, <1>3, <2>2, <2>3 DEF KeptInv
<1> QED
    BY <1>4, <1>5, <1>6

LEMMA LiquidateKeptInv == ASSUME KeptInv, NEW p \in Positions, Liquidate(p) PROVE KeptInv'
<1>1. OneInv'
    BY LiquidateOneInv DEF KeptInv
<1>2. pc = "liquidate" /\ UNCHANGED <<pc, template, snapshot, view, managed>>
    BY DEF Liquidate
<1>3. \A q \in Positions : row[q].id = 0
    BY <1>2 DEF KeptInv, RowsOK
<1>4. CASE UNCHANGED <<orders, cancelled, pulled, deaf, row>>
    BY <1>1, <1>2, <1>3, <1>4 DEF KeptInv, PulledOK, RowsOK, ManagedOK
<1>5. ASSUME NEW cancel \in CancelAnswers, NEW sale, NEW fill, MarketDump(p, cancel, sale, fill)
      PROVE  KeptInv'
  <2>1. row'[p].id = 0 /\ \A q \in Positions \ {p} : row'[q] = row[q]
    BY <1>2, <1>5, DumpAsks DEF KeptInv, OneInv
  <2>2. \A q \in Positions : row'[q].id = 0
    BY <1>3, <2>1
  <2>3. pulled' \subseteq cancelled'
    <3>1. pulled \subseteq cancelled
        BY <1>2 DEF KeptInv, PulledOK
    <3> QED
        BY <1>5, <3>1 DEF MarketDump, Cancel, CancelAnswers
  <2> QED
    BY <1>1, <1>2, <2>2, <2>3 DEF KeptInv, PulledOK, RowsOK, ManagedOK
<1> QED
    BY <1>4, <1>5 DEF Liquidate

LEMMA RestKeptInv ==
    ASSUME KeptInv, BeginTick \/ TickEnds \/ ExitFails PROVE KeptInv'
<1>1. OneInv'
    BY BeginTickOneInv, EndsOneInv DEF KeptInv
<1>2. pulled' = {} /\ pc' \in {"idle", "low"} /\ \A p \in Positions : row'[p].id = 0
    BY DEF BeginTick, TickEnds, ExitFails, Ends, Quiet
<1> QED
    BY <1>1, <1>2 DEF KeptInv, PulledOK, RowsOK, ManagedOK

\* Nothing that is reported or remembered has changed.
LEMMA SameKept ==
    ASSUME KeptInv, UNCHANGED <<template, managed, pc, view, todo, cancelled, pulled, row>>
    PROVE  PulledOK' /\ RowsOK' /\ ManagedOK'
<1>1. PulledOK'
    BY DEF KeptInv, PulledOK
<1>2. ManagedOK'
    BY DEF KeptInv, ManagedOK
<1>3. ASSUME NEW p \in Positions, row[p].id # 0
      PROVE  /\ pc' = "each" /\ p \notin DOMAIN todo' /\ TellsTrue(p)'
             /\ \A o \in view' : o.id = row[p].id => o.pos = p
  <2>1. /\ pc = "each" /\ p \notin DOMAIN todo /\ TellsTrue(p)
        /\ \A o \in view : o.id = row[p].id => o.pos = p
    BY <1>3 DEF KeptInv, RowsOK
  <2>2. TellsTrue(p)'
    BY <2>1 DEF TellsTrue
  <2> QED
    BY <2>1, <2>2
<1>4. RowsOK'
    BY <1>3 DEF RowsOK
<1> QED
    BY <1>1, <1>2, <1>4

LEMMA NextKeptInv == ASSUME KeptInv, [Next]_vars PROVE KeptInv'
<1>1. CASE Exit
  <2>1. PICK p \in Positions : Turn(p) /\ pc = "each" /\ p \in DOMAIN todo
                               /\ DOMAIN todo' = DOMAIN todo \ {p}
    BY <1>1, ExitTurns DEF KeptInv, OneInv
  <2> QED
    BY <2>1, TurnKeptInv
<1>2. CASE Tick
    BY <1>1, <1>2, LowKeptInv, LiquidateKeptInv, RestKeptInv DEF Tick
<1>3. CASE World
  <2>1. OneInv'
    BY <1>3, WorldOneInv DEF KeptInv
  <2>2. UNCHANGED <<template, managed, pc, view, todo, cancelled, pulled, row>>
    BY <1>3, WorldSells DEF KeptInv
  <2> QED
    BY <2>1, <2>2, SameKept DEF KeptInv
<1>4. CASE UNCHANGED vars
  <2>1. OneInv'
    BY <1>4, NextOneInv DEF KeptInv
  <2>2. UNCHANGED <<template, managed, pc, view, todo, cancelled, pulled, row>>
    BY <1>4 DEF vars, reads, history
  <2> QED
    BY <2>1, <2>2, SameKept DEF KeptInv
<1> QED
    BY <1>2, <1>3, <1>4 DEF Next

LEMMA InitKeptInv == Init => KeptInv
<1> SUFFICES ASSUME Init PROVE KeptInv
    OBVIOUS
<1>1. pc = "idle" /\ pulled = {} /\ \A p \in Positions : row[p].id = 0
    BY DEF Init, Quiet
<1> QED
    BY <1>1, InitOneInv DEF KeptInv, PulledOK, RowsOK, ManagedOK

\* A row that says a sell rests tells the truth of the tick's own cancels: the
\* shared view may be old, _cancelled_sell_ids makes up for it (monitor.py:82).  Only
\* the router may wait on a sell that a liquidation of the tick has cancelled.
THEOREM KeptRowsAreTrue == Spec => []KeptIsThere
<1>1. KeptInv => KeptIsThere
    BY DEF KeptInv, RowsOK, TellsTrue, KeptIsThere
<1> QED
    BY <1>1, InitKeptInv, NextKeptInv, PTL DEF Spec

-----------------------------------------------------------------------------
\* Lots

Trade == {t \in [side : {"BUY", "SELL"}, price : Nat, size : Nat \ {0}] :
             t.side = "BUY" => t.price > 0}
SizesOf(lots) == [i \in DOMAIN lots |-> lots[i].size]
\* The shares of the first i lots.
Upto(lots, i) == SumOn(SizesOf(lots), 1..i)

LEMMA LotFields ==
    ASSUME NEW lots \in Seq(Lot), NEW i \in DOMAIN lots
    PROVE  /\ lots[i] \in Lot /\ lots[i].size \in Nat /\ lots[i].size > 0
           /\ lots[i].price \in Nat /\ lots[i].price > 0
<1>1. i \in 1..Len(lots)
    BY LenProperties
<1>2. lots[i] \in Lot
    BY <1>1, ElementOfSeq
<1> QED
    BY <1>2 DEF Lot

LEMMA UptoIs ==
    ASSUME NEW lots \in Seq(Lot)
    PROVE  /\ Upto(lots, 0) = 0 /\ Upto(lots, Len(lots)) = Total(lots)
           /\ \A i \in 0..Len(lots) : /\ Upto(lots, i) \in Int
                                      /\ Total(SubSeq(lots, 1, i)) = Upto(lots, i)
           /\ \A i \in 1..Len(lots) : Upto(lots, i) = lots[i].size + Upto(lots, i - 1)
<1> DEFINE n == Len(lots)
           f == SizesOf(lots)
<1>1. n \in Nat /\ DOMAIN lots = 1..n
    BY LenProperties
<1>2. f \in [1..n -> Int] /\ \A i \in 1..n : f[i] = lots[i].size
  <2>1. \A i \in 1..n : lots[i].size \in Int
      BY <1>1, LotFields
  <2> QED
      BY <1>1, <2>1 DEF SizesOf
<1> HIDE DEF f
<1>3. Upto(lots, 0) = 0
    BY <1>1, <1>2, SumOfNone DEF Upto, f
<1>4. ASSUME NEW i \in 1..n
      PROVE  Upto(lots, i) = lots[i].size + Upto(lots, i - 1) /\ Upto(lots, i) \in Int
    BY <1>1, <1>2, SumStep DEF Upto, f
<1>5. ASSUME NEW i \in 0..n PROVE Upto(lots, i) \in Int
  <2>1. i = 0 \/ i \in 1..n
      BY <1>1
  <2> QED
      BY <1>3, <1>4, <2>1
<1>6. Upto(lots, n) = Total(lots)
  <2>1. SumOn(f, 1..n) = SumFunction(f)
      BY <1>2, SumAll
  <2> QED
      BY <2>1 DEF Upto, Total, SizesOf, f
<1>7. ASSUME NEW i \in 0..n PROVE Total(SubSeq(lots, 1, i)) = Upto(lots, i)
  <2> DEFINE s == SubSeq(lots, 1, i)
  <2>1. DOMAIN s = 1..i /\ \A k \in 1..i : s[k] = lots[k]
      BY <1>1
  <2>2. [k \in DOMAIN s |-> s[k].size] = [k \in 1..i |-> f[k]]
    <3>1. \A k \in 1..i : k \in 1..n
        BY <1>1
    <3> HIDE DEF s
    <3> QED
        BY <1>2, <2>1, <3>1
  <2> HIDE DEF s
  <2> QED
      BY <2>2 DEF Total, Upto, SumOn, s, f
<1> QED
    BY <1>3, <1>4, <1>5, <1>6, <1>7

LEMMA UptoGrows ==
    ASSUME NEW lots \in Seq(Lot), NEW i \in 0..Len(lots), NEW j \in 0..Len(lots), i < j
    PROVE  Upto(lots, i) < Upto(lots, j)
<1> DEFINE n == Len(lots)
           G == {k \in Nat : k <= n => \A m \in 0..n : m < k => Upto(lots, m) < Upto(lots, k)}
<1>1. n \in Nat /\ DOMAIN lots = 1..n
    BY LenProperties
<1>2. 0 \in G
    OBVIOUS
<1>3. ASSUME NEW k \in Nat, k \in G PROVE k + 1 \in G
  <2> SUFFICES ASSUME k + 1 <= n, NEW m \in 0..n, m < k + 1
               PROVE  Upto(lots, m) < Upto(lots, k + 1)
      OBVIOUS
  <2>1. k + 1 \in 1..n /\ k \in 0..n /\ k + 1 \in 0..n /\ (k + 1) - 1 = k
      BY <1>1
  <2>2. Upto(lots, k + 1) = lots[k + 1].size + Upto(lots, k)
      BY <2>1, UptoIs
  <2>3. Upto(lots, m) \in Int /\ Upto(lots, k) \in Int
      BY <2>1, UptoIs
  <2>4. lots[k + 1].size \in Nat /\ lots[k + 1].size > 0
      BY <1>1, <2>1, LotFields
  <2>5. m = k \/ Upto(lots, m) < Upto(lots, k)
      BY <1>3, <2>1
  <2> QED
      BY <2>2, <2>3, <2>4, <2>5
<1>4. Nat \subseteq G
  <2> HIDE DEF G
  <2> QED
      BY <1>2, <1>3, NatSetInduction
<1>5. j \in G
    BY <1>1, <1>4
<1> QED
    BY <1>1, <1>5

\* The lots that a sale empties are the first ones.
LEMMA EmptiedFirst ==
    ASSUME NEW lots \in Seq(Lot), NEW size \in Nat
    PROVE  LET gone == Cardinality({i \in DOMAIN lots : Total(SubSeq(lots, 1, i)) <= size})
           IN  /\ gone \in 0..Len(lots)
               /\ \A i \in 0..Len(lots) : Upto(lots, i) <= size <=> i <= gone
<1> DEFINE n == Len(lots)
           T == {i \in 0..(n + 1) : i = n + 1 \/ Upto(lots, i) > size}
<1>1. n \in Nat /\ DOMAIN lots = 1..n
    BY LenProperties
<1>2. \A i \in 0..n : Upto(lots, i) \in Int
    BY UptoIs
<1>3. PICK m \in T : \A i \in T : m <= i
  <2>1. T \in SUBSET Nat /\ n + 1 \in T
      BY <1>1
  <2> HIDE DEF T
  <2>2. T # {}
      BY <2>1
  <2> QED
      BY <2>1, <2>2, LeastNatural
<1>4. m \in 1..(n + 1)
  <2>1. m # 0
    <3>1. Upto(lots, 0) = 0
        BY UptoIs
    <3> QED
        BY <1>1, <3>1
  <2> QED
      BY <1>1, <2>1
<1>5. ASSUME NEW i \in 0..n PROVE Upto(lots, i) <= size <=> i <= m - 1
  <2>1. CASE i < m
    <3>1. i \notin T
        BY <1>1, <1>3, <1>4, <2>1
    <3> QED
        BY <1>1, <1>2, <1>4, <2>1, <3>1
  <2>2. CASE i >= m
    <3>1. m \in 0..n /\ Upto(lots, m) > size
        BY <1>1, <1>3, <1>4, <2>2
    <3>2. i = m \/ Upto(lots, m) < Upto(lots, i)
        BY <1>1, <1>4, <2>2, <3>1, UptoGrows
    <3> QED
        BY <1>1, <1>2, <1>4, <2>2, <3>1, <3>2
  <2> QED
      BY <1>1, <1>4, <2>1, <2>2
<1>6. {i \in DOMAIN lots : Total(SubSeq(lots, 1, i)) <= size} = 1..(m - 1)
  <2>1. \A i \in 1..n : Total(SubSeq(lots, 1, i)) = Upto(lots, i)
      BY <1>1, UptoIs
  <2>2. ASSUME NEW i \in 1..n PROVE Total(SubSeq(lots, 1, i)) <= size <=> i \in 1..(m - 1)
    <3>1. i \in 0..n
        BY <1>1
    <3> QED
        BY <1>1, <1>4, <1>5, <2>1, <3>1
  <2> QED
      BY <1>1, <1>4, <2>2
<1>7. Cardinality({i \in DOMAIN lots : Total(SubSeq(lots, 1, i)) <= size}) = m - 1
  <2>1. Cardinality(1..(m - 1)) = m - 1
      BY <1>1, <1>4, FS_Interval
  <2> QED
      BY <1>6, <2>1
<1>8. m - 1 \in 0..n
    BY <1>1, <1>4
<1> DEFINE gone == Cardinality({i \in DOMAIN lots : Total(SubSeq(lots, 1, i)) <= size})
<1>9. gone = m - 1
    BY <1>7
<1>10. gone \in 0..n /\ \A i \in 0..n : Upto(lots, i) <= size <=> i <= gone
  <2> HIDE DEF gone, T
  <2> QED
      BY <1>5, <1>8, <1>9
<1> QED
    BY <1>10

\* A sale takes nothing but what each lot has of the shares sold.
LEMMA TakenIs ==
    ASSUME NEW lots \in Seq(Lot), NEW size \in Nat, NEW i \in 1..Len(lots)
    PROVE  Taken(lots, size, i) = Fewest(Upto(lots, i), size) - Fewest(Upto(lots, i - 1), size)
<1>1. i - 1 \in 0..Len(lots) /\ i \in 0..Len(lots) /\ i \in DOMAIN lots
    BY LenProperties
<1>2. Total(SubSeq(lots, 1, i - 1)) = Upto(lots, i - 1)
    BY <1>1, UptoIs
<1>3. Upto(lots, i) = lots[i].size + Upto(lots, i - 1)
    BY UptoIs
<1>4. Upto(lots, i) \in Int /\ Upto(lots, i - 1) \in Int /\ lots[i].size \in Nat
    BY <1>1, UptoIs, LotFields
<1>5. Taken(lots, size, i) = Fewest(lots[i].size, Most(0, size - Upto(lots, i - 1)))
    BY <1>2 DEF Taken
<1> QED
    BY <1>3, <1>4, <1>5 DEF Fewest, Most

LEMMA TakeOldestIs ==
    ASSUME NEW lots \in Seq(Lot), NEW size \in Nat
    PROVE  /\ TakeOldest(lots, size) \in Seq(Lot)
           /\ Total(TakeOldest(lots, size)) = Most(0, Total(lots) - size)
<1> DEFINE n == Len(lots)
           gone == Cardinality({i \in DOMAIN lots : Total(SubSeq(lots, 1, i)) <= size})
           left == [i \in 1..(n - gone) |->
                       [lots[gone + i] EXCEPT !.size = @ - Taken(lots, size, gone + i)]]
<1>1. n \in Nat /\ DOMAIN lots = 1..n
    BY LenProperties
<1>2. gone \in 0..n /\ \A i \in 0..n : Upto(lots, i) <= size <=> i <= gone
    BY EmptiedFirst
<1>3. TakeOldest(lots, size) = left
    BY DEF TakeOldest
<1> HIDE DEF gone
<1>4. \A i \in 0..n : Upto(lots, i) \in Int
    BY UptoIs
<1>5. ASSUME NEW i \in 1..(n - gone)
      PROVE  /\ gone + i \in 1..n /\ left[i] \in Lot /\ left[i].size \in Nat
             /\ left[i].size = IF i = 1 THEN Upto(lots, gone + 1) - size ELSE lots[gone + i].size
  <2> DEFINE j == gone + i
  <2>1. j \in 1..n /\ j \in 0..n /\ j - 1 \in 0..n /\ j > gone
      BY <1>1, <1>2
  <2>2. lots[j] \in Lot /\ lots[j].size \in Nat /\ lots[j].size > 0
      BY <1>1, <2>1, LotFields
  <2>3. Taken(lots, size, j) = Fewest(Upto(lots, j), size) - Fewest(Upto(lots, j - 1), size)
      BY <2>1, TakenIs
  <2>4. Upto(lots, j) = lots[j].size + Upto(lots, j - 1)
      BY <2>1, UptoIs
  <2>5. Upto(lots, j) > size /\ Upto(lots, j) \in Int /\ Upto(lots, j - 1) \in Int
      BY <1>2, <1>4, <2>1
  <2>6. Upto(lots, j - 1) <= size <=> i = 1
      BY <1>2, <2>1
  <2>7. Taken(lots, size, j) = IF i = 1 THEN size - Upto(lots, j - 1) ELSE 0
      BY <2>3, <2>5, <2>6 DEF Fewest
  <2> DEFINE rest == lots[j].size - Taken(lots, size, j)
  <2>8. rest \in Nat \ {0} /\ rest = IF i = 1 THEN Upto(lots, j) - size ELSE lots[j].size
      BY <2>2, <2>4, <2>5, <2>6, <2>7
  <2>9. left[i] = [lots[j] EXCEPT !.size = rest]
      OBVIOUS
  <2> HIDE DEF rest, left
  <2>10. left[i] \in Lot /\ left[i].size = rest
      BY <2>2, <2>8, <2>9 DEF Lot
  <2> QED
      BY <2>1, <2>8, <2>10
<1>6. left \in Seq(Lot) /\ Len(left) = n - gone
  <2>1. n - gone \in Nat
      BY <1>1, <1>2
  <2>2. \A i \in 1..(n - gone) : left[i] \in Lot
      BY <1>5
  <2>3. left \in [1..(n - gone) -> Lot]
      BY <2>2
  <2> HIDE DEF left
  <2> QED
      BY <2>1, <2>3, SeqDef, LenProperties
<1> HIDE DEF left
<1>7. Total(left) = Most(0, Total(lots) - size)
  <2> DEFINE G == {k \in Nat : 1 <= k /\ k <= n - gone => Upto(left, k) = Upto(lots, gone + k) - size}
  <2>1. 0 \in G
      OBVIOUS
  <2>2. ASSUME NEW k \in Nat, k \in G PROVE k + 1 \in G
    <3> SUFFICES ASSUME k + 1 <= n - gone PROVE Upto(left, k + 1) = Upto(lots, gone + (k + 1)) - size
        OBVIOUS
    <3>1. k + 1 \in 1..(n - gone) /\ (k + 1) - 1 = k /\ (gone + (k + 1)) - 1 = gone + k
          /\ gone + (k + 1) \in 1..n /\ gone + (k + 1) \in 0..n /\ gone + k \in 0..n
        BY <1>1, <1>2
    <3>2. Upto(left, k + 1) = left[k + 1].size + Upto(left, k)
        BY <1>6, <3>1, UptoIs
    <3>3. Upto(lots, gone + (k + 1)) = lots[gone + (k + 1)].size + Upto(lots, gone + k)
        BY <3>1, UptoIs
    <3>4. Upto(lots, gone + (k + 1)) \in Int /\ Upto(lots, gone + k) \in Int
        BY <1>4, <3>1
    <3>5. lots[gone + (k + 1)].size \in Nat
        BY <1>1, <3>1, LotFields
    <3>6. CASE k = 0
      <4>1. Upto(left, 0) = 0
          BY <1>6, UptoIs
      <4>2. left[1].size = Upto(lots, gone + 1) - size
          BY <1>5, <3>1, <3>6
      <4>3. k + 1 = 1 /\ gone + (k + 1) = gone + 1
          BY <3>6
      <4>4. Upto(left, 1) = left[1].size + 0 /\ Upto(lots, gone + 1) \in Int
          BY <3>2, <3>4, <3>6, <4>1, <4>3
      <4>5. Upto(left, 1) = Upto(lots, gone + 1) - size
          BY <4>2, <4>4
      <4> QED
          BY <4>3, <4>5
    <3>7. CASE k # 0
      <4>1. Upto(left, k) = Upto(lots, gone + k) - size
          BY <1>1, <1>2, <2>2, <3>7
      <4>2. left[k + 1].size = lots[gone + (k + 1)].size
          BY <1>5, <3>1, <3>7
      <4> QED
          BY <3>2, <3>3, <3>4, <3>5, <4>1, <4>2
    <3> QED
        BY <3>6, <3>7
  <2>3. Nat \subseteq G
    <3> HIDE DEF G
    <3> QED
        BY <2>1, <2>2, NatSetInduction
  <2>4. Upto(lots, n) = Total(lots) /\ Upto(lots, n) \in Int
      BY <1>1, <1>4, UptoIs
  <2>5. Upto(left, n - gone) = Total(left) /\ Upto(left, 0) = 0
      BY <1>6, UptoIs
  <2>6. n \in 0..n /\ n - gone \in Nat
      BY <1>1, <1>2
  <2>7. CASE n = gone
    <3>1. Total(lots) <= size /\ Total(left) = 0
        BY <1>2, <2>4, <2>5, <2>6, <2>7
    <3> QED
        BY <2>4, <3>1 DEF Most
  <2>8. CASE n # gone
    <3>1. Total(lots) > size
        BY <1>2, <2>4, <2>6, <2>8
    <3>2. PICK k \in Nat : k = n - gone
        BY <2>6
    <3>3. 1 <= k /\ k <= n - gone /\ gone + k = n
      <4>1. n \in Int /\ gone \in Int
          BY <1>1, <1>2
      <4> HIDE DEF n
      <4> QED
          BY <2>8, <3>2, <4>1
    <3>4. Total(left) = Total(lots) - size
      <4>1. Upto(left, k) = Upto(lots, gone + k) - size
        <5>1. k \in G
          <6> HIDE DEF G
          <6> QED
              BY <2>3
        <5> QED
            BY <3>3, <5>1
      <4> QED
          BY <2>4, <2>5, <3>2, <3>3, <4>1
    <3> QED
        BY <2>4, <3>1, <3>4 DEF Most
  <2> QED
      BY <2>7, <2>8
<1> QED
    BY <1>3, <1>6, <1>7

-----------------------------------------------------------------------------
\* Replays of trades

\* One more trade: a buy is one more lot, a sale takes from the oldest.
Traded(lots, t) ==
    IF t.side = "BUY" THEN Append(lots, [price |-> t.price, size |-> t.size])
    ELSE TakeOldest(lots, t.size)

LEMMA TradedTyped ==
    ASSUME NEW lots \in Seq(Lot), NEW t \in Trade
    PROVE  Traded(lots, t) \in Seq(Lot)
<1>1. t.side \in {"BUY", "SELL"} /\ t.price \in Nat /\ t.size \in Nat \ {0}
    BY DEF Trade
<1>2. CASE t.side = "BUY"
  <2>1. t.price > 0
      BY <1>2 DEF Trade
  <2>2. [price |-> t.price, size |-> t.size] \in Lot
      BY <1>1, <2>1 DEF Lot
  <2> QED
      BY <1>2, <2>2, AppendProperties DEF Traded
<1>3. CASE t.side # "BUY"
    BY <1>1, <1>3, TakeOldestIs DEF Traded
<1> QED
    BY <1>2, <1>3

\* The function that Replay defines, and what it does with each trade.
Replays(ts, g) ==
    g = [n \in 0..Len(ts) |->
            IF n = 0 THEN <<>>
            ELSE IF ts[n].side = "BUY"
                 THEN Append(g[n - 1], [price |-> ts[n].price, size |-> ts[n].size])
                 ELSE TakeOldest(g[n - 1], ts[n].size)]
Runs(ts, g) == g[0] = <<>> /\ \A i \in 1..Len(ts) : g[i] = Traded(g[i - 1], ts[i])

LEMMA ReplayRuns ==
    ASSUME NEW ts \in Seq(Trade)
    PROVE  \E g \in [0..Len(ts) -> Seq(Lot)] : Runs(ts, g) /\ Replay(ts) = g[Len(ts)]
<1> DEFINE n == Len(ts)
           V == Seq(Lot)
           step == [i \in 1..n |-> [l \in V |-> Traded(l, ts[i])]]
           c == CHOOSE g : Replays(ts, g)
<1>1. n \in Nat /\ \A i \in 1..n : ts[i] \in Trade
    BY LenProperties, ElementOfSeq
<1>2. Replay(ts) = c[n]
    BY DEF Replay, Replays
<1>3. \E g : Replays(ts, g)
  <2>1. step \in [1..n -> [V -> V]]
      BY <1>1, TradedTyped
  <2>2. <<>> \in V
      BY EmptySeq
  <2>3. \A i \in 1..n : \A l \in V : step[i][l] = Traded(l, ts[i])
      OBVIOUS
  <2> HIDE DEF step, V
  <2>4. PICK g \in [0..n -> V] : g[0] = <<>> /\ \A i \in 1..n : g[i] = step[i][g[i - 1]]
    <3>1. step \in Steps(n, V)
        BY <2>1 DEF Steps
    <3>2. Recursion(V, n, <<>>, step)
        BY <1>1, <2>2, <3>1, RecursionExists
    <3> QED
        BY <3>2 DEF Recursion
  <2>5. ASSUME NEW i \in 1..n PROVE g[i] = Traded(g[i - 1], ts[i])
    <3>1. i - 1 \in 0..n
        BY <1>1
    <3> QED
        BY <2>3, <2>4, <3>1
  <2>6. g = [i \in 0..n |-> IF i = 0 THEN <<>> ELSE Traded(g[i - 1], ts[i])]
    <3>1. \A i \in 0..n : g[i] = IF i = 0 THEN <<>> ELSE Traded(g[i - 1], ts[i])
      <4>1. \A i \in 0..n : i # 0 => i \in 1..n
          BY <1>1
      <4> QED
          BY <2>4, <2>5, <4>1
    <3> QED
        BY <2>4, <3>1
  <2>7. Replays(ts, g)
      BY <2>6 DEF Replays, Traded
  <2> QED
      BY <2>7
<1>4. Replays(ts, c)
  <2> QED
      BY <1>3
<1>5. c = [i \in 0..n |-> IF i = 0 THEN <<>> ELSE Traded(c[i - 1], ts[i])]
  <2> HIDE DEF c
  <2> QED
      BY <1>4 DEF Replays, Traded
<1> HIDE DEF c
<1>6. Runs(ts, c)
  <2>1. c[0] = <<>>
    <3>1. 0 \in 0..n
        BY <1>1
    <3> QED
        BY <1>5, <3>1
  <2>2. ASSUME NEW i \in 1..n PROVE c[i] = Traded(c[i - 1], ts[i])
    <3>1. i \in 0..n /\ i # 0
        BY <1>1
    <3> QED
        BY <1>5, <3>1
  <2> QED
      BY <2>1, <2>2 DEF Runs
<1>7. \A i \in 0..n : c[i] \in V
  <2> DEFINE G == {k \in Nat : k <= n => c[k] \in V}
  <2>1. 0 \in G
      BY <1>6, EmptySeq DEF Runs
  <2>2. ASSUME NEW k \in Nat, k \in G PROVE k + 1 \in G
    <3> SUFFICES ASSUME k + 1 <= n PROVE c[k + 1] \in V
        OBVIOUS
    <3>1. k + 1 \in 1..n /\ (k + 1) - 1 = k /\ k <= n
        BY <1>1
    <3>2. c[k] \in V /\ ts[k + 1] \in Trade
        BY <1>1, <2>2, <3>1
    <3>3. c[k + 1] = Traded(c[k], ts[k + 1])
        BY <1>6, <3>1 DEF Runs
    <3> QED
        BY <3>2, <3>3, TradedTyped
  <2>3. Nat \subseteq G
    <3> HIDE DEF G
    <3> QED
        BY <2>1, <2>2, NatSetInduction
  <2> QED
      BY <1>1, <2>3
<1>8. c \in [0..n -> V]
    BY <1>5, <1>7
<1> QED
    BY <1>2, <1>6, <1>8

LEMMA RunsAgree ==
    ASSUME NEW ts \in Seq(Trade), NEW us \in Seq(Trade), NEW n \in Nat,
           n <= Len(ts), n <= Len(us), \A i \in 1..n : ts[i] = us[i],
           NEW g, NEW h, Runs(ts, g), Runs(us, h)
    PROVE  g[n] = h[n]
<1> DEFINE G == {k \in Nat : k <= n => g[k] = h[k]}
<1>1. 0 \in G
    BY DEF Runs
<1>2. ASSUME NEW k \in Nat, k \in G PROVE k + 1 \in G
  <2> SUFFICES ASSUME k + 1 <= n PROVE g[k + 1] = h[k + 1]
      OBVIOUS
  <2>1. k + 1 \in 1..n /\ k + 1 \in 1..Len(ts) /\ k + 1 \in 1..Len(us) /\ (k + 1) - 1 = k /\ k <= n
      BY LenProperties
  <2>2. g[k] = h[k] /\ ts[k + 1] = us[k + 1]
      BY <1>2, <2>1
  <2>3. g[k + 1] = Traded(g[k], ts[k + 1]) /\ h[k + 1] = Traded(h[k], us[k + 1])
      BY <2>1 DEF Runs
  <2> QED
      BY <2>2, <2>3
<1>3. Nat \subseteq G
  <2> HIDE DEF G
  <2> QED
      BY <1>1, <1>2, NatSetInduction
<1> QED
    BY <1>3

LEMMA ReplayTyped == ASSUME NEW ts \in Seq(Trade) PROVE Replay(ts) \in Seq(Lot)
<1>1. PICK g \in [0..Len(ts) -> Seq(Lot)] : Runs(ts, g) /\ Replay(ts) = g[Len(ts)]
    BY ReplayRuns
<1>2. Len(ts) \in 0..Len(ts)
    BY LenProperties
<1> QED
    BY <1>1, <1>2

LEMMA ReplayEmpty == Replay(<<>>) = <<>>
<1>1. <<>> \in Seq(Trade) /\ Len(<<>>) = 0
    BY EmptySeq
<1>2. PICK g : Runs(<<>>, g) /\ Replay(<<>>) = g[Len(<<>>)]
    BY <1>1, ReplayRuns
<1> QED
    BY <1>1, <1>2 DEF Runs

LEMMA ReplayAppend ==
    ASSUME NEW ts \in Seq(Trade), NEW t \in Trade
    PROVE  Replay(Append(ts, t)) = Traded(Replay(ts), t)
<1> DEFINE n == Len(ts)
           us == Append(ts, t)
<1>1. us \in Seq(Trade) /\ Len(us) = n + 1 /\ us[n + 1] = t /\ \A i \in 1..n : us[i] = ts[i]
    BY AppendProperties
<1>2. n \in Nat
    BY LenProperties
<1> HIDE DEF us
<1>3. PICK g : Runs(ts, g) /\ Replay(ts) = g[n]
    BY ReplayRuns
<1>4. PICK h : Runs(us, h) /\ Replay(us) = h[n + 1]
    BY <1>1, ReplayRuns
<1>5. g[n] = h[n]
  <2>1. n <= Len(ts) /\ n <= Len(us) /\ \A i \in 1..n : ts[i] = us[i]
      BY <1>1, <1>2
  <2> QED
      BY <1>1, <1>2, <1>3, <1>4, <2>1, RunsAgree
<1>6. h[n + 1] = Traded(h[n], t)
  <2>1. n + 1 \in 1..Len(us) /\ (n + 1) - 1 = n
      BY <1>1, <1>2
  <2>2. h[n + 1] = Traded(h[(n + 1) - 1], us[n + 1])
      BY <1>4, <2>1 DEF Runs
  <2> QED
      BY <1>1, <2>1, <2>2
<1> QED
    BY <1>3, <1>4, <1>5, <1>6 DEF us

\* What a replay goes on from is all it needs to know of the trades before.
LEMMA ReplayFrom ==
    ASSUME NEW ts \in Seq(Trade), NEW vs \in Seq(Trade), Replay(ts) = Replay(vs),
           NEW us \in Seq(Trade)
    PROVE  Replay(ts \o us) = Replay(vs \o us)
<1> DEFINE G == {u \in Seq(Trade) : Replay(ts \o u) = Replay(vs \o u)}
<1>1. <<>> \in G
    BY EmptySeq, ConcatEmptySeq
<1>2. ASSUME NEW u \in Seq(Trade), NEW x \in Trade, u \in G PROVE Append(u, x) \in G
  <2>1. Append(u, x) \in Seq(Trade)
      BY AppendProperties
  <2>2. ASSUME NEW w \in Seq(Trade) PROVE w \o u \in Seq(Trade) /\ w \o Append(u, x) = Append(w \o u, x)
    <3>1. w \o u \in Seq(Trade) /\ <<x>> \in Seq(Trade)
        BY ConcatProperties
    <3>2. Append(u, x) = u \o <<x>> /\ Append(w \o u, x) = (w \o u) \o <<x>>
        BY <3>1, AppendIsConcat
    <3> QED
        BY <3>1, <3>2, ConcatAssociative
  <2>3. ts \o u \in Seq(Trade) /\ vs \o u \in Seq(Trade)
      BY <2>2
  <2>4. Replay(Append(ts \o u, x)) = Traded(Replay(ts \o u), x)
        /\ Replay(Append(vs \o u, x)) = Traded(Replay(vs \o u), x)
      BY <2>3, ReplayAppend
  <2>5. ts \o Append(u, x) = Append(ts \o u, x) /\ vs \o Append(u, x) = Append(vs \o u, x)
      BY <2>2
  <2>6. Replay(ts \o u) = Replay(vs \o u)
      BY <1>2
  <2>7. Replay(ts \o Append(u, x)) = Replay(vs \o Append(u, x))
      BY <2>4, <2>5, <2>6
  <2> QED
      BY <2>1, <2>7
<1>3. Seq(Trade) \subseteq G
  <2> HIDE DEF G
  <2> QED
      BY <1>1, <1>2, SequenceInduction
<1> QED
    BY <1>3

LEMMA AsBuysTyped ==
    ASSUME NEW lots \in Seq(Lot)
    PROVE  AsBuys(lots) \in Seq(Trade) /\ Len(AsBuys(lots)) = Len(lots)
<1> DEFINE n == Len(lots)
           b == [i \in 1..n |-> [side |-> "BUY", price |-> lots[i].price, size |-> lots[i].size]]
<1>1. n \in Nat /\ DOMAIN lots = 1..n
    BY LenProperties
<1>2. AsBuys(lots) = b
    BY <1>1 DEF AsBuys
<1>3. ASSUME NEW i \in 1..n PROVE b[i] \in Trade
  <2>1. lots[i].size \in Nat /\ lots[i].size > 0 /\ lots[i].price \in Nat /\ lots[i].price > 0
      BY <1>1, LotFields
  <2> QED
      BY <2>1 DEF Trade
<1>4. b \in [1..n -> Trade]
    BY <1>3
<1>5. b \in Seq(Trade) /\ Len(b) = n
  <2> HIDE DEF b
  <2> QED
      BY <1>1, <1>4, SeqDef, LenProperties
<1> QED
    BY <1>2, <1>5

\* Buys of the lots give the lots.
LEMMA ReplayAsBuys ==
    ASSUME NEW lots \in Seq(Lot) PROVE Replay(AsBuys(lots)) = lots
<1> DEFINE G == {l \in Seq(Lot) : Replay(AsBuys(l)) = l}
<1>1. <<>> \in G
  <2>1. AsBuys(<<>>) = <<>>
    <3>1. <<>> \in Seq(Lot) /\ Len(<<>>) = 0
        BY EmptySeq
    <3>2. AsBuys(<<>>) \in Seq(Trade) /\ Len(AsBuys(<<>>)) = 0
        BY <3>1, AsBuysTyped
    <3> QED
        BY <3>2, EmptySeq
  <2> QED
      BY <2>1, ReplayEmpty, EmptySeq
<1>2. ASSUME NEW l \in Seq(Lot), NEW x \in Lot, l \in G PROVE Append(l, x) \in G
  <2> DEFINE m == Append(l, x)
             t == [side |-> "BUY", price |-> x.price, size |-> x.size]
  <2>1. m \in Seq(Lot) /\ Len(m) = Len(l) + 1 /\ m[Len(l) + 1] = x /\ \A i \in 1..Len(l) : m[i] = l[i]
      BY AppendProperties
  <2>2. t \in Trade
      BY DEF Trade, Lot
  <2>3. AsBuys(m) = Append(AsBuys(l), t)
    <3> DEFINE a == Append(AsBuys(l), t)
    <3>1. AsBuys(l) \in Seq(Trade) /\ Len(AsBuys(l)) = Len(l)
        BY AsBuysTyped
    <3>2. AsBuys(m) \in Seq(Trade) /\ Len(AsBuys(m)) = Len(l) + 1
        BY <2>1, AsBuysTyped
    <3>3. /\ a \in Seq(Trade) /\ Len(a) = Len(l) + 1 /\ a[Len(l) + 1] = t
          /\ \A i \in 1..Len(l) : a[i] = AsBuys(l)[i]
        BY <2>2, <3>1, AppendProperties
    <3>4. DOMAIN l = 1..Len(l) /\ DOMAIN m = 1..(Len(l) + 1) /\ Len(l) \in Nat
        BY <2>1, LenProperties
    <3>5. ASSUME NEW i \in 1..(Len(l) + 1) PROVE AsBuys(m)[i] = a[i]
      <4>1. AsBuys(m)[i] = [side |-> "BUY", price |-> m[i].price, size |-> m[i].size]
          BY <3>4 DEF AsBuys
      <4>2. CASE i = Len(l) + 1
          BY <2>1, <3>3, <4>1, <4>2
      <4>3. CASE i # Len(l) + 1
        <5>1. i \in 1..Len(l)
            BY <3>4, <4>3
        <5>2. AsBuys(l)[i] = [side |-> "BUY", price |-> l[i].price, size |-> l[i].size]
            BY <3>4, <5>1 DEF AsBuys
        <5> QED
            BY <2>1, <3>3, <4>1, <5>1, <5>2
      <4> QED
          BY <4>2, <4>3
    <3> HIDE DEF a
    <3> QED
        BY <3>2, <3>3, <3>5, SeqEqual DEF a
  <2>4. AsBuys(l) \in Seq(Trade)
      BY AsBuysTyped
  <2>5. Replay(AsBuys(m)) = Traded(l, t)
      BY <1>2, <2>2, <2>3, <2>4, ReplayAppend
  <2>6. Traded(l, t) = Append(l, [price |-> x.price, size |-> x.size])
      BY DEF Traded
  <2>7. [price |-> x.price, size |-> x.size] = x
      BY DEF Lot
  <2> QED
      BY <2>1, <2>5, <2>6, <2>7
<1>3. Seq(Lot) \subseteq G
  <2> HIDE DEF G
  <2> QED
      BY <1>1, <1>2, SequenceInduction
<1> QED
    BY <1>3

LEMMA TotalNat == ASSUME NEW lots \in Seq(Lot) PROVE Total(lots) \in Nat
<1>1. DOMAIN lots = 1..Len(lots) /\ Len(lots) \in Nat
    BY LenProperties
<1> DEFINE f == [i \in DOMAIN lots |-> lots[i].size]
<1>2. f \in [DOMAIN lots -> Nat]
    BY LotFields
<1>3. IsFiniteSet(DOMAIN lots)
    BY <1>1, FS_Interval
<1> HIDE DEF f
<1>4. SumFunction(f) \in Nat
    BY <1>2, <1>3, SumNat
<1> QED
    BY <1>4 DEF Total, f

LEMMA TotalAppend ==
    ASSUME NEW lots \in Seq(Lot), NEW lot \in Lot
    PROVE  Total(Append(lots, lot)) = Total(lots) + lot.size
<1> DEFINE m == Append(lots, lot)
           n == Len(lots)
<1>1. m \in Seq(Lot) /\ Len(m) = n + 1 /\ m[n + 1] = lot /\ n \in Nat
    BY AppendProperties, LenProperties
<1>2. SubSeq(m, 1, n) = lots
  <2>1. \A i \in 1..n : m[i] = lots[i] /\ m[i] \in Lot
      BY AppendProperties, ElementOfSeq
  <2>2. /\ SubSeq(m, 1, n) \in Seq(Lot) /\ Len(SubSeq(m, 1, n)) = n
        /\ \A i \in 1..n : SubSeq(m, 1, n)[i] = lots[i]
    <3> DEFINE s == SubSeq(m, 1, n)
    <3> HIDE DEF m
    <3>1. /\ s \in Seq(Lot) /\ Len(s) = IF 1 <= n THEN n - 1 + 1 ELSE 0
          /\ \A i \in 1..(n - 1 + 1) : s[i] = m[1 + i - 1]
        BY <1>1, <2>1, SubSeqProperties
    <3>2. n - 1 + 1 = n /\ \A i \in 1..n : 1 + i - 1 = i
        BY <1>1
    <3>3. Len(s) = n
        BY <1>1, <3>1
    <3> HIDE DEF s
    <3>4. \A i \in 1..n : s[i] = m[i]
        BY <3>1, <3>2
    <3> QED
        BY <2>1, <3>1, <3>3, <3>4 DEF s
  <2> HIDE DEF m
  <2> QED
      BY <2>2, SeqEqual
<1> HIDE DEF m
<1>3. Upto(m, n + 1) = Total(m) /\ Upto(m, n) = Total(lots)
  <2>1. n \in 0..Len(m) /\ Len(m) = n + 1
      BY <1>1
  <2> QED
      BY <1>1, <1>2, <2>1, UptoIs
<1>4. Upto(m, n + 1) = m[n + 1].size + Upto(m, n)
  <2>1. n + 1 \in 1..Len(m) /\ (n + 1) - 1 = n
      BY <1>1
  <2>2. Upto(m, n + 1) = m[n + 1].size + Upto(m, (n + 1) - 1)
      BY <1>1, <2>1, UptoIs
  <2> QED
      BY <2>1, <2>2
<1>5. Total(lots) \in Nat /\ lot.size \in Nat
    BY TotalNat DEF Lot
<1> QED
    BY <1>1, <1>3, <1>4, <1>5 DEF m

-----------------------------------------------------------------------------
\* What is held, and what of it no open sell holds

HeldOf(ts) == Total(Replay(ts))
Buy(b) == [side |-> "BUY", price |-> b.price, size |-> b.size]
Sell(size) == [side |-> "SELL", price |-> 0, size |-> size]

LEMMA HeldNat == ASSUME NEW ts \in Seq(Trade) PROVE HeldOf(ts) \in Nat
    BY ReplayTyped, TotalNat DEF HeldOf

LEMMA HeldBuy ==
    ASSUME NEW ts \in Seq(Trade), NEW b \in Lot
    PROVE  /\ ts \o AsBuys(<<b>>) = Append(ts, Buy(b)) /\ Buy(b) \in Trade
           /\ HeldOf(Append(ts, Buy(b))) = HeldOf(ts) + b.size
<1>1. Buy(b) \in Trade
    BY DEF Buy, Trade, Lot
<1>2. AsBuys(<<b>>) = <<Buy(b)>>
    BY DEF AsBuys, Buy
<1>3. ts \o AsBuys(<<b>>) = Append(ts, Buy(b))
    BY <1>1, <1>2, AppendIsConcat
<1>4. Traded(Replay(ts), Buy(b)) = Append(Replay(ts), b)
  <2>1. [price |-> Buy(b).price, size |-> Buy(b).size] = b
      BY DEF Buy, Lot
  <2> QED
      BY <2>1 DEF Traded, Buy
<1>5. HeldOf(Append(ts, Buy(b))) = HeldOf(ts) + b.size
    BY <1>1, <1>4, ReplayAppend, ReplayTyped, TotalAppend DEF HeldOf
<1> QED
    BY <1>1, <1>3, <1>5

LEMMA HeldSell ==
    ASSUME NEW ts \in Seq(Trade), NEW size \in Nat \ {0}
    PROVE  /\ Sell(size) \in Trade
           /\ HeldOf(Append(ts, Sell(size))) = Most(0, HeldOf(ts) - size)
<1>1. Sell(size) \in Trade
    BY DEF Sell, Trade
<1>2. Traded(Replay(ts), Sell(size)) = TakeOldest(Replay(ts), size)
    BY DEF Traded, Sell
<1> QED
    BY <1>1, <1>2, ReplayAppend, ReplayTyped, TakeOldestIs DEF HeldOf

\* A part of the trades.
LEMMA CutIs ==
    ASSUME NEW ts \in Seq(Trade), NEW n \in 0..Len(ts)
    PROVE  /\ SubSeq(ts, 1, n) \in Seq(Trade) /\ SubSeq(ts, n + 1, Len(ts)) \in Seq(Trade)
           /\ SubSeq(ts, 1, n) \o SubSeq(ts, n + 1, Len(ts)) = ts
           /\ \A t \in Trade : SubSeq(Append(ts, t), 1, n) = SubSeq(ts, 1, n)
<1> DEFINE m == Len(ts)
<1>1. m \in Nat /\ n \in Nat /\ n <= m
    BY LenProperties
<1>2. \A i \in 1..n : ts[i] \in Trade
    BY <1>1, ElementOfSeq
<1>3. \A i \in (n + 1)..m : ts[i] \in Trade
    BY <1>1, ElementOfSeq
<1>4. SubSeq(ts, 1, n) \in Seq(Trade)
    BY <1>1, <1>2, SubSeqProperties
<1>5. SubSeq(ts, n + 1, m) \in Seq(Trade)
  <2>1. n + 1 \in Int /\ m \in Int
      BY <1>1
  <2> QED
      BY <1>3, <2>1, SubSeqProperties
<1>6. SubSeq(ts, 1, n) \o SubSeq(ts, n + 1, m) = ts
  <2>1. 1 \in 1..(m + 1) /\ n \in (1 - 1)..m /\ m \in n..m
      BY <1>1
  <2>2. SubSeq(ts, 1, n) \o SubSeq(ts, n + 1, m) = SubSeq(ts, 1, m)
      BY <2>1, ConcatAdjacentSubSeq
  <2> QED
      BY <2>2, SubSeqFull
<1>7. ASSUME NEW t \in Trade PROVE SubSeq(Append(ts, t), 1, n) = SubSeq(ts, 1, n)
  <2>1. CASE n = 0
    <3>1. SubSeq(Append(ts, t), 1, 0) = <<>> /\ SubSeq(ts, 1, 0) = <<>>
        BY SubSeqEmpty
    <3> QED
        BY <2>1, <3>1
  <2>2. CASE n # 0
    <3>1. Append(ts, t) = ts \o <<t>> /\ <<t>> \in Seq(Trade)
        BY AppendIsConcat
    <3>2. 1 \in 1..Len(ts) /\ n \in 1..Len(ts)
        BY <1>1, <2>2
    <3> QED
        BY <3>1, <3>2, SubSeqOfConcat1
  <2> QED
      BY <2>1, <2>2
<1> QED
    BY <1>4, <1>5, <1>6, <1>7

LeftOf(S) == SumFunction([o \in S |-> o.left])
FreeOf(ts, S, p) == HeldOf(ts) - LeftOf(SellsOf(p, S))

LEMMA LeftPart ==
    ASSUME NEW S \in SUBSET Sale, IsFiniteSet(S), NEW T \in SUBSET S
    PROVE  LeftOf(S) \in Nat /\ LeftOf(T) \in Nat /\ LeftOf(T) <= LeftOf(S)
<1> DEFINE f == [o \in S |-> o.left]
<1>1. f \in [S -> Nat]
    BY DEF Sale
<1>2. [o \in T |-> f[o]] = [o \in T |-> o.left]
    OBVIOUS
<1> HIDE DEF f
<1>3. SumOn(f, T) \in Nat /\ SumOn(f, T) <= SumFunction(f) /\ SumFunction(f) \in Nat
    BY <1>1, SumPart, SumNat
<1> QED
    BY <1>2, <1>3 DEF LeftOf, SumOn, f

LEMMA LeftInsert ==
    ASSUME NEW S \in SUBSET Sale, IsFiniteSet(S), NEW s \in Sale, s \notin S
    PROVE  LeftOf(S \union {s}) = s.left + LeftOf(S)
<1> DEFINE D == S \union {s}
           f == [o \in D |-> o.left]
<1>1. f \in [D -> Int] /\ f[s] = s.left
    BY DEF Sale
<1>2. IsFiniteSet(D) /\ S \in SUBSET D /\ s \in D
    BY FS_AddElement
<1>3. [o \in S |-> f[o]] = [o \in S |-> o.left] /\ [o \in S \union {s} |-> f[o]] = f
    OBVIOUS
<1> HIDE DEF f, D
<1>4. SumOn(f, S \union {s}) = f[s] + SumOn(f, S)
    BY <1>1, <1>2, SumInsert
<1> QED
    BY <1>1, <1>3, <1>4 DEF LeftOf, SumOn, f, D

\* The sells of a position are some of the open ones.
LEMMA SellsFinite ==
    ASSUME NEW S, IsFiniteSet(S), NEW p
    PROVE  SellsOf(p, S) \subseteq S /\ IsFiniteSet(SellsOf(p, S))
    BY FS_Subset DEF SellsOf

LEMMA FreeIs ==
    ASSUME NEW p, trades[p] \in Seq(Trade), NEW open
    PROVE  Free(p, open) = FreeOf(trades[p], open, p)
<1>1. SubSeq(trades[p], 1, Len(trades[p])) = trades[p]
    BY SubSeqFull
<1> QED
    BY <1>1 DEF Free, FreeOf, LeftOf, Held, HeldOf, Lots

LEMMA FreeGrows ==
    ASSUME NEW ts \in Seq(Trade), NEW p, NEW S \in SUBSET Sale, IsFiniteSet(S), NEW T \in SUBSET S
    PROVE  FreeOf(ts, T, p) \in Int /\ FreeOf(ts, S, p) \in Int /\ FreeOf(ts, T, p) >= FreeOf(ts, S, p)
           /\ FreeOf(ts, S, p) <= HeldOf(ts)
<1>1. SellsOf(p, T) \subseteq SellsOf(p, S) /\ SellsOf(p, S) \subseteq Sale
    BY DEF SellsOf
<1>2. IsFiniteSet(SellsOf(p, S))
    BY SellsFinite
<1>3. LeftOf(SellsOf(p, S)) \in Nat /\ LeftOf(SellsOf(p, T)) \in Nat
      /\ LeftOf(SellsOf(p, T)) <= LeftOf(SellsOf(p, S))
    BY <1>1, <1>2, LeftPart
<1> QED
    BY <1>3, HeldNat DEF FreeOf

-----------------------------------------------------------------------------
\* Types: what the world is, and what the tick has read of it

\* A cost is worth a tick a share at least.
Cost == {c \in [worth : Nat, size : Nat \ {0}] : c.worth >= c.size}

TradesOK ==
    /\ DOMAIN trades = Positions /\ DOMAIN shown = Positions
    /\ \A p \in Positions : trades[p] \in Seq(Trade) /\ shown[p] \in 0..Len(trades[p])
FreeOK == \A p \in Positions : FreeOf(trades[p], orders, p) >= 0
WorldOK ==
    /\ TradesOK /\ orders \subseteq Sale /\ FreeOK
    /\ DOMAIN book = Positions /\ \A p \in Positions : book[p] \in Books[p]
    /\ cash \in Nat /\ owed \in Nat /\ cooling \in BOOLEAN /\ proposed \subseteq Positions
ReadsOK ==
    /\ view \subseteq Sale /\ (snapshot = Unread \/ snapshot \subseteq Sale)
    /\ DOMAIN cost = Positions /\ DOMAIN quote = Positions
    /\ \A p \in Positions : cost[p] \in Cost \union {Unread, Unknown}
                            /\ quote[p] \in Books[p] \union {Unread, Unknown}
    /\ est \in Nat /\ had \in Nat
    /\ dumped \subseteq Positions /\ resolving \subseteq Positions /\ moved \subseteq Positions
    /\ pc \in {"idle", "low", "liquidate", "exit", "each"}
\* What is still to be looked at was read.
TodoOK ==
    /\ DOMAIN todo \subseteq Positions
    /\ \A p \in DOMAIN todo :
           /\ todo[p] \in Nat \ {0}
           /\ pc \in {"liquidate", "each"} => cost[p] # Unread /\ quote[p] # Unread
           /\ pc = "liquidate" => cost[p] # Unknown
IdsSay(r) == r.is \in {"keep", "rest", "maker", "waits"} <=> r.id # 0
RowIds == \A p \in Positions : IdsSay(row[p])
TypeInv == WorldOK /\ ReadsOK /\ TodoOK /\ RowIds

LEMMA LotsTyped ==
    ASSUME TradesOK, NEW p \in Positions, NEW n \in 0..Len(trades[p])
    PROVE  Lots(p, n) \in Seq(Lot) /\ Total(Lots(p, n)) \in Nat
    BY CutIs, ReplayTyped, TotalNat DEF TradesOK, Lots

LEMMA CostTyped ==
    ASSUME NEW lots \in Seq(Lot)
    PROVE  /\ CostOf(lots).size = Total(lots) /\ CostOf(lots) \in [worth : Nat, size : Nat]
           /\ Total(lots) > 0 => CostOf(lots) \in Cost
<1> DEFINE D == DOMAIN lots
           f == [i \in D |-> lots[i].price * lots[i].size]
           g == [i \in D |-> lots[i].size]
<1>1. D = 1..Len(lots) /\ Len(lots) \in Nat
    BY LenProperties
<1>2. IsFiniteSet(D)
    BY <1>1, FS_Interval
<1>3. ASSUME NEW i \in D
      PROVE  lots[i].size \in Nat /\ lots[i].price * lots[i].size \in Nat
             /\ lots[i].price * lots[i].size >= lots[i].size
  <2>1. \A x, y \in Nat : x > 0 => x * y \in Nat /\ x * y >= y
      OBVIOUS
  <2> QED
      BY <2>1, LotFields
<1>4. f \in [D -> Nat] /\ g \in [D -> Nat] /\ \A i \in D : g[i] <= f[i]
    BY <1>3
<1>5. Total(lots) = SumFunction(g)
    BY DEF Total
<1>6. CostOf(lots) = [worth |-> SumFunction(f), size |-> SumFunction(g)]
    BY <1>5 DEF CostOf
<1> HIDE DEF f, g, D
<1>7. SumFunction(f) \in Nat /\ SumFunction(g) \in Nat
    BY <1>2, <1>4, SumNat
<1>8. SumFunction(g) <= SumFunction(f)
  <2>1. f \in [D -> Int] /\ g \in [D -> Int]
      BY <1>4
  <2> QED
      BY <1>2, <1>4, <2>1, SumLeq
<1> QED
    BY <1>5, <1>6, <1>7, <1>8 DEF Cost

LEMMA RebuiltTyped ==
    ASSUME TradesOK, NEW p \in Positions, NEW size
    PROVE  Rebuilt(p, size) \in Cost \union {Unknown}
<1> DEFINE n == Len(trades[p])
<1>1. n \in 0..n
    BY LenProperties DEF TradesOK
<1>2. Lots(p, n) \in Seq(Lot)
    BY <1>1, LotsTyped
<1>3. CostOf(Lots(p, n)).size = Total(Lots(p, n))
      /\ (Total(Lots(p, n)) > 0 => CostOf(Lots(p, n)) \in Cost)
    BY <1>2, CostTyped
<1> QED
    BY <1>3 DEF Rebuilt

\* A cost is neither unread nor unknown.
LEMMA CostIsKnown == ASSUME NEW c \in Cost PROVE c # Unread /\ c # Unknown
<1>1. c \in [worth : Nat, size : Nat]
    BY DEF Cost
<1> QED
    BY <1>1, UnreadAssumption

LEMMA BidsTyped ==
    ASSUME NEW p \in Positions, NEW b \in Books[p]
    PROVE  b.bids \in Seq(Lot) /\ b.ask \in Nat
<1>1. b \in Book
    BY ConstantsAssumption
<1> QED
    BY <1>1 DEF Book

LEMMA QuotedTyped ==
    ASSUME NEW p \in Positions, NEW b \in Books[p] \union {Unknown}
    PROVE  BestBid(b) \in Nat /\ BestAsk(b) \in Nat
<1>1. CASE b = Unknown
    BY <1>1 DEF BestBid, BestAsk
<1>2. CASE b \in Books[p] /\ b # Unknown
  <2>1. b.bids \in Seq(Lot) /\ b.ask \in Nat
      BY <1>2, BidsTyped
  <2>2. b.bids # <<>> => b.bids[1].price \in Nat
    <3>1. ASSUME b.bids # <<>> PROVE 1 \in DOMAIN b.bids
        BY <2>1, <3>1, EmptySeq, LenProperties
    <3> QED
        BY <2>1, <3>1, LotFields
  <2> QED
      BY <1>2, <2>1, <2>2 DEF BestBid, BestAsk
<1> QED
    BY <1>1, <1>2

LEMMA TakenNat ==
    ASSUME NEW lots \in Seq(Lot), NEW size \in Nat, NEW i \in DOMAIN lots
    PROVE  Taken(lots, size, i) \in Nat
<1>1. i \in 1..Len(lots) /\ Len(lots) \in Nat /\ DOMAIN lots = 1..Len(lots)
    BY LenProperties
<1>2. i - 1 \in 0..Len(lots)
    BY <1>1
<1>3. Total(SubSeq(lots, 1, i - 1)) \in Int
  <2>1. Total(SubSeq(lots, 1, i - 1)) = Upto(lots, i - 1) /\ Upto(lots, i - 1) \in Int
      BY <1>2, UptoIs
  <2> QED
      BY <2>1
<1>4. lots[i].size \in Nat
    BY LotFields
<1> QED
    BY <1>3, <1>4 DEF Taken, Fewest, Most

LEMMA ProceedsNat ==
    ASSUME NEW p \in Positions, NEW b \in Books[p], NEW size \in Nat
    PROVE  Proceeds(b, size) \in Nat /\ Depth(b, size) \in Nat /\ Depth(b, size) <= size
<1> DEFINE D == DOMAIN b.bids
           f == [i \in D |-> Taken(b.bids, size, i) * b.bids[i].price]
<1>1. b.bids \in Seq(Lot)
    BY BidsTyped
<1>2. IsFiniteSet(D)
  <2>1. D = 1..Len(b.bids) /\ Len(b.bids) \in Nat
      BY <1>1, LenProperties
  <2> QED
      BY <2>1, FS_Interval
<1>3. f \in [D -> Nat]
  <2>1. \A x, y \in Nat : x * y \in Nat
      OBVIOUS
  <2>2. \A i \in D : Taken(b.bids, size, i) \in Nat /\ b.bids[i].price \in Nat
      BY <1>1, TakenNat, LotFields
  <2> QED
      BY <2>1, <2>2
<1> HIDE DEF f, D
<1>4. SumFunction(f) \in Nat
    BY <1>2, <1>3, SumNat
<1>5. Proceeds(b, size) = SumFunction(f)
    BY DEF Proceeds, f, D
<1>6. Total(b.bids) \in Nat
    BY <1>1, TotalNat
<1> QED
    BY <1>4, <1>5, <1>6 DEF Depth, Fewest

-----------------------------------------------------------------------------
\* What a turn does to the trades and to the sells that its cancel has left open:
\* it sells at once, or rests a sell, and never more than no other sell holds.

SoldOf(p, size, open) == size \in Nat /\ (size = 0 \/ size <= FreeOf(trades[p], open, p))
Dealt(p, open) ==
    \/ orders' = open /\ \E size : SoldOf(p, size, open) /\ trades' = Sold(p, size)
    \/ /\ trades' = trades
       /\ \E s \in Sale : /\ s.id = NewId /\ s.pos = p /\ s.left <= FreeOf(trades[p], open, p)
                          /\ orders' = open \union {s}
Deals(p) ==
    /\ \E open \in SUBSET orders : Dealt(p, open)
    /\ UNCHANGED <<shown, book, proposed, cooling>>
    /\ cash' \in Nat /\ owed' \in Nat

LEMMA SoldIs ==
    ASSUME TradesOK, NEW p \in Positions, NEW size \in Nat
    PROVE  /\ DOMAIN Sold(p, size) = Positions
           /\ \A q \in Positions \ {p} : Sold(p, size)[q] = trades[q]
           /\ size = 0 => Sold(p, size)[p] = trades[p]
           /\ size # 0 => Sold(p, size)[p] = Append(trades[p], Sell(size))
    BY DEF Sold, Sell, TradesOK

LEMMA SoldTyped ==
    ASSUME TradesOK, NEW p \in Positions, NEW size \in Nat
    PROVE  /\ Sold(p, size)[p] \in Seq(Trade) /\ Len(trades[p]) \in Nat
           /\ Len(Sold(p, size)[p]) >= Len(trades[p])
           /\ HeldOf(Sold(p, size)[p]) = Most(0, HeldOf(trades[p]) - size)
<1>1. trades[p] \in Seq(Trade)
    BY DEF TradesOK
<1>2. Len(trades[p]) \in Nat /\ HeldOf(trades[p]) \in Nat
    BY <1>1, LenProperties, HeldNat
<1>3. CASE size = 0
    BY <1>1, <1>2, <1>3, SoldIs DEF Most
<1>4. CASE size # 0
  <2>1. Sold(p, size)[p] = Append(trades[p], Sell(size))
      BY <1>4, SoldIs
  <2>2. Sell(size) \in Trade /\ HeldOf(Append(trades[p], Sell(size))) = Most(0, HeldOf(trades[p]) - size)
      BY <1>1, <1>4, HeldSell
  <2>3. Append(trades[p], Sell(size)) \in Seq(Trade) /\ Len(Append(trades[p], Sell(size))) = Len(trades[p]) + 1
      BY <1>1, <2>2, AppendProperties
  <2> QED
      BY <1>2, <2>1, <2>2, <2>3
<1> QED
    BY <1>3, <1>4

LEMMA DealtFree ==
    ASSUME WorldOK, Finite, NEW p \in Positions, NEW open \in SUBSET orders, Dealt(p, open),
           NewId \notin IdsOf(orders), shown' = shown
    PROVE  TradesOK' /\ orders' \subseteq Sale /\ FreeOK'
<1>1. TradesOK /\ orders \subseteq Sale /\ IsFiniteSet(orders)
    BY DEF WorldOK, Finite
<1>2. open \subseteq Sale /\ IsFiniteSet(open)
    BY <1>1, FS_Subset
<1>3. ASSUME NEW q \in Positions
      PROVE  /\ FreeOf(trades[q], open, q) \in Int /\ FreeOf(trades[q], open, q) >= 0
             /\ FreeOf(trades[q], open, q) <= HeldOf(trades[q])
  <2>1. trades[q] \in Seq(Trade) /\ FreeOf(trades[q], orders, q) >= 0
      BY <1>1 DEF TradesOK, WorldOK, FreeOK
  <2>2. /\ FreeOf(trades[q], open, q) \in Int /\ FreeOf(trades[q], orders, q) \in Int
        /\ FreeOf(trades[q], open, q) >= FreeOf(trades[q], orders, q)
      BY <1>1, <2>1, FreeGrows
  <2>3. FreeOf(trades[q], open, q) <= HeldOf(trades[q])
      BY <1>2, <2>1, FreeGrows
  <2> QED
      BY <2>1, <2>2, <2>3
<1>4. ASSUME orders' = open, NEW size, SoldOf(p, size, open), trades' = Sold(p, size)
      PROVE  TradesOK' /\ orders' \subseteq Sale /\ FreeOK'
  <2>1. size \in Nat
      BY <1>4 DEF SoldOf
  <2>2. /\ DOMAIN trades' = Positions /\ \A q \in Positions \ {p} : trades'[q] = trades[q]
        /\ trades'[p] \in Seq(Trade) /\ Len(trades'[p]) >= Len(trades[p]) /\ Len(trades[p]) \in Nat
        /\ HeldOf(trades'[p]) = Most(0, HeldOf(trades[p]) - size)
      BY <1>1, <1>4, <2>1, SoldIs, SoldTyped
  <2>3. Len(trades'[p]) \in Nat
      BY <2>2, LenProperties
  <2>4. TradesOK'
      BY <1>1, <2>2, <2>3 DEF TradesOK
  <2>5. ASSUME NEW q \in Positions PROVE FreeOf(trades'[q], open, q) >= 0
    <3>1. CASE q # p
        BY <1>3, <2>2, <3>1
    <3>2. CASE q = p
      <4>1. HeldOf(trades[p]) \in Nat
          BY <1>1, HeldNat DEF TradesOK
      <4>2. size = 0 \/ size <= FreeOf(trades[p], open, p)
          BY <1>4 DEF SoldOf
      <4>3. HeldOf(trades'[p]) = HeldOf(trades[p]) - size
          BY <1>3, <2>1, <2>2, <4>1, <4>2 DEF Most
      <4> DEFINE left == LeftOf(SellsOf(p, open))
      <4>4. left \in Nat
        <5>1. SellsOf(p, open) \subseteq open /\ IsFiniteSet(SellsOf(p, open))
            BY <1>2, SellsFinite
        <5> QED
            BY <1>2, <5>1, LeftPart
      <4>5. FreeOf(trades[p], open, p) = HeldOf(trades[p]) - left
            /\ FreeOf(trades'[p], open, p) = HeldOf(trades'[p]) - left
          BY DEF FreeOf
      <4>6. FreeOf(trades[p], open, p) >= 0
          BY <1>3
      <4> HIDE DEF left
      <4> QED
          BY <2>1, <3>2, <4>1, <4>2, <4>3, <4>4, <4>5, <4>6
    <3> QED
        BY <3>1, <3>2
  <2> QED
      BY <1>2, <1>4, <2>4, <2>5 DEF FreeOK
<1>5. ASSUME trades' = trades, NEW s \in Sale, s.id = NewId, s.pos = p,
             s.left <= FreeOf(trades[p], open, p), orders' = open \union {s}
      PROVE  TradesOK' /\ orders' \subseteq Sale /\ FreeOK'
  <2>1. TradesOK' /\ orders' \subseteq Sale
      BY <1>1, <1>2, <1>5 DEF TradesOK
  <2>2. s \notin open
      BY <1>5 DEF IdsOf
  <2>3. ASSUME NEW q \in Positions PROVE FreeOf(trades[q], orders', q) >= 0
    <3>1. CASE q # p
      <4>1. SellsOf(q, orders') = SellsOf(q, open)
          BY <1>5, <3>1 DEF SellsOf
      <4> QED
          BY <1>3, <4>1 DEF FreeOf
    <3>2. CASE q = p
      <4> DEFINE mine == SellsOf(p, open)
      <4>1. SellsOf(p, orders') = mine \union {s}
          BY <1>5 DEF SellsOf
      <4>2. mine \subseteq Sale /\ IsFiniteSet(mine) /\ s \notin mine
          BY <1>2, <2>2, SellsFinite
      <4>3. FreeOf(trades[p], open, p) = HeldOf(trades[p]) - LeftOf(mine)
          BY DEF FreeOf
      <4> HIDE DEF mine
      <4>4. LeftOf(mine \union {s}) = s.left + LeftOf(mine)
          BY <4>2, LeftInsert
      <4>5. LeftOf(mine) \in Nat /\ HeldOf(trades[p]) \in Nat /\ s.left \in Nat
          BY <1>1, <4>2, LeftPart, HeldNat DEF TradesOK, Sale
      <4>6. FreeOf(trades[p], orders', p) = HeldOf(trades[p]) - LeftOf(mine \union {s})
          BY <4>1 DEF FreeOf
      <4> QED
          BY <1>5, <3>2, <4>3, <4>4, <4>5, <4>6
    <3> QED
        BY <3>1, <3>2
  <2> QED
      BY <1>5, <2>1, <2>3 DEF FreeOK
<1> QED
    BY <1>4, <1>5 DEF Dealt

LEMMA DealsWorldOK ==
    ASSUME WorldOK, SellsOK, NEW p \in Positions, Deals(p)
    PROVE  WorldOK'
<1>1. PICK open \in SUBSET orders : Dealt(p, open)
    BY DEF Deals
<1>2. Finite /\ NewId \notin IdsOf(orders) /\ shown' = shown
    BY NewIdIsNew DEF SellsOK, Deals
<1>3. TradesOK' /\ orders' \subseteq Sale /\ FreeOK'
    BY <1>1, <1>2, DealtFree
<1> QED
    BY <1>3 DEF WorldOK, Deals

LEMMA NothingDealt ==
    ASSUME NEW p, orders' \subseteq orders, trades' = trades
    PROVE  \E open \in SUBSET orders : Dealt(p, open)
<1>1. SoldOf(p, 0, orders') /\ trades' = Sold(p, 0)
    BY DEF SoldOf, Sold
<1>2. Dealt(p, orders')
    BY <1>1 DEF Dealt
<1> QED
    BY <1>2

\* A sell at the market takes of what is free.
LEMMA FilledOf ==
    ASSUME WorldOK, Finite, NEW p \in Positions, NEW size \in Nat, NEW open \in SUBSET orders,
           NEW answer
    PROVE  /\ SoldOf(p, Filled(p, size, open, answer), open)
           /\ Proceeds(book[p], Filled(p, size, open, answer)) \in Nat
<1>1. trades[p] \in Seq(Trade) /\ orders \subseteq Sale /\ IsFiniteSet(orders) /\ book[p] \in Books[p]
    BY DEF WorldOK, TradesOK, Finite
<1>2. FreeOf(trades[p], open, p) \in Int
  <2>1. open \subseteq Sale /\ IsFiniteSet(open)
      BY <1>1, FS_Subset
  <2> QED
      BY <1>1, <2>1, FreeGrows
<1>3. Free(p, open) = FreeOf(trades[p], open, p)
    BY <1>1, FreeIs
<1>4. Depth(book[p], size) \in Nat /\ Depth(book[p], size) <= size
    BY <1>1, ProceedsNat
<1>5. SoldOf(p, Filled(p, size, open, answer), open)
    BY <1>2, <1>3, <1>4 DEF SoldOf, Filled
<1>6. Filled(p, size, open, answer) \in Nat
    BY <1>5 DEF SoldOf
<1> QED
    BY <1>1, <1>5, <1>6, ProceedsNat

LEMMA SaleDealt ==
    ASSUME NEW p, NEW ids, NEW answer, NEW size, SoldOf(p, size, After(ids, answer)),
           orders' = After(ids, answer), trades' = Sold(p, size)
    PROVE  \E open \in SUBSET orders : Dealt(p, open)
<1>1. After(ids, answer) \subseteq orders
    BY AfterLess
<1>2. Dealt(p, After(ids, answer))
    BY DEF Dealt
<1> QED
    BY <1>1, <1>2

LEMMA PlacedDealt ==
    ASSUME WorldOK, Finite, NEW p \in Positions, NEW price \in Nat \ {0}, NEW size \in Nat \ {0},
           NEW open \in SUBSET orders, NEW answer,
           orders' = Placed(p, price, size, open, answer), trades' = trades
    PROVE  Dealt(p, open)
<1>1. trades[p] \in Seq(Trade) /\ orders \subseteq Sale /\ IsFiniteSet(orders)
    BY DEF WorldOK, TradesOK, Finite
<1>2. FreeOf(trades[p], open, p) \in Int
  <2>1. open \subseteq Sale /\ IsFiniteSet(open)
      BY <1>1, FS_Subset
  <2> QED
      BY <1>1, <2>1, FreeGrows
<1>3. Free(p, open) = FreeOf(trades[p], open, p)
    BY <1>1, FreeIs
<1>4. CASE orders' = open
  <2>1. SoldOf(p, 0, open) /\ trades' = Sold(p, 0)
      BY DEF SoldOf, Sold
  <2> QED
      BY <1>4, <2>1 DEF Dealt
<1>5. CASE ~(answer = "rejected" \/ size > Free(p, open))
  <2> DEFINE s == [id |-> NewId, pos |-> p, price |-> price, left |-> size]
  <2>1. orders' = open \union {s}
      BY <1>5 DEF Placed
  <2>2. NewId \in Nat \ {0}
      BY NewIdIsNew
  <2>3. s \in Sale /\ s.id = NewId /\ s.pos = p /\ s.left <= FreeOf(trades[p], open, p)
      BY <1>2, <1>3, <1>5, <2>2 DEF Sale
  <2> HIDE DEF s
  <2> QED
      BY <2>1, <2>3 DEF Dealt
<1> QED
    BY <1>4, <1>5 DEF Placed

-----------------------------------------------------------------------------
\* Types: the turns of the tick

LEMMA LookedAt ==
    ASSUME TypeInv, NEW p \in Positions, Looks(p)
    PROVE  /\ p \in DOMAIN todo /\ todo[p] \in Nat \ {0} /\ cost[p] \in Cost \union {Unknown}
           /\ quote[p] \in Books[p] \union {Unknown}
           /\ BestBid(quote[p]) \in Nat /\ BestAsk(quote[p]) \in Nat
           /\ UNCHANGED <<shown, book, proposed, cooling, owed>>
<1>1. /\ p \in DOMAIN todo /\ pc = "each"
      /\ UNCHANGED <<shown, book, proposed, cooling, owed>>
    BY DEF Looks
<1>2. todo[p] \in Nat \ {0} /\ cost[p] # Unread /\ quote[p] # Unread
    BY <1>1 DEF TypeInv, TodoOK
<1>3. cost[p] \in Cost \union {Unknown} /\ quote[p] \in Books[p] \union {Unknown}
    BY <1>2 DEF TypeInv, ReadsOK
<1>4. BestBid(quote[p]) \in Nat /\ BestAsk(quote[p]) \in Nat
    BY <1>3, QuotedTyped
<1> QED
    BY <1>1, <1>2, <1>3, <1>4

LEMMA PaidNat ==
    ASSUME NEW amount \in Nat, cash \in Nat, Paid(amount) PROVE cash' \in Nat
    BY ConstantsAssumption DEF Paid, Fewest

LEMMA Reported ==
    ASSUME DOMAIN row = Positions, NEW p \in Positions, NEW is, NEW id, Report(p, is, id)
    PROVE  row'[p].is = is /\ row'[p].id = id
    BY DEF Report

\* What is told of a turn is of its row.
TurnOK(p) == Deals(p) /\ IdsSay(row'[p])

LEMMA UntouchedDeals ==
    ASSUME TypeInv, NEW p \in Positions, Looks(p), Untouched
    PROVE  Deals(p)
<1>1. orders' \subseteq orders /\ trades' = trades /\ cash' = cash
    BY DEF Untouched
<1>2. \E open \in SUBSET orders : Dealt(p, open)
    BY <1>1, NothingDealt
<1>3. cash' \in Nat /\ owed' \in Nat /\ UNCHANGED <<shown, book, proposed, cooling>>
    BY <1>1, LookedAt DEF TypeInv, WorldOK
<1> QED
    BY <1>2, <1>3 DEF Deals

LEMMA QuietTypes ==
    ASSUME TypeInv, SellsOK, NEW p \in Positions, Naked(p) \/ DeadBook(p) \/ MakerWaits(p)
    PROVE  TurnOK(p)
<1>0. DOMAIN row = Positions
    BY DEF SellsOK
<1>1. Looks(p) /\ Untouched
    BY DEF Naked, DeadBook, Decides, MakerWaits, Routes
<1>2. Deals(p)
    BY <1>1, UntouchedDeals
<1>3. PICK is, id : Report(p, is, id) /\ (is \in {"keep", "rest", "maker", "waits"} <=> id # 0)
  <2>1. CASE Naked(p)
    <3>1. Report(p, "naked", 0)
        BY <2>1 DEF Naked
    <3> QED
        BY <3>1
  <2>2. CASE DeadBook(p)
    <3>1. Report(p, "empty", 0)
        BY <2>2 DEF DeadBook
    <3> QED
        BY <3>1
  <2>3. CASE MakerWaits(p)
    <3>1. Report(p, "waits", managed[p]) /\ managed[p] # 0
        BY <2>3 DEF MakerWaits
    <3> QED
        BY <3>1
  <2> QED
      BY <2>1, <2>2, <2>3
<1>4. row'[p].is = is /\ row'[p].id = id
    BY <1>0, <1>3, Reported
<1> QED
    BY <1>2, <1>3, <1>4 DEF TurnOK, IdsSay

\* A sell that has an id.
LEMMA KeepTypes ==
    ASSUME TypeInv, SellsOK, NEW p \in Positions, Keep(p)
    PROVE  TurnOK(p)
<1>1. Looks(p) /\ Untouched
    BY DEF Keep, Decides
<1>2. Deals(p)
    BY <1>1, UntouchedDeals
<1>3. PICK o \in OwnSells(p) : Report(p, "keep", o.id)
    BY DEF Keep
<1>4. o.id # 0
  <2>1. o \in Sale
      BY DEF OwnSells, SellsOf, TypeInv, ReadsOK
  <2> QED
      BY <2>1 DEF Sale
<1>5. row'[p].is = "keep" /\ row'[p].id = o.id
    BY <1>3, Reported DEF SellsOK
<1> QED
    BY <1>2, <1>4, <1>5 DEF TurnOK, IdsSay

LEMMA DumpTypes ==
    ASSUME TypeInv, SellsOK, NEW p \in Positions, NEW cancel, NEW sale, NEW size, NEW answer,
           todo[p] \in Nat,
           NEW ids, orders' = After(ids, cancel), trades' = Sold(p, size),
           size = Filled(p, todo[p], After(ids, cancel), answer)
    PROVE  /\ \E open \in SUBSET orders : Dealt(p, open)
           /\ size \in Nat /\ Proceeds(book[p], size) \in Nat
<1>1. WorldOK /\ Finite /\ After(ids, cancel) \in SUBSET orders
    BY AfterLess DEF TypeInv, SellsOK
<1>2. SoldOf(p, size, After(ids, cancel)) /\ Proceeds(book[p], size) \in Nat
    BY <1>1, FilledOf
<1> QED
    BY <1>2, SaleDealt DEF SoldOf

LEMMA ResolveTypes ==
    ASSUME TypeInv, SellsOK, NEW p \in Positions, Resolve(p)
    PROVE  TurnOK(p)
<1>0. DOMAIN row = Positions /\ Looks(p) /\ cash \in Nat
    BY DEF SellsOK, Resolve, TypeInv, WorldOK
<1>1. CASE BestBid(quote[p]) = 0
  <2>1. Report(p, "nobid", 0) /\ Untouched
      BY <1>1 DEF Resolve
  <2>2. IdsSay(row'[p])
      BY <1>0, <2>1, Reported DEF IdsSay
  <2> QED
      BY <1>0, <2>1, <2>2, UntouchedDeals DEF TurnOK
<1>2. CASE BestBid(quote[p]) # 0
  <2>1. PICK cancel \in CancelAnswers, sale \in SaleAnswers :
            \E fill \in {Filled(p, todo[p], After(IdsOf(OwnSells(p)), cancel), sale)} :
                MarketDump(p, cancel, sale, fill) /\ Paid(Proceeds(book[p], fill))
      BY <1>2 DEF Resolve
  <2> DEFINE ids == IdsOf(OwnSells(p))
             fill == Filled(p, todo[p], After(ids, cancel), sale)
  <2>2. /\ orders' = After(ids, cancel) /\ trades' = Sold(p, fill)
        /\ Paid(Proceeds(book[p], fill))
        /\ Report(p, IF fill > 0 /\ sale = "ok" THEN "sold" ELSE "unsold", 0)
      BY <2>1 DEF MarketDump
  <2>3. todo[p] \in Nat
      BY <1>0, LookedAt
  <2>4. IdsSay(row'[p])
      BY <1>0, <2>2, Reported DEF IdsSay
  <2> HIDE DEF ids, fill
  <2>5. (\E open \in SUBSET orders : Dealt(p, open)) /\ Proceeds(book[p], fill) \in Nat
      BY <2>2, <2>3, DumpTypes DEF fill
  <2>6. cash' \in Nat
      BY <1>0, <2>2, <2>5, PaidNat
  <2>7. owed' \in Nat /\ UNCHANGED <<shown, book, proposed, cooling>>
      BY <1>0, LookedAt DEF TypeInv, WorldOK
  <2> QED
      BY <2>4, <2>5, <2>6, <2>7 DEF TurnOK, Deals
<1> QED
    BY <1>1, <1>2

LEMMA SellNowTypes ==
    ASSUME TypeInv, SellsOK, NEW p \in Positions, SellNow(p)
    PROVE  TurnOK(p)
<1>0. DOMAIN row = Positions /\ Looks(p) /\ cash \in Nat
    BY DEF SellsOK, SellNow, Decides, TypeInv, WorldOK
<1>1. PICK cancel \in CancelAnswers, sale \in SaleAnswers :
         \E ids \in {IdsOf(OwnSells(p))} :
          \E fill \in {Filled(p, todo[p], After(ids, cancel), sale)} :
            /\ orders' = After(ids, cancel) /\ trades' = Sold(p, fill)
            /\ Paid(Proceeds(book[p], fill))
            /\ Report(p, IF fill > 0 /\ sale = "ok" THEN "sold" ELSE "naked", 0)
    BY DEF SellNow
<1> DEFINE ids == IdsOf(OwnSells(p))
           fill == Filled(p, todo[p], After(ids, cancel), sale)
<1>2. /\ orders' = After(ids, cancel) /\ trades' = Sold(p, fill)
      /\ Paid(Proceeds(book[p], fill))
      /\ Report(p, IF fill > 0 /\ sale = "ok" THEN "sold" ELSE "naked", 0)
    BY <1>1
<1>3. todo[p] \in Nat
    BY <1>0, LookedAt
<1>4. IdsSay(row'[p])
    BY <1>0, <1>2, Reported DEF IdsSay
<1> HIDE DEF ids, fill
<1>5. (\E open \in SUBSET orders : Dealt(p, open)) /\ Proceeds(book[p], fill) \in Nat
    BY <1>2, <1>3, DumpTypes DEF fill
<1>6. cash' \in Nat
    BY <1>0, <1>2, <1>5, PaidNat
<1>7. owed' \in Nat /\ UNCHANGED <<shown, book, proposed, cooling>>
    BY <1>0, LookedAt DEF TypeInv, WorldOK
<1> QED
    BY <1>4, <1>5, <1>6, <1>7 DEF TurnOK, Deals

LEMMA RestPriceIs ==
    ASSUME TypeInv, NEW p \in Positions, cost[p] \in Cost
    PROVE  CeilToTick(cost[p]) \in Nat \ {0} /\ CeilToTick(cost[p]) * cost[p].size >= cost[p].worth
<1> DEFINE w == cost[p].worth
           n == cost[p].size
           q == (w + n - 1) \div n
<1>1. w \in Nat /\ n \in Nat /\ n > 0 /\ w >= n
    BY DEF Cost
<1>2. CeilToTick(cost[p]) = q
    BY DEF CeilToTick
<1>3. q \in Nat /\ q * n >= w /\ q > 0
  <2> HIDE DEF w, n
  <2> DEFINE x == w + n - 1
  <2>1. x \in Nat /\ n \in Nat /\ n > 0
      BY <1>1
  <2>2. x = n * (x \div n) + (x % n) /\ x % n \in 0..(n - 1) /\ x \div n \in Int
    <3> HIDE DEF x
    <3> QED
        BY <2>1
  <2>3. n * (x \div n) >= x - (n - 1)
    <3>1. n * (x \div n) \in Int
        BY <2>1, <2>2
    <3> HIDE DEF x
    <3> QED
        BY <2>1, <2>2, <3>1
  <2>4. n * (x \div n) >= w
      BY <1>1, <2>2, <2>3
  <2>5. x \div n > 0
    <3>1. ASSUME x \div n <= 0 PROVE FALSE
      <4>1. \A m \in Nat, k \in Int : k <= 0 => m * k <= 0
          OBVIOUS
      <4>2. n * (x \div n) <= 0
          BY <2>1, <2>2, <3>1, <4>1
      <4> QED
          BY <1>1, <2>2, <2>4, <4>2
    <3> QED
        BY <2>2, <3>1
  <2>6. (x \div n) * n = n * (x \div n)
      BY <2>1, <2>2
  <2> QED
      BY <1>1, <2>2, <2>4, <2>5, <2>6
<1> QED
    BY <1>2, <1>3

LEMMA RestPriceTyped ==
    ASSUME TypeInv, NEW p \in Positions, Looks(p), cost[p] # Unknown
    PROVE  cost[p] \in Cost /\ RestPrice(p) \in Nat \ {0} /\ RestPrice(p) >= CeilToTick(cost[p])
<1>1. cost[p] \in Cost /\ BestAsk(quote[p]) \in Nat
    BY LookedAt
<1>2. CeilToTick(cost[p]) \in Nat \ {0}
    BY <1>1, RestPriceIs
<1> DEFINE up == CeilToTick(cost[p])
           price == PlanExit(cost[p], quote[p]).price
<1>3. price \in {0, up, Most(BestAsk(quote[p]), up)}
    BY DEF PlanExit
<1>4. RestPrice(p) = Most(price, up)
    BY DEF RestPrice
<1> HIDE DEF up, price
<1> QED
    BY <1>1, <1>2, <1>3, <1>4 DEF Most, up

LEMMA RestTypes ==
    ASSUME TypeInv, SellsOK, NEW p \in Positions, Rest(p)
    PROVE  TurnOK(p)
<1>0. /\ DOMAIN row = Positions /\ Looks(p) /\ cost[p] # Unknown /\ WorldOK /\ Finite
      /\ UNCHANGED <<trades, cash>> /\ IdsSay(row[p])
    BY DEF SellsOK, Rest, Decides, TypeInv, RowIds
<1> DEFINE ids == Replaced(p)
<1>1. PICK cancel \in CancelAnswers, sale \in SaleAnswers :
        IF cancel = "error"
        THEN orders' = After(ids, cancel) /\ UNCHANGED row
        ELSE /\ orders' = Placed(p, RestPrice(p), todo[p], After(ids, cancel), sale)
             /\ IF sale = "ok" /\ orders' # After(ids, cancel)
                THEN Report(p, "rest", NewId)
                ELSE Report(p, "naked", 0)
    BY DEF Rest
<1> DEFINE open == After(ids, cancel)
<1>2. open \in SUBSET orders
    BY AfterLess
<1>3. todo[p] \in Nat \ {0} /\ RestPrice(p) \in Nat \ {0} /\ NewId # 0
    BY <1>0, LookedAt, RestPriceTyped, NewIdIsNew
<1> HIDE DEF ids, open
<1>4. cash' \in Nat /\ owed' \in Nat /\ UNCHANGED <<shown, book, proposed, cooling>>
    BY <1>0, LookedAt DEF WorldOK
<1>5. CASE cancel = "error"
  <2>1. orders' \subseteq orders /\ row' = row
      BY <1>1, <1>2, <1>5 DEF open
  <2> QED
      BY <1>0, <1>4, <2>1, NothingDealt DEF TurnOK, Deals
<1>6. CASE cancel # "error"
  <2>1. orders' = Placed(p, RestPrice(p), todo[p], open, sale)
      BY <1>1, <1>6 DEF open
  <2>2. Dealt(p, open)
      BY <1>0, <1>2, <1>3, <2>1, PlacedDealt
  <2>3. Report(p, "rest", NewId) \/ Report(p, "naked", 0)
      BY <1>1, <1>6
  <2>4. IdsSay(row'[p])
      BY <1>0, <1>3, <2>3, Reported DEF IdsSay
  <2> QED
      BY <1>2, <1>4, <2>2, <2>4 DEF TurnOK, Deals
<1> QED
    BY <1>5, <1>6

LEMMA MakerRestsTypes ==
    ASSUME TypeInv, SellsOK, NEW p \in Positions, MakerRests(p)
    PROVE  TurnOK(p)
<1>0. DOMAIN row = Positions /\ Looks(p) /\ WorldOK /\ Finite
    BY DEF SellsOK, MakerRests, Routes, TypeInv
<1> DEFINE ask == BestAsk(quote[p])
           ids == IdsOf(SellsOf(p, view))
<1>1. CASE ask = 0
  <2>1. Report(p, "noask", 0) /\ Untouched
      BY <1>1 DEF MakerRests
  <2>2. IdsSay(row'[p])
      BY <1>0, <2>1, Reported DEF IdsSay
  <2> QED
      BY <1>0, <2>1, <2>2, UntouchedDeals DEF TurnOK
<1>2. CASE ask # 0
  <2>1. PICK cancel \in CancelAnswers, sale \in SaleAnswers :
          /\ orders' = IF ask <= BestBid(book[p]) THEN After(ids, cancel)
                       ELSE Placed(p, ask, todo[p], After(ids, cancel), sale)
          /\ IF sale = "ok" /\ orders' # After(ids, cancel)
             THEN Report(p, "maker", NewId)
             ELSE Report(p, "unsold", 0)
      BY <1>2 DEF MakerRests
  <2>2. UNCHANGED <<trades, cash>>
      BY <1>2 DEF MakerRests
  <2> DEFINE open == After(ids, cancel)
  <2>3. open \in SUBSET orders
      BY AfterLess
  <2>4. todo[p] \in Nat \ {0} /\ ask \in Nat \ {0} /\ NewId # 0
      BY <1>0, <1>2, LookedAt, NewIdIsNew
  <2>5. cash' \in Nat /\ owed' \in Nat /\ UNCHANGED <<shown, book, proposed, cooling>>
      BY <1>0, <2>2, LookedAt DEF WorldOK
  <2>6. Report(p, "maker", NewId) \/ Report(p, "unsold", 0)
      BY <2>1
  <2>7. IdsSay(row'[p])
      BY <1>0, <2>4, <2>6, Reported DEF IdsSay
  <2>8. \E left \in SUBSET orders : Dealt(p, left)
    <3> HIDE DEF ask, ids, open
    <3>1. CASE orders' = open
        BY <2>2, <2>3, <3>1, NothingDealt
    <3>2. CASE orders' = Placed(p, ask, todo[p], open, sale)
      <4>1. Dealt(p, open)
          BY <1>0, <2>2, <2>3, <2>4, <3>2, PlacedDealt
      <4> QED
          BY <2>3, <4>1
    <3> QED
        BY <2>1, <3>1, <3>2 DEF open
  <2> QED
      BY <2>5, <2>7, <2>8 DEF TurnOK, Deals
<1> QED
    BY <1>1, <1>2

LEMMA CompareTypes ==
    ASSUME TypeInv, SellsOK, NEW p \in Positions, Compare(p)
    PROVE  TurnOK(p)
<1>0. DOMAIN row = Positions /\ Looks(p) /\ WorldOK /\ Finite /\ cash \in Nat
    BY DEF SellsOK, Compare, Routes, TypeInv, WorldOK
<1>1. PICK ids, cancel, sale, fak :
          \E fill \in {IF fak THEN Filled(p, todo[p], After(ids, cancel), sale) ELSE 0} :
            /\ orders' = After(ids, cancel) /\ trades' = Sold(p, fill)
            /\ Paid(Proceeds(book[p], fill))
            /\ Report(p, IF fill > 0 /\ sale = "ok" THEN "sold" ELSE "unsold", 0)
  <2>1. PICK read \in {"ok", "rejected"}, cancel \in CancelAnswers, sale \in SaleAnswers :
       LET first == ~Stopped(p) /\ managed[p] # 0
           fak == read = "ok" /\ book[p].bids # <<>>
       IN
       /\ Faults(<<read, cancel, sale>>)
       /\ fak \/ sale = "ok"
       /\ \E ids \in {IF first \/ fak THEN IdsOf(SellsOf(p, view)) ELSE {}} :
          \E fill \in {IF fak THEN Filled(p, todo[p], After(ids, cancel), sale) ELSE 0} :
            /\ Cancel(ids, cancel)
            /\ orders' = After(ids, cancel)
            /\ trades' = Sold(p, fill)
            /\ Paid(Proceeds(book[p], fill))
            /\ managed' = IF ids = {} THEN managed ELSE [managed EXCEPT ![p] = 0]
            /\ Report(p, IF fill > 0 /\ sale = "ok" THEN "sold" ELSE "unsold", 0)
      BY DEF Compare
  <2> DEFINE fak == read = "ok" /\ book[p].bids # <<>>
  <2>2. PICK ids :
          \E fill \in {IF fak THEN Filled(p, todo[p], After(ids, cancel), sale) ELSE 0} :
            /\ orders' = After(ids, cancel) /\ trades' = Sold(p, fill)
            /\ Paid(Proceeds(book[p], fill))
            /\ Report(p, IF fill > 0 /\ sale = "ok" THEN "sold" ELSE "unsold", 0)
      BY <2>1
  <2> HIDE DEF fak
  <2> QED
      BY <2>2
<1> DEFINE fill == IF fak THEN Filled(p, todo[p], After(ids, cancel), sale) ELSE 0
<1>2. /\ orders' = After(ids, cancel) /\ trades' = Sold(p, fill)
      /\ Paid(Proceeds(book[p], fill))
      /\ Report(p, IF fill > 0 /\ sale = "ok" THEN "sold" ELSE "unsold", 0)
    BY <1>1
<1>3. todo[p] \in Nat
    BY <1>0, LookedAt
<1>4. IdsSay(row'[p])
    BY <1>0, <1>2, Reported DEF IdsSay
<1>5. (\E open \in SUBSET orders : Dealt(p, open)) /\ Proceeds(book[p], fill) \in Nat
  <2>1. CASE fak
    <3>1. fill = Filled(p, todo[p], After(ids, cancel), sale)
        BY <2>1
    <3> HIDE DEF fill
    <3> QED
        BY <1>2, <1>3, <3>1, DumpTypes
  <2>2. CASE ~fak
    <3>1. fill = 0
        BY <2>2
    <3>2. orders' \subseteq orders /\ trades' = trades /\ Proceeds(book[p], 0) \in Nat
      <4>1. book[p] \in Books[p] /\ 0 \in Nat
          BY <1>0 DEF WorldOK
      <4> QED
          BY <1>2, <3>1, <4>1, AfterLess, ProceedsNat DEF Sold
    <3> QED
        BY <3>1, <3>2, NothingDealt
  <2> QED
      BY <2>1, <2>2
<1> HIDE DEF fill
<1>6. cash' \in Nat
    BY <1>0, <1>2, <1>5, PaidNat
<1>7. owed' \in Nat /\ UNCHANGED <<shown, book, proposed, cooling>>
    BY <1>0, LookedAt DEF WorldOK
<1> QED
    BY <1>4, <1>5, <1>6, <1>7 DEF TurnOK, Deals

\* A position's turn.
LEMMA ExitTypeInv ==
    ASSUME TypeInv, SellsOK, NEW p \in Positions, Looks(p), TurnOK(p), Turn(p)
    PROVE  TypeInv'
<1>1. WorldOK'
    BY DealsWorldOK DEF TurnOK, TypeInv
<1>2. ReadsOK'
    BY DEF Looks, TypeInv, ReadsOK
<1>3. TodoOK'
    BY DEF Looks, Without, TypeInv, TodoOK
<1>4. \A q \in Positions \ {p} : row'[q] = row[q]
    BY DEF Turn, Asks
<1>5. RowIds'
    BY <1>4 DEF TypeInv, RowIds, TurnOK, IdsSay
<1> QED
    BY <1>1, <1>2, <1>3, <1>5 DEF TypeInv

-----------------------------------------------------------------------------
\* Types: the rest of the tick

LEMMA LiquidateDeals ==
    ASSUME TypeInv, SellsOK, NEW p \in Positions, Liquidate(p)
    PROVE  Deals(p) /\ est' \in Nat /\ dumped' \subseteq dumped \union {p} /\ IdsSay(row'[p])
<1>0. /\ pc = "liquidate" /\ p \in DOMAIN todo /\ todo' = Without(todo, p)
      /\ DOMAIN row = Positions /\ WorldOK /\ Finite
      /\ UNCHANGED <<template, shown, book, proposed, cooling, managed, pc, snapshot, view,
                     resolving, cost, quote, basis, moved, began, had, moves>>
    BY DEF Liquidate, Foremost, SellsOK, TypeInv
<1>1. /\ todo[p] \in Nat \ {0} /\ quote[p] \in Books[p] \union {Unknown}
      /\ cash \in Nat /\ owed \in Nat /\ est \in Nat /\ Enough \in Nat /\ IdsSay(row[p])
    BY <1>0, ConstantsAssumption DEF TypeInv, TodoOK, ReadsOK, WorldOK, RowIds
<1> DEFINE bid == BestBid(quote[p])
           reckoned == todo[p] * bid
<1>2. bid \in Nat /\ reckoned \in Nat
  <2>1. bid \in Nat
      BY <1>1, QuotedTyped
  <2>2. \A x, y \in Nat : x * y \in Nat
      OBVIOUS
  <2> QED
      BY <1>1, <2>1, <2>2
<1>3. /\ \E open \in SUBSET orders : Dealt(p, open)
      /\ cash' \in Nat /\ owed' \in Nat /\ est' \in Nat /\ dumped' \subseteq dumped \union {p}
      /\ IdsSay(row'[p])
  <2>1. CASE bid = 0
    <3>1. UNCHANGED <<orders, trades, cash, owed, est, dumped, row>>
        BY <2>1 DEF Liquidate
    <3> QED
        BY <1>1, <3>1, NothingDealt DEF IdsSay
  <2>2. CASE bid # 0
    <3>1. PICK cancel \in CancelAnswers, sale \in SaleAnswers :
            \E fill \in {Filled(p, todo[p], After(IdsOf(OwnSells(p)), cancel), sale)} :
              LET brings == Proceeds(book[p], fill)
              IN  /\ MarketDump(p, cancel, sale, fill)
                  /\ IF fill > 0 /\ sale = "ok"
                     THEN /\ dumped' = dumped \union {p}
                          /\ est' = Fewest(Enough, est + reckoned)
                          /\ owed' = Fewest(Enough, owed + Fewest(brings, reckoned))
                          /\ UNCHANGED cash
                     ELSE Paid(brings) /\ UNCHANGED <<dumped, est, owed>>
        BY <2>2 DEF Liquidate
    <3> DEFINE ids == IdsOf(OwnSells(p))
               fill == Filled(p, todo[p], After(ids, cancel), sale)
               brings == Proceeds(book[p], fill)
    <3>2. /\ MarketDump(p, cancel, sale, fill)
          /\ IF fill > 0 /\ sale = "ok"
             THEN /\ dumped' = dumped \union {p}
                  /\ est' = Fewest(Enough, est + reckoned)
                  /\ owed' = Fewest(Enough, owed + Fewest(brings, reckoned))
                  /\ UNCHANGED cash
             ELSE Paid(brings) /\ UNCHANGED <<dumped, est, owed>>
        BY <3>1
    <3>3. /\ orders' = After(ids, cancel) /\ trades' = Sold(p, fill)
          /\ Report(p, IF fill > 0 /\ sale = "ok" THEN "sold" ELSE "unsold", 0)
        BY <3>2 DEF MarketDump
    <3>4. IdsSay(row'[p])
        BY <1>0, <3>3, Reported DEF IdsSay
    <3> HIDE DEF ids, fill
    <3>5. (\E open \in SUBSET orders : Dealt(p, open)) /\ brings \in Nat
        BY <1>1, <3>3, DumpTypes DEF fill
    <3> HIDE DEF bid, reckoned, brings
    <3>6. CASE fill > 0 /\ sale = "ok"
      <4>1. /\ dumped' = dumped \union {p} /\ cash' = cash
            /\ est' = Fewest(Enough, est + reckoned)
            /\ owed' = Fewest(Enough, owed + Fewest(brings, reckoned))
          BY <3>2, <3>6
      <4>2. est' \in Nat /\ owed' \in Nat
          BY <1>1, <1>2, <3>5, <4>1 DEF Fewest
      <4> QED
          BY <1>1, <3>4, <3>5, <4>1, <4>2
    <3>7. CASE ~(fill > 0 /\ sale = "ok")
      <4>1. Paid(brings) /\ UNCHANGED <<dumped, est, owed>>
          BY <3>2, <3>7
      <4>2. cash' \in Nat
          BY <1>1, <3>5, <4>1, PaidNat
      <4> QED
          BY <1>1, <3>4, <3>5, <4>1, <4>2
    <3> QED
        BY <3>6, <3>7
  <2> QED
      BY <2>1, <2>2
<1> QED
    BY <1>0, <1>3 DEF Deals

LEMMA LiquidateTypeInv ==
    ASSUME TypeInv, SellsOK, NEW p \in Positions, Liquidate(p), DOMAIN row' = Positions,
           \A q \in Positions \ {p} : row'[q] = row[q]
    PROVE  TypeInv'
<1>0. /\ p \in DOMAIN todo /\ todo' = Without(todo, p)
      /\ DOMAIN row = Positions /\ WorldOK
      /\ UNCHANGED <<template, shown, book, proposed, cooling, managed, pc, snapshot, view,
                     resolving, cost, quote, basis, moved, began, had, moves>>
    BY DEF Liquidate, Foremost, SellsOK, TypeInv
<1>3. est' \in Nat /\ dumped' \subseteq dumped \union {p} /\ IdsSay(row'[p])
    BY LiquidateDeals
<1>4. Deals(p)
    BY LiquidateDeals
<1>5. WorldOK'
    BY <1>0, <1>4, DealsWorldOK
<1>6. ReadsOK'
    BY <1>0, <1>3 DEF TypeInv, ReadsOK
<1>7. TodoOK'
    BY <1>0 DEF Without, TypeInv, TodoOK
<1>8. RowIds'
    BY <1>3 DEF TypeInv, RowIds, IdsSay
<1> QED
    BY <1>5, <1>6, <1>7, <1>8 DEF TypeInv

\* The trades that a tick begins with: those the positions reflect are as many
\* buys as they have left lots.
Begun(p) == AsBuys(Lots(p, shown[p])) \o Later(p)

LEMMA OnwardIs ==
    ASSUME NEW early \in Seq(Trade), NEW late \in Seq(Trade),
           NEW lots \in Seq(Lot), lots = Replay(early)
    PROVE  /\ AsBuys(lots) \o late \in Seq(Trade) /\ Len(lots) \in 0..Len(AsBuys(lots) \o late)
           /\ Replay(AsBuys(lots) \o late) = Replay(early \o late)
<1>1. AsBuys(lots) \in Seq(Trade) /\ Len(AsBuys(lots)) = Len(lots) /\ Replay(AsBuys(lots)) = lots
    BY AsBuysTyped, ReplayAsBuys
<1>2. Len(lots) \in Nat /\ Len(late) \in Nat
    BY LenProperties
<1>3. AsBuys(lots) \o late \in Seq(Trade) /\ Len(AsBuys(lots) \o late) = Len(lots) + Len(late)
  <2> DEFINE buys == AsBuys(lots)
  <2>1. buys \in Seq(Trade) /\ Len(buys) = Len(lots)
      BY <1>1
  <2> HIDE DEF buys
  <2>2. buys \o late \in Seq(Trade) /\ Len(buys \o late) = Len(buys) + Len(late)
      BY <2>1, ConcatProperties
  <2> QED
      BY <2>1, <2>2 DEF buys
<1>4. Replay(AsBuys(lots) \o late) = Replay(early \o late)
  <2> DEFINE buys == AsBuys(lots)
  <2>1. buys \in Seq(Trade) /\ Replay(buys) = Replay(early)
      BY <1>1
  <2> HIDE DEF buys
  <2>2. Replay(buys \o late) = Replay(early \o late)
      BY <2>1, ReplayFrom
  <2> QED
      BY <2>2 DEF buys
<1> QED
    BY <1>2, <1>3, <1>4

LEMMA BegunIs ==
    ASSUME TradesOK, NEW p \in Positions
    PROVE  /\ Begun(p) \in Seq(Trade) /\ Len(Lots(p, shown[p])) \in 0..Len(Begun(p))
           /\ HeldOf(Begun(p)) = HeldOf(trades[p])
<1> DEFINE ts == trades[p]
           n == shown[p]
<1>1. ts \in Seq(Trade) /\ n \in 0..Len(ts)
    BY DEF TradesOK
<1>2. /\ SubSeq(ts, 1, n) \in Seq(Trade) /\ Later(p) \in Seq(Trade)
      /\ SubSeq(ts, 1, n) \o Later(p) = ts
    BY <1>1, CutIs DEF Later
<1>3. Lots(p, n) \in Seq(Lot) /\ Lots(p, n) = Replay(SubSeq(ts, 1, n))
    BY <1>2, ReplayTyped DEF Lots
<1> QED
    BY <1>2, <1>3, OnwardIs DEF HeldOf, Begun

LEMMA BeginTickTypeInv == ASSUME TypeInv, BeginTick PROVE TypeInv'
<1>1. /\ trades' = [p \in Positions |-> Begun(p)]
      /\ shown' = [p \in Positions |-> Len(Lots(p, shown[p]))]
      /\ snapshot' \in {orders, Unread}
      /\ cost' = [p \in Positions |-> Unread] /\ quote' = [p \in Positions |-> Unread]
      /\ dumped' = {} /\ row' = [p \in Positions |-> Quiet] /\ pc' = "low" /\ moved' = {}
      /\ UNCHANGED <<book, proposed, orders, cash, owed, cooling, view, todo, resolving, est, had>>
    BY DEF BeginTick, Begun
<1>2. TradesOK /\ FreeOK
    BY DEF TypeInv, WorldOK
<1>3. TradesOK'
    BY <1>1, <1>2, BegunIs DEF TradesOK
<1>4. FreeOK'
    BY <1>1, <1>2, BegunIs DEF FreeOK, FreeOf
<1>5. WorldOK'
    BY <1>1, <1>3, <1>4 DEF TypeInv, WorldOK
<1>6. ReadsOK'
    BY <1>1 DEF TypeInv, ReadsOK, WorldOK
<1>7. TodoOK'
    BY <1>1 DEF TypeInv, TodoOK
<1>8. RowIds'
    BY <1>1 DEF RowIds, IdsSay, Quiet
<1> QED
    BY <1>5, <1>6, <1>7, <1>8 DEF TypeInv

LEMMA ShownTyped ==
    ASSUME TradesOK, NEW p \in Positions
    PROVE  ShownSize(p) \in Nat
    BY LotsTyped DEF ShownSize, TradesOK

\* A prefetch reads what it was asked for, if it was not read before.
LEMMA PrefetchTypes ==
    ASSUME WorldOK, ReadsOK, NEW sizes, NEW unpriced, NEW blind, Prefetch(sizes, unpriced, blind)
    PROVE  /\ DOMAIN cost' = Positions /\ DOMAIN quote' = Positions
           /\ \A p \in Positions : cost'[p] \in Cost \union {Unread, Unknown}
                                   /\ quote'[p] \in Books[p] \union {Unread, Unknown}
           /\ \A p \in DOMAIN sizes \intersect Positions :
                  \/ quote'[p] = quote[p] /\ quote[p] # Unread
                  \/ quote'[p] \in {book[p], Unknown}
           /\ \A p \in DOMAIN sizes \intersect Positions : cost'[p] # Unread
<1>1. DOMAIN cost' = Positions /\ DOMAIN quote' = Positions
    BY DEF Prefetch
<1>2. ASSUME NEW p \in Positions
      PROVE  /\ cost'[p] \in Cost \union {Unread, Unknown}
             /\ p \in DOMAIN sizes => cost'[p] # Unread
  <2>1. Rebuilt(p, sizes[p]) \in Cost \union {Unknown}
      BY RebuiltTyped DEF WorldOK
  <2>2. Rebuilt(p, sizes[p]) # Unread
      BY <2>1, CostIsKnown, UnreadAssumption
  <2>3. cost'[p] = IF p \notin DOMAIN sizes \/ cost[p] # Unread THEN cost[p]
                   ELSE IF p \in unpriced THEN Unknown ELSE Rebuilt(p, sizes[p])
      BY DEF Prefetch
  <2> QED
      BY <2>1, <2>2, <2>3, UnreadAssumption DEF ReadsOK
<1>3. ASSUME NEW p \in Positions
      PROVE  /\ quote'[p] \in Books[p] \union {Unread, Unknown}
             /\ p \in DOMAIN sizes =>
                    \/ quote'[p] = quote[p] /\ quote[p] # Unread
                    \/ quote'[p] \in {book[p], Unknown}
  <2>1. quote'[p] = IF p \notin DOMAIN sizes \/ quote[p] # Unread THEN quote[p]
                    ELSE IF p \in blind THEN Unknown ELSE book[p]
      BY DEF Prefetch
  <2>2. book[p] \in Books[p]
      BY DEF WorldOK
  <2> QED
      BY <2>1, <2>2 DEF ReadsOK
<1> QED
    BY <1>1, <1>2, <1>3

\* A book that is read is not Unread.
LEMMA BookIsRead == ASSUME NEW p \in Positions, NEW b \in Books[p] PROVE b # Unread
<1>1. b \in Book
    BY ConstantsAssumption
<1> QED
    BY <1>1, UnreadAssumption

LEMMA OpenOrdersTyped ==
    ASSUME WorldOK, ReadsOK PROVE OpenOrders \subseteq Sale
    BY DEF OpenOrders, WorldOK, ReadsOK

LEMMA LowReadsTypeInv == ASSUME TypeInv, LowReads PROVE TypeInv'
<1>1. PICK sizes, unpriced, blind :
          /\ sizes = ShownPositions /\ Prefetch(sizes, unpriced, blind)
          /\ todo' = [p \in {q \in DOMAIN sizes : cost'[q] # Unknown} |-> sizes[p]]
    BY DEF LowReads
<1>2. /\ view' = OpenOrders /\ est' = cash /\ had' = cash /\ pc' = "liquidate"
      /\ UNCHANGED <<world, cooling, snapshot, resolving, dumped, row, moved>>
    BY DEF LowReads
<1>3. WorldOK /\ ReadsOK
    BY DEF TypeInv
<1>4. WorldOK'
    BY <1>2, <1>3 DEF WorldOK, world, TradesOK, FreeOK
<1>5. /\ DOMAIN cost' = Positions /\ DOMAIN quote' = Positions
      /\ \A p \in Positions : cost'[p] \in Cost \union {Unread, Unknown}
                              /\ quote'[p] \in Books[p] \union {Unread, Unknown}
    BY <1>1, <1>3, PrefetchTypes
<1>6. ReadsOK'
    BY <1>2, <1>3, <1>5, OpenOrdersTyped DEF ReadsOK, WorldOK
<1>7. ASSUME NEW p \in DOMAIN todo'
      PROVE  /\ p \in Positions /\ todo'[p] \in Nat \ {0}
             /\ cost'[p] # Unread /\ quote'[p] # Unread /\ cost'[p] # Unknown
  <2>1. p \in DOMAIN sizes /\ cost'[p] # Unknown /\ todo'[p] = sizes[p]
      BY <1>1
  <2>2. p \in Positions /\ ShownSize(p) > 0 /\ sizes[p] = ShownSize(p)
      BY <1>1, <2>1 DEF ShownPositions
  <2>3. ShownSize(p) \in Nat
      BY <1>3, <2>2, ShownTyped DEF WorldOK
  <2>4. cost'[p] # Unread /\ ((quote'[p] = quote[p] /\ quote[p] # Unread) \/ quote'[p] \in {book[p], Unknown})
      BY <1>1, <1>3, <2>1, <2>2, PrefetchTypes
  <2>5. quote'[p] # Unread
      BY <1>3, <2>2, <2>4, BookIsRead, UnreadAssumption DEF WorldOK
  <2> QED
      BY <2>1, <2>2, <2>3, <2>4, <2>5
<1>8. TodoOK'
    BY <1>7 DEF TodoOK
<1>9. RowIds'
    BY <1>2 DEF TypeInv, RowIds, IdsSay
<1> QED
    BY <1>4, <1>6, <1>8, <1>9 DEF TypeInv

LEMMA ExitReadsTypeInv == ASSUME TypeInv, ExitReads PROVE TypeInv'
<1>1. PICK sizes, unpriced, blind :
          /\ sizes = [p \in DOMAIN ShownPositions \ dumped |-> ShownSize(p)]
          /\ Prefetch(sizes, unpriced, blind) /\ todo' = sizes
    BY DEF ExitReads
<1>2. /\ view' = OpenOrders /\ pc' = "each"
      /\ moved' = {p \in Positions : cost[p] # Unread /\ shown[p] # basis[p]}
      /\ UNCHANGED <<world, cooling, snapshot, est, had, dumped, row>>
    BY DEF ExitReads
<1>3. WorldOK /\ ReadsOK
    BY DEF TypeInv
<1>4. WorldOK'
    BY <1>2, <1>3 DEF WorldOK, world, TradesOK, FreeOK
<1>5. /\ DOMAIN cost' = Positions /\ DOMAIN quote' = Positions
      /\ \A p \in Positions : cost'[p] \in Cost \union {Unread, Unknown}
                              /\ quote'[p] \in Books[p] \union {Unread, Unknown}
    BY <1>1, <1>3, PrefetchTypes
<1>6. resolving' \subseteq Positions
    BY <1>3 DEF ExitReads, WorldOK
<1>7. ReadsOK'
  <2>1. view' \subseteq Sale
      BY <1>2, <1>3, OpenOrdersTyped
  <2>2. snapshot' = Unread \/ snapshot' \subseteq Sale
      BY <1>2, <1>3 DEF ReadsOK
  <2>3. est' \in Nat /\ had' \in Nat /\ dumped' \subseteq Positions /\ moved' \subseteq Positions
      BY <1>2, <1>3 DEF ReadsOK
  <2>4. pc' \in {"idle", "low", "liquidate", "exit", "each"}
      BY <1>2
  <2> QED
      BY <1>5, <1>6, <2>1, <2>2, <2>3, <2>4 DEF ReadsOK
<1>8. ASSUME NEW p \in DOMAIN todo'
      PROVE  p \in Positions /\ todo'[p] \in Nat \ {0} /\ cost'[p] # Unread /\ quote'[p] # Unread
  <2>1. p \in DOMAIN sizes /\ todo'[p] = ShownSize(p)
      BY <1>1
  <2>2. p \in Positions /\ ShownSize(p) > 0
      BY <1>1, <2>1 DEF ShownPositions
  <2>3. ShownSize(p) \in Nat
      BY <1>3, <2>2, ShownTyped DEF WorldOK
  <2>4. cost'[p] # Unread /\ ((quote'[p] = quote[p] /\ quote[p] # Unread) \/ quote'[p] \in {book[p], Unknown})
      BY <1>1, <1>3, <2>1, <2>2, PrefetchTypes
  <2>5. quote'[p] # Unread
      BY <1>3, <2>2, <2>4, BookIsRead, UnreadAssumption DEF WorldOK
  <2> QED
      BY <2>1, <2>2, <2>3, <2>4, <2>5
<1>9. TodoOK'
    BY <1>2, <1>8 DEF TodoOK
<1>10. RowIds'
    BY <1>2 DEF TypeInv, RowIds, IdsSay
<1> QED
    BY <1>4, <1>7, <1>9, <1>10 DEF TypeInv

\* Where the world and the reads are left as they are.
LEMMA WorldSame ==
    ASSUME WorldOK, UNCHANGED world, cooling' \in BOOLEAN
    PROVE  WorldOK'
    BY DEF WorldOK, world, TradesOK, FreeOK

LEMMA LowEndsTypeInv == ASSUME TypeInv, LowSkipped \/ LowDone PROVE TypeInv'
<1>1. /\ UNCHANGED world /\ UNCHANGED reads /\ UNCHANGED history
      /\ cooling' \in {cooling, cooling \/ dumped # {}} /\ pc' = "exit"
    BY DEF LowSkipped, LowDone
<1>2. cooling' \in BOOLEAN
    BY <1>1 DEF TypeInv, WorldOK
<1>3. WorldOK'
    BY <1>1, <1>2, WorldSame DEF TypeInv
<1>4. ReadsOK'
    BY <1>1 DEF TypeInv, ReadsOK, reads, history
<1>5. TodoOK'
    BY <1>1 DEF TypeInv, TodoOK, reads
<1>6. RowIds'
    BY <1>1 DEF TypeInv, RowIds, IdsSay, reads
<1> QED
    BY <1>3, <1>4, <1>5, <1>6 DEF TypeInv

LEMMA EndsTypeInv == ASSUME TypeInv, TickEnds \/ ExitFails PROVE TypeInv'
<1>1. /\ UNCHANGED world /\ cooling' = cooling /\ pc' = "idle"
      /\ snapshot' = Unread /\ view' = {} /\ todo' = <<>> /\ resolving' = {} /\ est' = 0 /\ had' = 0
      /\ cost' = [p \in Positions |-> Unread] /\ quote' = [p \in Positions |-> Unread]
      /\ row' = [p \in Positions |-> Quiet] /\ moved' = {} /\ dumped' = dumped
    BY DEF TickEnds, ExitFails, Ends
<1>2. WorldOK'
  <2>1. cooling' \in BOOLEAN
      BY <1>1 DEF TypeInv, WorldOK
  <2> QED
      BY <1>1, <2>1, WorldSame DEF TypeInv
<1>3. ReadsOK'
    BY <1>1 DEF TypeInv, ReadsOK
<1>4. TodoOK'
  <2>1. DOMAIN todo' = {}
      BY <1>1
  <2> QED
      BY <2>1 DEF TodoOK
<1>5. RowIds'
    BY <1>1 DEF RowIds, IdsSay, Quiet
<1> QED
    BY <1>2, <1>3, <1>4, <1>5 DEF TypeInv

-----------------------------------------------------------------------------
\* Types: the world

LEMMA AloneTypes == ASSUME TypeInv, Alone, WorldOK' PROVE TypeInv'
<1>1. UNCHANGED reads /\ UNCHANGED history /\ pc' = pc
    BY DEF Alone
<1>2. ReadsOK'
    BY <1>1 DEF TypeInv, ReadsOK, reads, history
<1>3. TodoOK'
    BY <1>1 DEF TypeInv, TodoOK, reads
<1>4. RowIds'
    BY <1>1 DEF TypeInv, RowIds, IdsSay, reads
<1> QED
    BY <1>2, <1>3, <1>4 DEF TypeInv

LEMMA BuyTradesWorldOK ==
    ASSUME WorldOK, NEW p \in Positions, BuyTrades(p), IsFiniteSet(orders)
    PROVE  WorldOK'
<1>1. PICK b \in Buys : /\ trades' = [trades EXCEPT ![p] = @ \o AsBuys(<<b>>)]
                        /\ cash' = Most(0, cash - b.price * b.size)
    BY DEF BuyTrades
<1>2. UNCHANGED <<shown, book, proposed, orders, owed, cooling>>
    BY DEF BuyTrades
<1>3. b \in Lot
    BY ConstantsAssumption
<1>4. cash' \in Nat
  <2>1. b.price \in Nat /\ b.size \in Nat
      BY <1>3 DEF Lot
  <2>2. \A x, y \in Nat : x * y \in Nat
      OBVIOUS
  <2>3. b.price * b.size \in Nat /\ cash \in Nat
      BY <2>1, <2>2 DEF WorldOK
  <2> QED
      BY <1>1, <2>3 DEF Most
<1> DEFINE ts == trades[p]
<1>5. ts \in Seq(Trade) /\ shown[p] \in 0..Len(ts) /\ DOMAIN trades = Positions
    BY DEF WorldOK, TradesOK
<1>6. /\ ts \o AsBuys(<<b>>) = Append(ts, Buy(b)) /\ Buy(b) \in Trade
      /\ HeldOf(Append(ts, Buy(b))) = HeldOf(ts) + b.size
    BY <1>3, <1>5, HeldBuy
<1>7. /\ trades'[p] = Append(ts, Buy(b)) /\ DOMAIN trades' = Positions
      /\ \A q \in Positions \ {p} : trades'[q] = trades[q]
    BY <1>1, <1>5, <1>6
<1>8. Append(ts, Buy(b)) \in Seq(Trade) /\ Len(Append(ts, Buy(b))) = Len(ts) + 1 /\ Len(ts) \in Nat
    BY <1>5, <1>6, AppendProperties, LenProperties
<1>9. TradesOK'
  <2>1. shown' = shown /\ DOMAIN shown = Positions
      BY <1>2 DEF WorldOK, TradesOK
  <2>2. ASSUME NEW q \in Positions PROVE trades'[q] \in Seq(Trade) /\ shown[q] \in 0..Len(trades'[q])
    <3>1. CASE q = p
        BY <1>5, <1>7, <1>8, <3>1
    <3>2. CASE q # p
        BY <1>7, <3>2 DEF WorldOK, TradesOK
    <3> QED
        BY <3>1, <3>2
  <2> QED
      BY <1>7, <2>1, <2>2 DEF TradesOK
<1>10. FreeOf(trades'[p], orders, p) >= FreeOf(trades[p], orders, p)
       /\ FreeOf(trades'[p], orders, p) \in Int /\ FreeOf(trades[p], orders, p) \in Int
  <2>1. HeldOf(ts) \in Nat /\ HeldOf(trades'[p]) = HeldOf(ts) + b.size /\ b.size \in Nat
      BY <1>3, <1>5, <1>6, <1>7, HeldNat DEF Lot
  <2>2. LeftOf(SellsOf(p, orders)) \in Nat
    <3>1. SellsOf(p, orders) \subseteq orders /\ IsFiniteSet(SellsOf(p, orders)) /\ orders \subseteq Sale
        BY SellsFinite DEF WorldOK
    <3> QED
        BY <3>1, LeftPart
  <2> QED
      BY <2>1, <2>2 DEF FreeOf
<1>11. FreeOK'
  <2>1. ASSUME NEW q \in Positions PROVE FreeOf(trades'[q], orders, q) >= 0
    <3>1. FreeOf(trades[q], orders, q) >= 0
        BY DEF WorldOK, FreeOK
    <3>2. CASE q = p
        BY <1>10, <3>1, <3>2
    <3>3. CASE q # p
        BY <1>7, <3>1, <3>3
    <3> QED
        BY <3>2, <3>3
  <2> QED
      BY <1>2, <2>1 DEF FreeOK
<1> QED
    BY <1>2, <1>4, <1>9, <1>11 DEF WorldOK

\* A sell that trades gives up what it held.
LEMMA SellTradesWorldOK ==
    ASSUME WorldOK, SellsOK, NEW o \in orders, SellTrades(o)
    PROVE  WorldOK'
<1> DEFINE p == o.pos
<1>1. PICK size \in {o.left, o.left \div 2} \ {0} :
        /\ trades' = Sold(o.pos, size)
        /\ orders' = (orders \ {o}) \union {r \in {[o EXCEPT !.left = @ - size]} : r.left > 0}
        /\ Paid(o.price * size)
    BY DEF SellTrades
<1>2. UNCHANGED <<shown, book, proposed, owed, cooling>>
    BY DEF SellTrades
<1>3. /\ o \in Sale /\ o.left \in Nat /\ o.left > 0 /\ o.price \in Nat /\ p \in Positions
      /\ orders \subseteq Sale /\ IsFiniteSet(orders)
    BY DEF WorldOK, Sale, SellsOK, Finite
<1>4. size \in Nat /\ size > 0 /\ size <= o.left
  <2> DEFINE n == o.left
  <2>1. n \in Nat /\ n > 0
      BY <1>3
  <2> HIDE DEF n
  <2>2. n \div 2 \in Nat /\ n \div 2 <= n
      BY <2>1
  <2> QED
      BY <1>1, <2>1, <2>2 DEF n
<1>5. cash' \in Nat
  <2>1. \A x, y \in Nat : x * y \in Nat
      OBVIOUS
  <2>2. o.price * size \in Nat /\ cash \in Nat
      BY <1>3, <1>4, <2>1 DEF WorldOK
  <2> QED
      BY <1>1, <2>2, PaidNat
<1>6. TradesOK
    BY DEF WorldOK
<1>7. /\ DOMAIN trades' = Positions /\ \A q \in Positions \ {p} : trades'[q] = trades[q]
      /\ trades'[p] \in Seq(Trade) /\ Len(trades'[p]) >= Len(trades[p]) /\ Len(trades[p]) \in Nat
      /\ HeldOf(trades'[p]) = Most(0, HeldOf(trades[p]) - size)
    BY <1>1, <1>3, <1>4, <1>6, SoldIs, SoldTyped
<1>8. TradesOK'
  <2>1. Len(trades'[p]) \in Nat
      BY <1>7, LenProperties
  <2> QED
      BY <1>2, <1>6, <1>7, <2>1 DEF TradesOK
<1> DEFINE rest == [o EXCEPT !.left = @ - size]
<1>9. /\ rest.left = o.left - size /\ rest.id = o.id /\ rest.pos = p
      /\ rest.left > 0 => rest \in Sale
    BY <1>3, <1>4 DEF Sale
<1>10. orders' = (orders \ {o}) \union (IF rest.left > 0 THEN {rest} ELSE {})
    BY <1>1
<1> HIDE DEF rest
<1>11. orders' \subseteq Sale
    BY <1>3, <1>9, <1>10
<1> DEFINE others == SellsOf(p, orders) \ {o}
<1>12. /\ others \subseteq Sale /\ IsFiniteSet(others) /\ o \notin others /\ rest \notin others
       /\ SellsOf(p, orders) = others \union {o}
  <2>1. SellsOf(p, orders) \subseteq orders /\ IsFiniteSet(SellsOf(p, orders))
      BY <1>3, SellsFinite
  <2>2. IsFiniteSet(others)
      BY <2>1, FS_Subset
  <2>3. o \in SellsOf(p, orders)
      BY DEF SellsOf
  <2>4. rest \notin others
      BY <1>9, <2>1 DEF SellsOK
  <2> QED
      BY <1>3, <2>1, <2>2, <2>3, <2>4
<1>13. SellsOf(p, orders') = others \union (IF rest.left > 0 THEN {rest} ELSE {})
    BY <1>9, <1>10 DEF SellsOf
<1> HIDE DEF others
<1>14. /\ LeftOf(others) \in Nat /\ LeftOf(SellsOf(p, orders)) = o.left + LeftOf(others)
       /\ LeftOf(SellsOf(p, orders')) = rest.left + LeftOf(others)
  <2>1. LeftOf(others) \in Nat
      BY <1>12, LeftPart
  <2>2. LeftOf(others \union {o}) = o.left + LeftOf(others)
      BY <1>3, <1>12, LeftInsert
  <2>3. CASE rest.left > 0
    <3>1. LeftOf(others \union {rest}) = rest.left + LeftOf(others)
        BY <1>9, <1>12, <2>3, LeftInsert
    <3> QED
        BY <1>12, <1>13, <2>1, <2>2, <2>3, <3>1
  <2>4. CASE ~(rest.left > 0)
    <3>1. rest.left = 0 /\ SellsOf(p, orders') = others
        BY <1>3, <1>4, <1>9, <1>13, <2>4
    <3> QED
        BY <1>12, <2>1, <2>2, <3>1
  <2> QED
      BY <2>3, <2>4
<1>15. FreeOf(trades'[p], orders', p) >= 0
  <2>1. FreeOf(trades[p], orders, p) >= 0 /\ HeldOf(trades[p]) \in Nat
      BY <1>3, <1>6, HeldNat DEF WorldOK, FreeOK, TradesOK
  <2>2. HeldOf(trades[p]) - (o.left + LeftOf(others)) >= 0
      BY <1>14, <2>1 DEF FreeOf
  <2>3. HeldOf(trades'[p]) = HeldOf(trades[p]) - size
      BY <1>3, <1>4, <1>7, <1>14, <2>1, <2>2 DEF Most
  <2>4. FreeOf(trades'[p], orders', p) = HeldOf(trades'[p]) - (rest.left + LeftOf(others))
      BY <1>14 DEF FreeOf
  <2> QED
      BY <1>3, <1>4, <1>9, <1>14, <2>1, <2>2, <2>3, <2>4
<1>16. FreeOK'
  <2>1. ASSUME NEW q \in Positions, q # p PROVE FreeOf(trades'[q], orders', q) >= 0
    <3>1. SellsOf(q, orders') = SellsOf(q, orders)
        BY <1>9, <1>10, <2>1 DEF SellsOf
    <3> QED
        BY <1>7, <2>1, <3>1 DEF WorldOK, FreeOK, FreeOf
  <2> QED
      BY <1>15, <2>1 DEF FreeOK
<1> QED
    BY <1>2, <1>5, <1>8, <1>11, <1>16 DEF WorldOK

LEMMA WorldTypeInv == ASSUME TypeInv, SellsOK, World PROVE TypeInv'
<1>0. WorldOK /\ Finite
    BY DEF TypeInv, SellsOK
<1>1. ASSUME NEW p \in Positions, BuyTrades(p) PROVE TypeInv'
    BY <1>0, <1>1, BuyTradesWorldOK, AloneTypes DEF BuyTrades, Finite
<1>2. ASSUME NEW p \in Positions, BookMoves(p) PROVE TypeInv'
  <2>1. PICK b \in Books[p] : book' = [book EXCEPT ![p] = b]
      BY <1>2 DEF BookMoves
  <2>2. UNCHANGED <<trades, shown, proposed, orders, cash, owed, cooling>> /\ Alone
      BY <1>2 DEF BookMoves
  <2>3. WorldOK'
      BY <1>0, <2>1, <2>2 DEF WorldOK, TradesOK, FreeOK
  <2> QED
      BY <2>2, <2>3, AloneTypes
<1>3. ASSUME NEW p \in Positions, Proposal(p) PROVE TypeInv'
  <2>1. proposed' = proposed \union {p}
        /\ UNCHANGED <<trades, shown, book, orders, cash, owed, cooling>> /\ Alone
      BY <1>3 DEF Proposal
  <2>2. WorldOK'
      BY <1>0, <2>1 DEF WorldOK, TradesOK, FreeOK
  <2> QED
      BY <2>1, <2>2, AloneTypes
<1>4. ASSUME NEW p \in Positions, CatchUp(p) PROVE TypeInv'
  <2>1. PICK n \in (shown[p] + 1)..Len(trades[p]) : shown' = [shown EXCEPT ![p] = n]
      BY <1>4 DEF CatchUp
  <2>2. UNCHANGED <<trades, book, proposed, orders, cash, owed, cooling>> /\ Alone
      BY <1>4 DEF CatchUp
  <2>3. trades[p] \in Seq(Trade) /\ shown[p] \in 0..Len(trades[p])
      BY <1>0 DEF WorldOK, TradesOK
  <2>4. n \in 0..Len(trades[p])
      BY <2>3, LenProperties
  <2>5. TradesOK'
      BY <1>0, <2>1, <2>2, <2>4 DEF WorldOK, TradesOK
  <2>6. WorldOK'
      BY <1>0, <2>2, <2>5 DEF WorldOK, FreeOK
  <2> QED
      BY <2>2, <2>6, AloneTypes
<1>5. ASSUME NEW o \in orders, SellTrades(o) PROVE TypeInv'
    BY <1>0, <1>5, SellTradesWorldOK, AloneTypes DEF SellTrades
<1>6. CASE Settle
  <2>1. owed' = 0 /\ Paid(owed) /\ UNCHANGED <<trades, shown, book, proposed, orders, cooling>> /\ Alone
      BY <1>6 DEF Settle
  <2>2. cash' \in Nat
      BY <1>0, <2>1, PaidNat DEF WorldOK
  <2>3. WorldOK'
      BY <1>0, <2>1, <2>2 DEF WorldOK, TradesOK, FreeOK
  <2> QED
      BY <2>1, <2>3, AloneTypes
<1>7. CASE CoolsDown
  <2>1. cooling' = FALSE /\ UNCHANGED world /\ Alone
      BY <1>7 DEF CoolsDown
  <2> QED
      BY <1>0, <2>1, WorldSame, AloneTypes
<1> QED
    BY <1>1, <1>2, <1>3, <1>4, <1>5, <1>6, <1>7 DEF World

-----------------------------------------------------------------------------
\* Types: the beginning, and every step

LEMMA InitTypeInv == Init => TypeInv
<1> SUFFICES ASSUME Init PROVE TypeInv
    OBVIOUS
<1>1. /\ trades = [p \in Positions |-> AsBuys(Bought[p])]
      /\ shown = [p \in Positions |-> Len(Bought[p])]
      /\ orders \in Resting /\ DOMAIN book = Positions /\ \A p \in Positions : book[p] \in Books[p]
      /\ proposed = {} /\ cash = Cash /\ owed = 0 /\ cooling = FALSE
    BY DEF Init
<1>2. /\ pc = "idle" /\ snapshot = Unread /\ view = {} /\ todo = <<>> /\ resolving = {}
      /\ cost = [p \in Positions |-> Unread] /\ quote = [p \in Positions |-> Unread]
      /\ est = 0 /\ dumped = {} /\ moved = {} /\ had = 0 /\ row = [p \in Positions |-> Quiet]
    BY DEF Init
<1>3. orders \subseteq Sale /\ IsFiniteSet(orders) /\ \A o1, o2 \in orders : o1.pos = o2.pos => o1 = o2
    BY <1>1, ConstantsAssumption, RestingAssumption DEF Sale
<1>4. \A o \in orders : o.left <= Total(Bought[o.pos])
    BY <1>1, RestingAssumption DEF Total
<1>5. ASSUME NEW p \in Positions
      PROVE  /\ trades[p] \in Seq(Trade) /\ shown[p] \in 0..Len(trades[p])
             /\ FreeOf(trades[p], orders, p) >= 0
  <2>1. Bought[p] \in Seq(Lot) /\ trades[p] = AsBuys(Bought[p]) /\ shown[p] = Len(Bought[p])
      BY <1>1, ConstantsAssumption
  <2>2. trades[p] \in Seq(Trade) /\ Len(trades[p]) = Len(Bought[p]) /\ Replay(trades[p]) = Bought[p]
      BY <2>1, AsBuysTyped, ReplayAsBuys
  <2>3. Len(Bought[p]) \in Nat /\ Total(Bought[p]) \in Nat
      BY <2>1, LenProperties, TotalNat
  <2>4. LeftOf(SellsOf(p, orders)) \in Nat /\ LeftOf(SellsOf(p, orders)) <= Total(Bought[p])
    <3>1. CASE SellsOf(p, orders) = {}
      <4>1. LeftOf({}) = 0
        <5> DEFINE f == [o \in {} |-> o.left]
        <5>1. DOMAIN f = {}
            OBVIOUS
        <5> HIDE DEF f
        <5>2. SumFunction(f) = 0
            BY <5>1, SumEmpty
        <5> QED
            BY <5>2 DEF LeftOf, f
      <4> QED
          BY <2>3, <3>1, <4>1
    <3>2. CASE SellsOf(p, orders) # {}
      <4>1. PICK o : o \in SellsOf(p, orders)
          BY <3>2
      <4>2. o \in orders /\ o.pos = p /\ SellsOf(p, orders) = {o}
          BY <1>3, <4>1 DEF SellsOf
      <4>3. LeftOf({o}) = o.left
        <5> DEFINE f == [x \in {o} |-> x.left]
        <5>1. f \in [{o} -> Int] /\ f[o] = o.left
            BY <1>3, <4>2 DEF Sale
        <5> HIDE DEF f
        <5>2. SumFunction(f) = f[o]
            BY <5>1, SumOfOne
        <5> QED
            BY <5>1, <5>2 DEF LeftOf, f
      <4>4. o.left \in Nat /\ o.left <= Total(Bought[p])
          BY <1>3, <1>4, <4>2 DEF Sale
      <4> QED
          BY <4>2, <4>3, <4>4
    <3> QED
        BY <3>1, <3>2
  <2>5. FreeOf(trades[p], orders, p) = Total(Bought[p]) - LeftOf(SellsOf(p, orders))
      BY <2>2 DEF FreeOf, HeldOf
  <2> QED
      BY <2>1, <2>2, <2>3, <2>4, <2>5
<1>6. WorldOK
  <2>1. TradesOK /\ FreeOK
      BY <1>1, <1>5 DEF TradesOK, FreeOK
  <2> QED
      BY <1>1, <1>3, <2>1, ConstantsAssumption DEF WorldOK
<1>7. ReadsOK
    BY <1>2 DEF ReadsOK
<1>8. TodoOK
  <2>1. DOMAIN todo = {}
      BY <1>2
  <2> QED
      BY <2>1 DEF TodoOK
<1>9. RowIds
    BY <1>2 DEF RowIds, IdsSay, Quiet
<1> QED
    BY <1>6, <1>7, <1>8, <1>9 DEF TypeInv

LEMMA TurnOfTypes ==
    ASSUME TypeInv, SellsOK, NEW p \in Positions, TurnOf(p)
    PROVE  TurnOK(p)
    BY QuietTypes, KeepTypes, ResolveTypes, SellNowTypes, RestTypes, MakerRestsTypes, CompareTypes
       DEF TurnOf

LEMMA TickTypeInv == ASSUME TypeInv, SellsOK, Tick PROVE TypeInv'
<1>1. ASSUME NEW p \in Positions, Liquidate(p) PROVE TypeInv'
  <2>1. DOMAIN row' = Positions /\ \A q \in Positions \ {p} : row'[q] = row[q]
    <3>1. CASE row' = row
        BY <3>1 DEF SellsOK
    <3>2. ASSUME NEW is, NEW id, Report(p, is, id)
          PROVE  DOMAIN row' = Positions /\ \A q \in Positions \ {p} : row'[q] = row[q]
        BY <3>2 DEF SellsOK, Report
    <3> QED
        BY <1>1, <3>1, <3>2 DEF Liquidate, MarketDump
  <2> QED
      BY <1>1, <2>1, LiquidateTypeInv
<1>2. ASSUME Exit PROVE TypeInv'
  <2>1. PICK p \in Positions : TurnOf(p)
      BY <1>2 DEF Exit, TurnOf
  <2>2. Turn(p) /\ Looks(p) /\ TurnOK(p)
      BY <2>1, TurnOfTurns, TurnOfTypes
  <2> QED
      BY <2>2, ExitTypeInv
<1> QED
    BY <1>1, <1>2, BeginTickTypeInv, LowReadsTypeInv, LowEndsTypeInv, ExitReadsTypeInv, EndsTypeInv
       DEF Tick

LEMMA NextTypeInv == ASSUME OneInv, TypeInv, [Next]_vars PROVE TypeInv'
<1>1. SellsOK
    BY DEF OneInv
<1>2. CASE UNCHANGED vars
  <2>1. WorldOK'
      BY <1>2 DEF vars, world, TypeInv, WorldOK, TradesOK, FreeOK
  <2>2. ReadsOK'
      BY <1>2 DEF vars, reads, history, TypeInv, ReadsOK
  <2>3. TodoOK' /\ RowIds'
      BY <1>2 DEF vars, reads, TypeInv, TodoOK, RowIds, IdsSay
  <2> QED
      BY <2>1, <2>2, <2>3 DEF TypeInv
<1> QED
    BY <1>1, <1>2, TickTypeInv, WorldTypeInv DEF Next

LEMMA TypeInvInvariant == Spec => [](OneInv /\ TypeInv)
    BY InitOneInv, NextOneInv, InitTypeInv, NextTypeInv, PTL DEF Spec

\* Everything has its type.  What a trade, a liquidation or an exit sells was
\* held, and what rests is held too: the shares of all open sells of a position
\* are never more than the replay of its trades gives, so a sale that fills
\* takes nothing from the sells that the tick did not see (monitor.py:794-958).
THEOREM TypeCorrect == Spec => []TypeOK
<1>1. OneInv /\ TypeInv => TypeOK
  <2> SUFFICES ASSUME OneInv, TypeInv PROVE TypeOK
      OBVIOUS
  <2>1. template \in Templates
      BY DEF OneInv, SellsOK
  <2>2. ASSUME NEW p \in Positions
        PROVE  /\ shown[p] \in 0..Len(trades[p]) /\ Free(p, orders) >= 0 /\ book[p] \in Books[p]
               /\ row[p].is \in {"keep", "rest", "maker", "waits"} <=> row[p].id # 0
               /\ cost[p] \in {Unread, Unknown} \/ cost[p].size > 0
    <3>1. trades[p] \in Seq(Trade) /\ shown[p] \in 0..Len(trades[p]) /\ book[p] \in Books[p]
          /\ FreeOf(trades[p], orders, p) >= 0
        BY DEF TypeInv, WorldOK, TradesOK, FreeOK
    <3>2. Free(p, orders) = FreeOf(trades[p], orders, p)
        BY <3>1, FreeIs
    <3>3. cost[p] \in {Unread, Unknown} \/ cost[p].size > 0
        BY DEF TypeInv, ReadsOK, Cost
    <3>4. row[p].is \in {"keep", "rest", "maker", "waits"} <=> row[p].id # 0
        BY DEF TypeInv, RowIds, IdsSay
    <3> QED
        BY <3>1, <3>2, <3>3, <3>4
  <2>3. Cardinality(IdsOf(orders)) = Cardinality(orders)
    <3> DEFINE f == [o \in orders |-> o.id]
    <3>1. \A o1, o2 \in orders : o1.id = o2.id => o1 = o2
        BY DEF OneInv, SellsOK
    <3>2. f \in Bijection(orders, IdsOf(orders))
        BY <3>1 DEF Bijection, Injection, Surjection, IdsOf, IsInjective
    <3>3. IsFiniteSet(orders)
        BY DEF OneInv, SellsOK, Finite
    <3> QED
        BY <3>2, <3>3, FS_Bijection DEF ExistsBijection
  <2>4. /\ orders \subseteq Sale /\ view \subseteq Sale /\ (snapshot = Unread \/ snapshot \subseteq Sale)
        /\ dumped \subseteq Positions /\ proposed \subseteq Positions /\ resolving \subseteq Positions
        /\ moved \subseteq Positions /\ {cash, owed, est} \subseteq Nat /\ cooling \in BOOLEAN
        /\ pc \in {"idle", "low", "liquidate", "exit", "each"}
      BY DEF TypeInv, WorldOK, ReadsOK
  <2> QED
      BY <2>1, <2>2, <2>3, <2>4 DEF TypeOK
<1> QED
    BY <1>1, TypeInvInvariant, PTL

-----------------------------------------------------------------------------
\* NoOverSale: what liquidations brought and get_balance does not show yet is
\* remembered, by the cooldown between ticks and by est within one.

SaleInv ==
    /\ owed > 0 => cooling \/ (pc = "liquidate" /\ dumped # {})
    /\ pc = "liquidate" => est >= Enough \/ had + owed <= est
Reckons(p) ==
    \E brings, reckoned \in Nat :
        /\ dumped' = dumped \union {p}
        /\ est' = Fewest(Enough, est + reckoned)
        /\ owed' = Fewest(Enough, owed + Fewest(brings, reckoned))

\* A liquidation adds to owed no more than it adds to est.
LEMMA LiquidateReckons ==
    ASSUME TypeInv, SellsOK, NEW p \in Positions, Liquidate(p)
    PROVE  UNCHANGED <<owed, est, dumped>> \/ Reckons(p)
<1> SUFFICES ASSUME ~UNCHANGED <<owed, est, dumped>> PROVE Reckons(p)
    OBVIOUS
<1>1. /\ DOMAIN row = Positions /\ WorldOK /\ Finite
      /\ todo[p] \in Nat \ {0} /\ quote[p] \in Books[p] \union {Unknown}
    BY DEF Liquidate, Foremost, SellsOK, TypeInv, TodoOK, ReadsOK
<1> DEFINE reckoned == todo[p] * BestBid(quote[p])
<1>2. reckoned \in Nat
  <2>1. BestBid(quote[p]) \in Nat
      BY <1>1, QuotedTyped
  <2>2. \A x, y \in Nat : x * y \in Nat
      OBVIOUS
  <2> QED
      BY <1>1, <2>1, <2>2
<1>3. PICK cancel \in CancelAnswers, sale \in SaleAnswers :
        \E fill \in {Filled(p, todo[p], After(IdsOf(OwnSells(p)), cancel), sale)} :
          LET brings == Proceeds(book[p], fill)
          IN  /\ MarketDump(p, cancel, sale, fill)
              /\ IF fill > 0 /\ sale = "ok"
                 THEN /\ dumped' = dumped \union {p}
                      /\ est' = Fewest(Enough, est + reckoned)
                      /\ owed' = Fewest(Enough, owed + Fewest(brings, reckoned))
                      /\ UNCHANGED cash
                 ELSE Paid(brings) /\ UNCHANGED <<dumped, est, owed>>
    BY DEF Liquidate
<1> DEFINE ids == IdsOf(OwnSells(p))
           fill == Filled(p, todo[p], After(ids, cancel), sale)
           brings == Proceeds(book[p], fill)
<1>4. /\ MarketDump(p, cancel, sale, fill)
      /\ dumped' = dumped \union {p}
      /\ est' = Fewest(Enough, est + reckoned)
      /\ owed' = Fewest(Enough, owed + Fewest(brings, reckoned))
    BY <1>3
<1>5. orders' = After(ids, cancel) /\ trades' = Sold(p, fill)
    BY <1>4 DEF MarketDump
<1> HIDE DEF ids, fill
<1>6. brings \in Nat
    BY <1>1, <1>5, DumpTypes DEF fill
<1> QED
    BY <1>2, <1>4, <1>6 DEF Reckons

\* What is sold keeps the reckoning, and is sold below the target only.
LEMMA LiquidateSaleInv ==
    ASSUME TypeInv, SellsOK, SaleInv, NEW p \in Positions, Liquidate(p)
    PROVE  SaleInv' /\ (owed' > owed => had + owed < template.target)
<1>1. /\ pc = "liquidate" /\ est < template.target /\ UNCHANGED <<pc, cooling, had>>
      /\ owed \in Nat /\ est \in Nat /\ had \in Nat /\ Enough \in Nat
      /\ template.target \in Nat /\ template.target <= Enough
    BY ConstantsAssumption, EnoughAssumption
       DEF Liquidate, TypeInv, WorldOK, ReadsOK, SellsOK, Template
<1>2. had + owed <= est
    BY <1>1 DEF SaleInv
<1>3. CASE UNCHANGED <<owed, est, dumped>>
    BY <1>1, <1>3 DEF SaleInv
<1>4. CASE Reckons(p)
  <2>1. PICK brings, reckoned \in Nat :
          /\ dumped' = dumped \union {p}
          /\ est' = Fewest(Enough, est + reckoned)
          /\ owed' = Fewest(Enough, owed + Fewest(brings, reckoned))
      BY <1>4 DEF Reckons
  <2>2. dumped' # {}
      BY <2>1
  <2>3. est' >= Enough \/ had + owed' <= est'
      BY <1>1, <1>2, <2>1 DEF Fewest
  <2> QED
      BY <1>1, <1>2, <2>2, <2>3 DEF SaleInv
<1> QED
    BY <1>3, <1>4, LiquidateReckons

LEMMA NextSaleInv ==
    ASSUME OneInv, TypeInv, SaleInv, [Next]_vars
    PROVE  SaleInv' /\ (owed' > owed => had + owed < template.target)
<1>0. SellsOK /\ owed \in Nat /\ cash \in Nat
    BY DEF OneInv, TypeInv, WorldOK
<1>1. ASSUME NEW p \in Positions, Liquidate(p)
      PROVE  SaleInv' /\ (owed' > owed => had + owed < template.target)
    BY <1>0, <1>1, LiquidateSaleInv
<1>2. CASE LowReads
  <2>1. pc = "low" /\ ~cooling /\ est' = cash /\ had' = cash /\ owed' = owed
      BY <1>2 DEF LowReads, world
  <2>2. owed = 0
      BY <1>0, <2>1 DEF SaleInv
  <2> QED
      BY <1>0, <2>1, <2>2 DEF SaleInv
<1>3. CASE LowDone
  <2>1. pc' = "exit" /\ owed' = owed /\ cooling' = (cooling \/ dumped # {})
      BY <1>3 DEF LowDone, world
  <2>2. owed > 0 => cooling \/ dumped # {}
      BY DEF SaleInv
  <2>3. owed' > 0 => cooling'
      BY <2>1, <2>2
  <2> QED
      BY <1>0, <2>1, <2>3 DEF SaleInv
<1>4. CASE Settle \/ CoolsDown
    BY <1>0, <1>4 DEF Settle, CoolsDown, world, Alone, SaleInv
<1>5. ASSUME pc # "liquidate", pc' # "liquidate", owed' = owed, cooling' = cooling
      PROVE  SaleInv' /\ (owed' > owed => had + owed < template.target)
    BY <1>0, <1>5 DEF SaleInv
<1>6. CASE BeginTick \/ LowSkipped \/ ExitReads \/ ExitFails \/ TickEnds
    BY <1>5, <1>6 DEF BeginTick, LowSkipped, ExitReads, ExitFails, TickEnds, Ends, world
<1>7. CASE Exit
  <2>1. PICK p \in Positions : TurnOf(p)
      BY <1>7 DEF Exit, TurnOf
  <2>2. Looks(p)
      BY <1>0, <2>1, TurnOfTurns
  <2> QED
      BY <1>5, <2>2 DEF Looks
<1>8. ASSUME UNCHANGED <<pc, owed, cooling, est, had, dumped>>
      PROVE  SaleInv' /\ (owed' > owed => had + owed < template.target)
    BY <1>0, <1>8 DEF SaleInv
<1>9. CASE UNCHANGED vars
    BY <1>8, <1>9 DEF vars, world, reads, history
<1>10. ASSUME NEW p \in Positions, BuyTrades(p) \/ BookMoves(p) \/ Proposal(p) \/ CatchUp(p)
       PROVE  SaleInv' /\ (owed' > owed => had + owed < template.target)
    BY <1>8, <1>10 DEF BuyTrades, BookMoves, Proposal, CatchUp, Alone, reads, history
<1>11. ASSUME NEW o \in orders, SellTrades(o)
       PROVE  SaleInv' /\ (owed' > owed => had + owed < template.target)
    BY <1>8, <1>11 DEF SellTrades, Alone, reads, history
<1> QED
    BY <1>1, <1>2, <1>3, <1>4, <1>6, <1>7, <1>9, <1>10, <1>11 DEF Next, Tick, World

\* A liquidation sells nothing more once the balance that was read and what
\* liquidations have brought since reach the target.  Between ticks it is the
\* cooldown that remembers what get_balance does not show yet (monitor.py:509),
\* within a tick the estimate (monitor.py:583-609).
THEOREM SalesStopAtTarget == Spec => NoOverSale
<1>1. Init => SaleInv
    BY DEF Init, SaleInv
<1>2. OneInv /\ TypeInv /\ SaleInv /\ [Next]_vars => SaleInv'
    BY NextSaleInv
<1>3. OneInv /\ TypeInv /\ SaleInv /\ [Next]_vars
      => [owed' > owed => had + owed < template.target]_vars
    BY NextSaleInv
<1> QED
    BY <1>1, <1>2, <1>3, TypeInvInvariant, PTL DEF Spec, NoOverSale

-----------------------------------------------------------------------------
\* NeverBelowCost: within a tick the trades of a position only grow, so that a
\* cost once rebuilt stays the cost of a part of them.

Adds(ts, us) == us = ts \/ \E t \in Trade : us = Append(ts, t)
TradesGrow == \A p \in Positions : Adds(trades[p], trades'[p])
\* The cost after n trades, for some n from the one given.
CostOfFirst(ts, n) == CostOf(Replay(SubSeq(ts, 1, n)))
KnownFrom(ts, from, c) == \E n \in from..Len(ts) : c = CostOfFirst(ts, n)
CoveredFrom(ts, from, price) ==
    \E n \in from..Len(ts) : price * CostOfFirst(ts, n).size >= CostOfFirst(ts, n).worth

LEMMA AddsKeep ==
    ASSUME NEW ts \in Seq(Trade), NEW us, Adds(ts, us), NEW from \in Nat
    PROVE  /\ \A c : KnownFrom(ts, from, c) => KnownFrom(us, from, c)
           /\ \A price : CoveredFrom(ts, from, price) => CoveredFrom(us, from, price)
<1>1. ASSUME NEW n \in from..Len(ts)
      PROVE  n \in from..Len(us) /\ CostOfFirst(us, n) = CostOfFirst(ts, n)
  <2>1. CASE us = ts
      BY <2>1
  <2>2. ASSUME NEW t \in Trade, us = Append(ts, t)
        PROVE  n \in from..Len(us) /\ CostOfFirst(us, n) = CostOfFirst(ts, n)
    <3>1. Len(ts) \in Nat /\ Len(us) = Len(ts) + 1
        BY <2>2, AppendProperties, LenProperties
    <3>2. n \in from..Len(us) /\ n \in 0..Len(ts)
        BY <3>1
    <3>3. SubSeq(us, 1, n) = SubSeq(ts, 1, n)
        BY <2>2, <3>2, CutIs
    <3> QED
        BY <3>2, <3>3 DEF CostOfFirst
  <2> QED
      BY <2>1, <2>2 DEF Adds
<1>2. ASSUME NEW c, KnownFrom(ts, from, c) PROVE KnownFrom(us, from, c)
    BY <1>1, <1>2 DEF KnownFrom
<1>3. ASSUME NEW price, CoveredFrom(ts, from, price) PROVE CoveredFrom(us, from, price)
  <2>1. PICK n \in from..Len(ts) : price * CostOfFirst(ts, n).size >= CostOfFirst(ts, n).worth
      BY <1>3 DEF CoveredFrom
  <2>2. n \in from..Len(us) /\ CostOfFirst(us, n) = CostOfFirst(ts, n)
      BY <1>1
  <2>3. price * CostOfFirst(us, n).size >= CostOfFirst(us, n).worth
      BY <2>1, <2>2
  <2> QED
      BY <2>2, <2>3 DEF CoveredFrom
<1> QED
    BY <1>2, <1>3

LEMMA SoldGrows ==
    ASSUME TradesOK, NEW p \in Positions, NEW size \in Nat, trades' = Sold(p, size)
    PROVE  TradesGrow
<1>1. CASE size = 0
    BY <1>1 DEF Sold, TradesGrow, Adds
<1>2. CASE size # 0
  <2>1. Sell(size) \in Trade
      BY <1>2, HeldSell DEF TradesOK
  <2> QED
      BY <1>2, <2>1, SoldIs DEF TradesGrow, Adds
<1> QED
    BY <1>1, <1>2

LEMMA DealsGrow == ASSUME TradesOK, NEW p \in Positions, Deals(p) PROVE TradesGrow
<1>1. PICK open : Dealt(p, open)
    BY DEF Deals
<1>2. CASE trades' = trades
    BY <1>2 DEF TradesGrow, Adds
<1> QED
    BY <1>1, <1>2, SoldGrows DEF Dealt, SoldOf

LEMMA WorldGrows == ASSUME TypeInv, World PROVE TradesGrow
<1>0. TradesOK /\ orders \subseteq Sale
    BY DEF TypeInv, WorldOK
<1>1. ASSUME NEW p \in Positions, BuyTrades(p) PROVE TradesGrow
  <2>1. PICK b \in Buys : trades' = [trades EXCEPT ![p] = @ \o AsBuys(<<b>>)]
      BY <1>1 DEF BuyTrades
  <2>2. b \in Lot /\ trades[p] \in Seq(Trade) /\ DOMAIN trades = Positions
      BY <1>0, ConstantsAssumption DEF TradesOK
  <2>3. trades[p] \o AsBuys(<<b>>) = Append(trades[p], Buy(b)) /\ Buy(b) \in Trade
      BY <2>2, HeldBuy
  <2> QED
      BY <2>1, <2>2, <2>3 DEF TradesGrow, Adds
<1>2. ASSUME NEW o \in orders, SellTrades(o) PROVE TradesGrow
  <2>1. PICK size \in {o.left, o.left \div 2} \ {0} : trades' = Sold(o.pos, size)
      BY <1>2 DEF SellTrades
  <2>2. o.left \in Nat /\ o.pos \in Positions
      BY <1>0 DEF Sale
  <2>3. size \in Nat
    <3> DEFINE n == o.left
    <3>1. n \in Nat => n \div 2 \in Nat
      <4> HIDE DEF n
      <4> QED
          OBVIOUS
    <3> QED
        BY <2>2, <3>1
  <2> QED
      BY <1>0, <2>1, <2>2, <2>3, SoldGrows
<1>3. CASE trades' = trades
    BY <1>3 DEF TradesGrow, Adds
<1> QED
    BY <1>1, <1>2, <1>3 DEF World, BookMoves, Proposal, CatchUp, Settle, CoolsDown, world

Covers(r) == r.is \in {"keep", "rest"}
\* The cost in the cache is one of those since the positions were read.
CostInv == \A p \in Positions :
    /\ basis[p] \in Nat
    /\ p \notin moved /\ cost[p] \in Cost => KnownFrom(trades[p], basis[p], cost[p])
CoveredInv == \A p \in Positions \ moved : Covers(row[p]) =>
    \A o \in SellsOf(p, orders) :
        o.id = row[p].id => CoveredFrom(trades[p], basis[p], o.price)
\* What check_exit alone does it has not done yet.
BeforeExit ==
    /\ pc # "each" => moved = {} /\ \A p \in Positions : ~Covers(row[p])
    /\ pc \in {"idle", "low"} => \A p \in Positions : cost[p] = Unread
PriceInv == CostInv /\ CoveredInv /\ BeforeExit

\* Where the tick reads nothing, a cost stays known.
LEMMA CostStays ==
    ASSUME CostInv, TradesOK, TradesGrow, UNCHANGED <<basis, moved, cost>>
    PROVE  CostInv'
<1> SUFFICES ASSUME NEW p \in Positions
             PROVE  /\ basis'[p] \in Nat
                    /\ p \notin moved' /\ cost'[p] \in Cost => KnownFrom(trades'[p], basis'[p], cost'[p])
    BY DEF CostInv
<1>1. /\ basis[p] \in Nat /\ trades[p] \in Seq(Trade) /\ Adds(trades[p], trades'[p])
      /\ p \notin moved /\ cost[p] \in Cost => KnownFrom(trades[p], basis[p], cost[p])
    BY DEF CostInv, TradesOK, TradesGrow
<1> QED
    BY <1>1, AddsKeep

\* A sell that is still there, at its price, still covers a cost.
LEMMA CoveredStays ==
    ASSUME CostInv, CoveredInv, TradesOK, TradesGrow, UNCHANGED <<basis, moved>>,
           NEW p \in Positions \ moved, row'[p] = row[p], Covers(row[p]),
           NEW o \in SellsOf(p, orders)', o.id = row[p].id,
           \E x \in orders : x.id = o.id /\ x.pos = o.pos /\ x.price = o.price
    PROVE  CoveredFrom(trades'[p], basis'[p], o.price)
<1>1. PICK x \in SellsOf(p, orders) : x.id = o.id /\ x.price = o.price
    BY DEF SellsOf
<1>2. CoveredFrom(trades[p], basis[p], o.price)
    BY <1>1 DEF CoveredInv
<1>3. basis[p] \in Nat /\ trades[p] \in Seq(Trade) /\ Adds(trades[p], trades'[p])
    BY DEF CostInv, TradesOK, TradesGrow
<1> QED
    BY <1>2, <1>3, AddsKeep

\* The sell that a turn reports, kept or new, rests at the price it calls for.
LEMMA RowPriced ==
    ASSUME TypeInv, SellsOK, NEW p \in Positions, Keep(p) \/ Rest(p)
    PROVE  \/ row' = row /\ orders' \subseteq orders
           \/ ~Covers(row'[p])
           \/ \A o \in SellsOf(p, orders)' : o.id = row'[p].id => o.price = RestPrice(p)
<1>1. CASE Keep(p)
  <2>1. PICK o \in OwnSells(p) : Report(p, "keep", o.id)
      BY <1>1 DEF Keep
  <2>2. row'[p].id = o.id /\ orders' = orders /\ o.price = RestPrice(p)
      BY <1>1, <2>1, Reported DEF Keep, Keeps, Untouched, SellsOK
  <2>3. o \in Sells
      BY DEF OwnSells, SellsOf, Sells
  <2>4. ASSUME NEW x \in SellsOf(p, orders)', x.id = o.id PROVE x.price = o.price
    <3>1. x \in Sells
        BY <2>2 DEF SellsOf, Sells
    <3> QED
        BY <2>3, <2>4, <3>1 DEF SellsOK
  <2> QED
      BY <2>2, <2>4
<1>2. CASE Rest(p)
  <2> DEFINE ids == Replaced(p)
  <2>1. PICK cancel \in CancelAnswers, sale \in SaleAnswers :
          IF cancel = "error"
          THEN orders' = After(ids, cancel) /\ UNCHANGED row
          ELSE /\ orders' = Placed(p, RestPrice(p), todo[p], After(ids, cancel), sale)
               /\ IF sale = "ok" /\ orders' # After(ids, cancel)
                  THEN Report(p, "rest", NewId)
                  ELSE Report(p, "naked", 0)
      BY <1>2 DEF Rest
  <2> DEFINE open == After(ids, cancel)
             s == [id |-> NewId, pos |-> p, price |-> RestPrice(p), left |-> todo[p]]
  <2>2. open \subseteq orders
      BY AfterLess
  <2>3. CASE cancel = "error"
      BY <2>1, <2>2, <2>3
  <2>4. CASE cancel # "error" /\ Report(p, "naked", 0)
      BY <2>4, Reported DEF Covers, SellsOK
  <2>5. CASE cancel # "error" /\ Report(p, "rest", NewId)
    <3>1. row'[p].id = NewId
        BY <2>5, Reported DEF SellsOK
    <3>2. \A x \in orders : x.id # NewId
        BY NewIdIsNew DEF IdsOf, SellsOK
    <3>3. orders' \subseteq open \union {s}
        BY <2>1, <2>5 DEF Placed
    <3>4. s.price = RestPrice(p)
        OBVIOUS
    <3> HIDE DEF s, open
    <3>5. ASSUME NEW x \in SellsOf(p, orders)', x.id = row'[p].id PROVE x.price = RestPrice(p)
      <4>1. x \in orders'
          BY DEF SellsOf
      <4> QED
          BY <2>2, <3>1, <3>2, <3>3, <3>4, <3>5, <4>1
    <3> QED
        BY <3>5
  <2> QED
      BY <2>1, <2>3, <2>4, <2>5
<1> QED
    BY <1>1, <1>2

\* A price not below CeilToTick of a cost covers it.
LEMMA RestPriceCovers ==
    ASSUME TypeInv, NEW p \in Positions, Looks(p), cost[p] # Unknown,
           NEW ts, NEW from, KnownFrom(ts, from, cost[p])
    PROVE  CoveredFrom(ts, from, RestPrice(p))
<1>1. PICK n \in from..Len(ts) : cost[p] = CostOfFirst(ts, n)
    BY DEF KnownFrom
<1>2. /\ cost[p] \in Cost /\ RestPrice(p) \in Nat /\ RestPrice(p) >= CeilToTick(cost[p])
      /\ CeilToTick(cost[p]) \in Nat /\ CeilToTick(cost[p]) * cost[p].size >= cost[p].worth
    BY RestPriceTyped, RestPriceIs
<1>3. RestPrice(p) * cost[p].size >= cost[p].worth
  <2>1. \A x, y, z, w \in Nat : x >= y /\ y * z >= w => x * z >= w
    <3>1. \A x, y, z \in Nat : x >= y => x * z >= y * z
        OBVIOUS
    <3>2. \A x, y \in Nat : x * y \in Nat
        OBVIOUS
    <3> QED
        BY <3>1, <3>2
  <2>2. cost[p].size \in Nat /\ cost[p].worth \in Nat
      BY <1>2 DEF Cost
  <2> QED
      BY <1>2, <2>1, <2>2
<1>4. RestPrice(p) * CostOfFirst(ts, n).size >= CostOfFirst(ts, n).worth
    BY <1>1, <1>3
<1> QED
    BY <1>4 DEF CoveredFrom

\* A turn: of the others' sells some may be gone, and the new one is its own.
LEMMA TurnPriceInv ==
    ASSUME OneInv, TypeInv, PriceInv, NEW p \in Positions, TurnOf(p)
    PROVE  PriceInv'
<1>0. SellsOK /\ TradesOK /\ CostInv /\ CoveredInv
    BY DEF OneInv, TypeInv, WorldOK, PriceInv
<1>1. PICK ids, answer : Asks(p, ids, answer) /\ Sends(p, ids, answer)
    BY <1>0, TurnOfTurns DEF Turn
<1>2. Looks(p) /\ Deals(p)
    BY <1>0, TurnOfTurns, TurnOfTypes DEF TurnOK
<1>3. TradesGrow /\ pc = "each" /\ pc' = "each" /\ UNCHANGED <<basis, moved, cost>>
    BY <1>0, <1>2, DealsGrow DEF Looks
<1>4. CostInv'
    BY <1>0, <1>3, CostStays
<1>5. ASSUME NEW q \in Positions \ moved, Covers(row'[q]), NEW o \in SellsOf(q, orders)',
             o.id = row'[q].id
      PROVE  CoveredFrom(trades'[q], basis'[q], o.price)
  <2>1. CASE q # p
    <3>1. row'[q] = row[q]
        BY <1>1, <2>1 DEF Asks
    <3>2. o \in orders
        BY <1>1, <2>1, AfterLess DEF SellsOf, Sends, Rests
    <3> QED
        BY <1>0, <1>3, <1>5, <3>1, <3>2, CoveredStays
  <2>2. CASE q = p /\ row' = row /\ orders' \subseteq orders
    <3>1. o \in orders
        BY <2>2 DEF SellsOf
    <3> QED
        BY <1>0, <1>3, <1>5, <2>2, <3>1, CoveredStays
  <2>3. CASE q = p /\ (Keep(p) \/ Rest(p)) /\ o.price = RestPrice(p)
    <3>1. cost[p] # Unknown
        BY <2>3 DEF Keep, Rest, Decides
    <3>2. cost[p] \in Cost
        BY <1>2, <3>1, RestPriceTyped
    <3>3. basis[p] \in Nat /\ KnownFrom(trades[p], basis[p], cost[p])
        BY <1>0, <2>3, <3>2 DEF CostInv
    <3>4. CoveredFrom(trades[p], basis[p], RestPrice(p))
        BY <1>2, <3>1, <3>3, RestPriceCovers
    <3>5. trades[p] \in Seq(Trade) /\ Adds(trades[p], trades'[p]) /\ basis' = basis
        BY <1>0, <1>3 DEF TradesOK, TradesGrow
    <3> QED
        BY <2>3, <3>3, <3>4, <3>5, AddsKeep
  <2>4. ASSUME q = p, ~(Keep(p) \/ Rest(p)) PROVE FALSE
    <3>1. PICK is, id : Report(p, is, id) /\ is \notin {"keep", "rest"}
      <4>1. CASE Resolve(p)
        <5>1. Report(p, "nobid", 0) \/ Report(p, "sold", 0) \/ Report(p, "unsold", 0)
            BY <4>1 DEF Resolve, MarketDump
        <5> QED
            BY <5>1
      <4>2. CASE Naked(p) \/ DeadBook(p)
          BY <4>2 DEF Naked, DeadBook
      <4>3. CASE SellNow(p)
          BY <4>3 DEF SellNow
      <4>4. CASE MakerWaits(p)
          BY <4>4 DEF MakerWaits
      <4>5. CASE MakerRests(p)
        <5>1. Report(p, "noask", 0) \/ Report(p, "maker", NewId) \/ Report(p, "unsold", 0)
            BY <4>5 DEF MakerRests
        <5> QED
            BY <5>1
      <4>6. CASE Compare(p)
          BY <4>6 DEF Compare
      <4> QED
          BY <2>4, <4>1, <4>2, <4>3, <4>4, <4>5, <4>6 DEF TurnOf
    <3> QED
        BY <1>0, <1>5, <2>4, <3>1, Reported DEF Covers, SellsOK
  <2> QED
      BY <1>0, <1>5, <2>1, <2>2, <2>3, <2>4, RowPriced
<1>6. CoveredInv'
    BY <1>3, <1>5 DEF CoveredInv
<1>7. BeforeExit'
    BY <1>3 DEF BeforeExit
<1> QED
    BY <1>4, <1>6, <1>7 DEF PriceInv

\* Before check_exit nothing is reported as covered.
LEMMA EarlyPriceInv ==
    ASSUME CostInv', BeforeExit', pc' # "each"
    PROVE  PriceInv'
<1>1. CoveredInv'
    BY DEF BeforeExit, CoveredInv
<1> QED
    BY <1>1 DEF PriceInv

\* What is read anew is the cost of all trades there are.
LEMMA ReadKnown ==
    ASSUME TypeInv, NEW sizes, NEW unpriced, NEW blind, Prefetch(sizes, unpriced, blind),
           NEW p \in Positions, cost[p] = Unread, cost'[p] \in Cost
    PROVE  KnownFrom(trades[p], shown[p], cost'[p])
<1>1. cost'[p] = IF p \notin DOMAIN sizes \/ cost[p] # Unread THEN cost[p]
                 ELSE IF p \in unpriced THEN Unknown ELSE Rebuilt(p, sizes[p])
    BY DEF Prefetch
<1>2. cost'[p] = Rebuilt(p, sizes[p]) /\ cost'[p] # Unknown
    BY <1>1, CostIsKnown
<1>3. cost'[p] = CostOfFirst(trades[p], Len(trades[p]))
    BY <1>2 DEF Rebuilt, Lots, CostOfFirst
<1>4. shown[p] \in 0..Len(trades[p]) /\ Len(trades[p]) \in Nat
    BY LenProperties DEF TypeInv, WorldOK, TradesOK
<1>5. Len(trades[p]) \in shown[p]..Len(trades[p])
    BY <1>4
<1> QED
    BY <1>3, <1>5 DEF KnownFrom

LEMMA LowReadsPriceInv == ASSUME TypeInv, PriceInv, LowReads PROVE PriceInv'
<1>1. PICK sizes, unpriced, blind : Prefetch(sizes, unpriced, blind)
    BY DEF LowReads
<1>2. /\ pc = "low" /\ pc' = "liquidate" /\ basis' = shown /\ UNCHANGED <<trades, moved, row>>
    BY DEF LowReads, world
<1>3. \A p \in Positions : cost[p] = Unread /\ shown[p] \in Nat
    BY <1>2 DEF PriceInv, BeforeExit, TypeInv, WorldOK, TradesOK
<1>4. CostInv'
    BY <1>1, <1>2, <1>3, ReadKnown DEF CostInv
<1>5. BeforeExit'
    BY <1>2 DEF PriceInv, BeforeExit
<1> QED
    BY <1>2, <1>4, <1>5, EarlyPriceInv

\* A cost that was read before stays only where the position has not changed.
LEMMA ExitReadsPriceInv == ASSUME TypeInv, PriceInv, ExitReads PROVE PriceInv'
<1>1. PICK sizes, unpriced, blind : Prefetch(sizes, unpriced, blind)
    BY DEF ExitReads
<1>2. /\ pc = "exit" /\ pc' = "each" /\ basis' = shown /\ UNCHANGED <<trades, row>>
      /\ moved' = {p \in Positions : cost[p] # Unread /\ shown[p] # basis[p]}
    BY DEF ExitReads, world
<1>3. moved = {} /\ \A p \in Positions : ~Covers(row[p]) /\ shown[p] \in Nat
    BY <1>2 DEF PriceInv, BeforeExit, TypeInv, WorldOK, TradesOK
<1>4. ASSUME NEW p \in Positions, p \notin moved', cost'[p] \in Cost
      PROVE  KnownFrom(trades'[p], basis'[p], cost'[p])
  <2>1. CASE cost[p] = Unread
      BY <1>1, <1>2, <1>4, <2>1, ReadKnown
  <2>2. CASE cost[p] # Unread
    <3>1. cost'[p] = cost[p] /\ shown[p] = basis[p]
        BY <1>1, <1>2, <1>4, <2>2 DEF Prefetch
    <3> QED
        BY <1>2, <1>3, <1>4, <3>1 DEF PriceInv, CostInv
  <2> QED
      BY <2>1, <2>2
<1>5. CostInv'
    BY <1>2, <1>3, <1>4 DEF CostInv
<1>6. CoveredInv' /\ BeforeExit'
    BY <1>2, <1>3 DEF CoveredInv, BeforeExit
<1> QED
    BY <1>5, <1>6 DEF PriceInv

LEMMA LiquidatePriceInv ==
    ASSUME TypeInv, SellsOK, PriceInv, NEW p \in Positions, Liquidate(p)
    PROVE  PriceInv'
<1>1. /\ pc = "liquidate" /\ UNCHANGED <<pc, basis, moved, cost>> /\ DOMAIN row = Positions
      /\ TradesOK /\ moved = {} /\ \A q \in Positions : ~Covers(row[q])
    BY DEF Liquidate, SellsOK, TypeInv, WorldOK, PriceInv, BeforeExit
<1>2. TradesGrow
    BY <1>1, LiquidateDeals, DealsGrow
<1>3. CostInv'
    BY <1>1, <1>2, CostStays DEF PriceInv
<1>4. \A q \in Positions : ~Covers(row'[q])
  <2>1. CASE row' = row
      BY <1>1, <2>1
  <2>2. ASSUME NEW is \in {"sold", "unsold"}, Report(p, is, 0)
        PROVE  \A q \in Positions : ~Covers(row'[q])
    <3>1. row'[p].is = is /\ \A q \in Positions \ {p} : row'[q] = row[q]
        BY <1>1, <2>2 DEF Report
    <3> QED
        BY <1>1, <3>1 DEF Covers
  <2>3. row' = row \/ Report(p, "sold", 0) \/ Report(p, "unsold", 0)
      BY DEF Liquidate, MarketDump
  <2> QED
      BY <2>1, <2>2, <2>3
<1>5. BeforeExit'
    BY <1>1, <1>4 DEF BeforeExit
<1> QED
    BY <1>1, <1>3, <1>5, EarlyPriceInv

\* The steps that begin or end something.
LEMMA EdgesPriceInv ==
    ASSUME TypeInv, TypeInv', PriceInv, BeginTick \/ LowSkipped \/ LowDone \/ TickEnds \/ ExitFails
    PROVE  PriceInv'
<1>1. CASE BeginTick
  <2>1. /\ pc' = "low" /\ basis' = shown' /\ moved' = {} /\ cost' = [p \in Positions |-> Unread]
        /\ row' = [p \in Positions |-> Quiet]
      BY <1>1 DEF BeginTick
  <2>2. CostInv'
    <3>1. \A p \in Positions : cost'[p] \notin Cost /\ basis'[p] \in Nat
        BY <2>1, CostIsKnown DEF TypeInv, WorldOK, TradesOK
    <3> QED
        BY <3>1 DEF CostInv
  <2>3. BeforeExit'
      BY <2>1 DEF BeforeExit, Covers, Quiet
  <2> QED
      BY <2>1, <2>2, <2>3, EarlyPriceInv
<1>2. CASE LowSkipped \/ LowDone
  <2>1. /\ pc' = "exit" /\ pc # "each" /\ UNCHANGED <<basis, moved, cost, row, trades>>
      BY <1>2 DEF LowSkipped, LowDone, world, reads, history
  <2>2. CostInv'
      BY <2>1 DEF PriceInv, CostInv
  <2>3. BeforeExit'
      BY <2>1 DEF PriceInv, BeforeExit
  <2> QED
      BY <2>1, <2>2, <2>3, EarlyPriceInv
<1>3. CASE TickEnds \/ ExitFails
  <2>1. /\ pc' = "idle" /\ basis' = basis /\ moved' = {} /\ cost' = [p \in Positions |-> Unread]
        /\ row' = [p \in Positions |-> Quiet]
      BY <1>3 DEF TickEnds, ExitFails, Ends
  <2>2. CostInv'
      BY <2>1, CostIsKnown DEF PriceInv, CostInv
  <2>3. BeforeExit'
      BY <2>1 DEF BeforeExit, Covers, Quiet
  <2> QED
      BY <2>1, <2>2, <2>3, EarlyPriceInv
<1> QED
    BY <1>1, <1>2, <1>3

LEMMA WorldPriceInv == ASSUME OneInv, TypeInv, PriceInv, World PROVE PriceInv'
<1>1. UNCHANGED <<pc, basis, moved, cost, row>>
  <2>1. Alone
      BY DEF World, BuyTrades, BookMoves, Proposal, CatchUp, SellTrades, Settle, CoolsDown
  <2> QED
      BY <2>1 DEF Alone, reads, history
<1>2. TradesGrow /\ TradesOK /\ CostInv /\ CoveredInv
    BY WorldGrows DEF TypeInv, WorldOK, PriceInv
<1>3. CostInv'
    BY <1>1, <1>2, CostStays
<1>4. \A o \in orders' : \E x \in orders : x.id = o.id /\ x.pos = o.pos /\ x.price = o.price
  <2>1. CASE orders' = orders
      BY <2>1
  <2>2. ASSUME NEW o \in orders, NEW r, r.id = o.id, r.pos = o.pos, r.price = o.price,
               orders' \in {orders \ {o}, (orders \ {o}) \union {r}}
        PROVE  \A y \in orders' : \E x \in orders : x.id = y.id /\ x.pos = y.pos /\ x.price = y.price
      BY <2>2
  <2> QED
      BY <2>1, <2>2, WorldSells
<1>5. ASSUME NEW p \in Positions \ moved, Covers(row[p]), NEW o \in SellsOf(p, orders)',
             o.id = row[p].id
      PROVE  CoveredFrom(trades'[p], basis'[p], o.price)
  <2>1. o \in orders'
      BY DEF SellsOf
  <2>2. \E x \in orders : x.id = o.id /\ x.pos = o.pos /\ x.price = o.price
      BY <1>4, <2>1
  <2> QED
      BY <1>1, <1>2, <1>5, <2>2, CoveredStays
<1>6. CoveredInv'
    BY <1>1, <1>5 DEF CoveredInv
<1>7. BeforeExit'
    BY <1>1 DEF PriceInv, BeforeExit
<1> QED
    BY <1>3, <1>6, <1>7 DEF PriceInv

LEMMA NextPriceInv == ASSUME OneInv, TypeInv, TypeInv', PriceInv, [Next]_vars PROVE PriceInv'
<1>0. SellsOK
    BY DEF OneInv
<1>1. CASE Exit
  <2>1. PICK p \in Positions : TurnOf(p)
      BY <1>1 DEF Exit, TurnOf
  <2> QED
      BY <2>1, TurnPriceInv
<1>2. CASE UNCHANGED vars
    BY <1>2 DEF vars, world, reads, history, PriceInv, CostInv, CoveredInv, BeforeExit, SellsOf
<1>3. ASSUME NEW p \in Positions, Liquidate(p) PROVE PriceInv'
    BY <1>0, <1>3, LiquidatePriceInv
<1> QED
    BY <1>1, <1>2, <1>3, LowReadsPriceInv, ExitReadsPriceInv, EdgesPriceInv, WorldPriceInv
       DEF Next, Tick

LEMMA PriceInvInvariant == Spec => [](OneInv /\ TypeInv /\ PriceInv)
<1>1. Init => PriceInv
  <2> SUFFICES ASSUME Init PROVE PriceInv
      OBVIOUS
  <2>1. /\ pc = "idle" /\ moved = {} /\ basis = shown
        /\ row = [p \in Positions |-> Quiet] /\ cost = [p \in Positions |-> Unread]
      BY DEF Init
  <2>2. \A p \in Positions : shown[p] \in Nat
      BY InitTypeInv DEF TypeInv, WorldOK, TradesOK
  <2>3. CostInv
      BY <2>1, <2>2, CostIsKnown DEF CostInv
  <2>4. BeforeExit /\ CoveredInv
      BY <2>1 DEF BeforeExit, CoveredInv, Covers, Quiet
  <2> QED
      BY <2>3, <2>4 DEF PriceInv
<1>2. OneInv /\ TypeInv /\ TypeInv' /\ PriceInv /\ [Next]_vars => PriceInv'
    BY NextPriceInv
<1> QED
    BY <1>1, <1>2, TypeInvInvariant, PTL DEF Spec

\* A sell that check_exit rests or keeps is not below the cost of the position,
\* unless the position changed between the tick's two reads: the price is never
\* below CeilToTick of the cost in the cache (monitor.py:824-894), which is the
\* cost of the trades there were when it was rebuilt.
THEOREM SellsCoverCost == Spec => []NeverBelowCost
<1>1. PriceInv => NeverBelowCost
  <2> SUFFICES ASSUME PriceInv, NEW p \in Positions \ moved, row[p].is \in {"keep", "rest"},
                      NEW o \in SellsOf(p, orders), o.id = row[p].id
               PROVE  \E n \in basis[p]..Len(trades[p]) :
                          o.price * CostAt(p, n).size >= CostAt(p, n).worth
      BY DEF NeverBelowCost, CoversCost
  <2>1. CoveredFrom(trades[p], basis[p], o.price)
      BY DEF PriceInv, CoveredInv, Covers
  <2> QED
      BY <2>1 DEF CoveredFrom, CostOfFirst, CostAt, Lots
<1> QED
    BY <1>1, PriceInvInvariant, PTL

-----------------------------------------------------------------------------
\* CalmTickCovers: a tick is calm as long as nothing has failed or moved since it
\* began; what it has read is then true, and what it asks for is done.

Calm == began = <<moves, faults>>
BeganOK ==
    /\ moves \in Nat /\ faults \in Nat
    /\ \E m \in 0..moves, f \in 0..faults : began = <<m, f>>

LEMMA CalmBefore ==
    ASSUME BeganOK, began' = began, moves' \in Nat, faults' \in Nat, moves' >= moves, faults' >= faults
    PROVE  BeganOK' /\ (Calm' => Calm /\ moves' = moves /\ faults' = faults)
<1>1. PICK m \in 0..moves, f \in 0..faults : began = <<m, f>>
    BY DEF BeganOK
<1>2. m \in 0..moves' /\ f \in 0..faults'
    BY DEF BeganOK
<1>3. BeganOK'
    BY <1>1, <1>2 DEF BeganOK
<1>4. ASSUME Calm' PROVE Calm /\ moves' = moves /\ faults' = faults
  <2>1. m = moves' /\ f = faults'
      BY <1>1, <1>4 DEF Calm
  <2>2. m = moves /\ f = faults
      BY <2>1 DEF BeganOK
  <2> QED
      BY <1>1, <2>1, <2>2 DEF Calm
<1> QED
    BY <1>3, <1>4

LEMMA FaultsGrow ==
    ASSUME NEW n \in Nat, NEW answers, DOMAIN answers = 1..n, faults \in Nat, Faults(answers)
    PROVE  /\ faults' \in Nat /\ faults' >= faults
           /\ faults' = faults => \A i \in 1..n : answers[i] \in {"done", "ok"}
<1> DEFINE S == {i \in 1..n : answers[i] \notin {"done", "ok"}}
<1>1. IsFiniteSet(S)
  <2>1. IsFiniteSet(1..n)
      BY FS_Interval
  <2> QED
      BY <2>1, FS_Subset
<1>2. faults' = faults + Cardinality(S)
    BY DEF Faults, Fails
<1>3. (\A i \in 1..n : answers[i] \in {"done", "ok"}) <=> S = {}
    OBVIOUS
<1> HIDE DEF S
<1>4. Cardinality(S) \in Nat /\ (Cardinality(S) = 0 <=> S = {})
    BY <1>1, FS_CardinalityType, FS_EmptySet
<1> QED
    BY <1>2, <1>3, <1>4

\* A cancel and a sale that cost no fault.
LEMMA PairFaults ==
    ASSUME NEW a, NEW b, faults \in Nat, Faults(<<a, b>>)
    PROVE  /\ faults' \in Nat /\ faults' >= faults
           /\ faults' = faults => a \in {"done", "ok"} /\ b \in {"done", "ok"}
<1> DEFINE answers == <<a, b>>
<1>1. PICK n \in Nat : n = 2
    OBVIOUS
<1>2. DOMAIN answers = 1..n /\ answers[1] = a /\ answers[2] = b
    BY <1>1
<1> HIDE DEF answers
<1>3. Faults(answers)
    BY DEF answers
<1>4. /\ faults' \in Nat /\ faults' >= faults
      /\ faults' = faults => \A i \in 1..n : answers[i] \in {"done", "ok"}
    BY <1>2, <1>3, FaultsGrow
<1>5. 1 \in 1..n /\ 2 \in 1..n
    BY <1>1
<1> QED
    BY <1>2, <1>4, <1>5

LEMMA OneFault ==
    ASSUME NEW a, faults \in Nat, Faults(<<a>>)
    PROVE  faults' \in Nat /\ faults' >= faults /\ (faults' = faults => a \in {"done", "ok"})
<1> DEFINE answers == <<a>>
<1>1. PICK n \in Nat : n = 1
    OBVIOUS
<1>2. DOMAIN answers = 1..n /\ answers[1] = a
    BY <1>1
<1> HIDE DEF answers
<1>3. Faults(answers)
    BY DEF answers
<1>4. /\ faults' \in Nat /\ faults' >= faults
      /\ faults' = faults => \A i \in 1..n : answers[i] \in {"done", "ok"}
    BY <1>2, <1>3, FaultsGrow
<1>5. 1 \in 1..n
    BY <1>1
<1> QED
    BY <1>2, <1>4, <1>5

LEMMA TurnFaults ==
    ASSUME faults \in Nat, NEW p \in Positions, TurnOf(p)
    PROVE  faults' \in Nat /\ faults' >= faults
<1>1. ASSUME NEW a, NEW b, NEW c, Faults(<<a, b, c>>) PROVE faults' \in Nat /\ faults' >= faults
  <2> DEFINE answers == <<a, b, c>>
  <2>1. PICK n \in Nat : n = 3
      OBVIOUS
  <2>2. DOMAIN answers = 1..n
      BY <2>1
  <2> HIDE DEF answers
  <2>3. Faults(answers)
      BY <1>1 DEF answers
  <2> QED
      BY <2>2, <2>3, FaultsGrow
<1>2. CASE faults' = faults
    BY <1>2
<1>3. CASE Resolve(p)
  <2>1. faults' = faults \/ \E a, b : Faults(<<a, b>>)
      BY <1>3 DEF Resolve, Untouched
  <2> QED
      BY <1>2, <2>1, PairFaults
<1>4. CASE Naked(p) \/ DeadBook(p) \/ Keep(p) \/ MakerWaits(p)
    BY <1>2, <1>4 DEF Naked, DeadBook, Keep, MakerWaits, Untouched
<1>5. CASE Rest(p)
  <2>1. \E a, b : Faults(<<a, b>>)
      BY <1>5 DEF Rest
  <2> QED
      BY <2>1, PairFaults
<1>6. CASE SellNow(p)
  <2>1. \E a, b : Faults(<<a, b>>)
      BY <1>6 DEF SellNow
  <2> QED
      BY <2>1, PairFaults
<1>7. CASE MakerRests(p)
  <2>1. faults' = faults \/ \E a, b : Faults(<<a, b>>)
      BY <1>7 DEF MakerRests, Untouched
  <2> QED
      BY <1>2, <2>1, PairFaults
<1>8. CASE Compare(p)
  <2>1. \E a, b, c : Faults(<<a, b, c>>)
      BY <1>8 DEF Compare
  <2> QED
      BY <1>1, <2>1
<1> QED
    BY <1>3, <1>4, <1>5, <1>6, <1>7, <1>8 DEF TurnOf

\* Where no sell is open, all that is held can be sold, and what bids takes some.
LEMMA AllFree ==
    ASSUME TypeInv, NEW p \in Positions, NEW open, SellsOf(p, open) = {}
    PROVE  Held(p) \in Nat /\ Free(p, open) = Held(p)
<1>1. trades[p] \in Seq(Trade) /\ Len(trades[p]) \in 0..Len(trades[p]) /\ TradesOK
    BY LenProperties DEF TypeInv, WorldOK, TradesOK
<1>2. Held(p) \in Nat
    BY <1>1, LotsTyped DEF Held
<1> DEFINE f == [o \in SellsOf(p, open) |-> o.left]
<1>3. SumFunction(f) = 0
  <2>1. DOMAIN f = {}
      OBVIOUS
  <2> HIDE DEF f
  <2> QED
      BY <2>1, SumEmpty
<1> HIDE DEF f
<1>4. Free(p, open) = Held(p) - SumFunction(f)
    BY DEF Free, f
<1> QED
    BY <1>2, <1>3, <1>4

LEMMA DepthPositive ==
    ASSUME NEW p \in Positions, NEW b \in Books[p], BestBid(b) # 0, NEW size \in Nat \ {0}
    PROVE  Depth(b, size) > 0
<1>1. b.bids \in Seq(Lot) /\ b.bids # <<>>
    BY BidsTyped DEF BestBid
<1>2. Len(b.bids) \in Nat /\ Len(b.bids) > 0
    BY <1>1, EmptySeq, LenProperties
<1>3. Total(b.bids) \in Nat /\ Total(b.bids) > 0
  <2> DEFINE lots == b.bids
  <2>1. 0 \in 0..Len(lots) /\ Len(lots) \in 0..Len(lots) /\ 0 < Len(lots)
      BY <1>2
  <2>2. Upto(lots, 0) < Upto(lots, Len(lots))
      BY <1>1, <2>1, UptoGrows
  <2>3. Upto(lots, 0) = 0 /\ Upto(lots, Len(lots)) = Total(lots)
      BY <1>1, UptoIs
  <2> QED
      BY <1>1, <2>2, <2>3, TotalNat
<1> QED
    BY <1>3 DEF Depth, Fewest

LEMMA SaleFills ==
    ASSUME TypeInv, NEW p \in Positions, NEW open, SellsOf(p, open) = {},
           NEW size \in Nat \ {0}, size = Held(p)
    PROVE  /\ ~(size > Free(p, open))
           /\ BestBid(book[p]) # 0 => Filled(p, size, open, "ok") > 0
<1>1. Free(p, open) = size
    BY AllFree
<1>2. book[p] \in Books[p]
    BY DEF TypeInv, WorldOK
<1>3. BestBid(book[p]) # 0 => Depth(book[p], size) > 0
    BY <1>2, DepthPositive
<1> QED
    BY <1>1, <1>3 DEF Filled

\* What CalmTickCovers says of a position that had its turn.
Served(p) ==
    \/ basis[p] < Len(trades[p]) \/ p \in moved
    \/ Held(p) = 0 \/ SellsOf(p, orders) # {}
    \/ row[p].is = "sold" \/ BestBid(quote[p]) = 0
StillThere(o) == \E x \in orders : x.id = o.id /\ x.pos = o.pos

\* What was sold in this tick is reported, and not looked at again.
DumpedSold ==
    /\ pc = "low" => dumped = {}
    /\ pc # "idle" => \A p \in dumped :
           row[p].is = "sold" /\ (pc \in {"liquidate", "each"} => p \notin DOMAIN todo)
BasisIn == \A p \in Positions : basis[p] \in 0..Len(trades[p])
SizesRead == pc = "each" => \A p \in DOMAIN todo : todo[p] = Total(Lots(p, basis[p]))
\* In a calm tick a cost is missing of positions that the Data API shows late
\* only, and the sells it has read are open unless it has cancelled them.
CostsRead == \A p \in Positions : cost[p] = Unknown => basis[p] < Len(trades[p]) \/ p \in moved
BooksRead == \A p \in Positions : quote[p] \in {Unread, Unknown, book[p]}
SellsRead ==
    /\ pc # "each" => \A o \in OpenOrders : o.id \notin cancelled => StillThere(o)
    /\ pc = "each" => \A o \in view : o.pos \in DOMAIN todo /\ o.id \notin cancelled => StillThere(o)
AllServed == pc = "each" /\ ~template.router => \A p \in Positions : p \in DOMAIN todo \/ Served(p)
CalmOK == Calm /\ pc # "idle" => CostsRead /\ BooksRead /\ SellsRead /\ AllServed
CalmInv == BeganOK /\ DumpedSold /\ BasisIn /\ SizesRead /\ CalmOK

LEMMA GrownLots ==
    ASSUME TradesOK, TradesGrow, NEW p \in Positions, NEW n \in 0..Len(trades[p])
    PROVE  /\ n \in 0..Len(trades'[p]) /\ Lots(p, n)' = Lots(p, n)
           /\ n < Len(trades[p]) => n < Len(trades'[p])
           /\ n >= Len(trades'[p]) => trades'[p] = trades[p]
<1> DEFINE ts == trades[p]
           us == trades'[p]
<1>1. ts \in Seq(Trade) /\ Adds(ts, us)
    BY DEF TradesOK, TradesGrow
<1>2. Len(ts) \in Nat
    BY <1>1, LenProperties
<1>3. Lots(p, n) = Replay(SubSeq(ts, 1, n)) /\ Lots(p, n)' = Replay(SubSeq(us, 1, n))
    BY DEF Lots
<1> HIDE DEF ts, us
<1>4. CASE us = ts
    BY <1>2, <1>3, <1>4 DEF ts, us
<1>5. ASSUME NEW t \in Trade, us = Append(ts, t)
      PROVE  /\ n \in 0..Len(us) /\ SubSeq(us, 1, n) = SubSeq(ts, 1, n)
             /\ Len(us) = Len(ts) + 1
  <2>1. Len(us) = Len(ts) + 1
      BY <1>1, <1>5, AppendProperties
  <2>2. n \in 0..Len(ts)
      BY DEF ts
  <2> QED
      BY <1>1, <1>2, <1>5, <2>1, <2>2, CutIs
<1>6. ASSUME NEW t \in Trade, us = Append(ts, t)
      PROVE  /\ n \in 0..Len(us) /\ Lots(p, n)' = Lots(p, n)
             /\ n < Len(ts) => n < Len(us)
             /\ ~(n >= Len(us))
  <2>1. /\ n \in 0..Len(us) /\ SubSeq(us, 1, n) = SubSeq(ts, 1, n) /\ Len(us) = Len(ts) + 1
      BY <1>5, <1>6
  <2>2. n \in 0..Len(ts)
      BY DEF ts
  <2>3. Lots(p, n)' = Lots(p, n)
      BY <1>3, <2>1
  <2>4. n \in Nat /\ n <= Len(ts)
      BY <1>2, <2>2
  <2>5. n < Len(us)
      BY <1>2, <2>1, <2>4
  <2> QED
      BY <1>2, <2>1, <2>3, <2>4, <2>5
<1> QED
    BY <1>1, <1>4, <1>6 DEF Adds, ts, us

\* In a calm tick the turn of a position sells it or leaves a sell that rests.
LEMMA TurnServes ==
    ASSUME OneInv, TypeInv, CalmInv, CalmOK, NEW p \in Positions, TurnOf(p), Calm,
           faults' = faults, ~template.router, TradesGrow
    PROVE  Served(p)'
<1>0. /\ SellsOK /\ Looks(p) /\ DOMAIN row = Positions /\ TradesOK
      /\ pc = "each" /\ p \in DOMAIN todo /\ UNCHANGED <<basis, moved, quote>>
      /\ faults \in Nat
    BY TurnOfTurns DEF OneInv, SellsOK, TypeInv, WorldOK, Looks, CalmInv, BeganOK
<1>1. CostsRead /\ BooksRead /\ SellsRead
    BY <1>0 DEF CalmOK
<1> SUFFICES ASSUME ~(basis'[p] < Len(trades'[p])), p \notin moved', Held(p)' # 0,
                    SellsOf(p, orders)' = {}, row'[p].is # "sold", BestBid(quote'[p]) # 0
             PROVE  FALSE
    BY DEF Served
<1>2. trades'[p] = trades[p] /\ basis[p] = Len(trades[p])
  <2>1. basis[p] \in 0..Len(trades[p]) /\ Len(trades[p]) \in Nat
      BY <1>0, LenProperties DEF CalmInv, BasisIn, TradesOK
  <2>2. trades'[p] \in Seq(Trade)
    <3>1. trades[p] \in Seq(Trade) /\ Adds(trades[p], trades'[p])
        BY <1>0 DEF TradesOK, TradesGrow
    <3> QED
        BY <3>1, AppendProperties DEF Adds
  <2>3. Len(trades'[p]) \in Nat
      BY <2>2, LenProperties
  <2>4. basis[p] >= Len(trades'[p])
      BY <1>0, <2>1, <2>3
  <2>5. trades'[p] = trades[p]
      BY <1>0, <2>1, <2>4, GrownLots
  <2> QED
      BY <2>1, <2>4, <2>5
<1>3. /\ todo[p] = Held(p) /\ todo[p] \in Nat \ {0}
      /\ quote[p] = book[p] /\ BestBid(book[p]) # 0
  <2>1. todo[p] = Held(p)
      BY <1>0, <1>2 DEF CalmInv, SizesRead, Held
  <2>2. quote[p] # Unread
      BY <1>0 DEF TypeInv, TodoOK
  <2>3. quote[p] # Unknown
      BY <1>0 DEF BestBid
  <2>4. quote[p] = book[p]
      BY <1>1, <2>2, <2>3 DEF BooksRead
  <2> QED
      BY <1>0, <2>1, <2>4, LookedAt
<1>4. cost[p] # Unknown
  <2>1. ~(basis[p] < Len(trades[p])) /\ p \notin moved
      BY <1>0, <1>2
  <2> QED
      BY <1>1, <2>1 DEF CostsRead
<1>5. ASSUME NEW sale, sale \in {"done", "ok"}, sale \in SaleAnswers, NEW fill,
             fill = Filled(p, todo[p], orders', sale)
      PROVE  fill > 0 /\ sale = "ok"
    BY <1>3, <1>5, SaleFills DEF SaleAnswers
<1>6. CASE Resolve(p)
  <2>1. PICK cancel \in CancelAnswers, sale \in SaleAnswers :
          /\ Faults(<<cancel, sale>>)
          /\ \E fill \in {Filled(p, todo[p], After(IdsOf(OwnSells(p)), cancel), sale)} :
                MarketDump(p, cancel, sale, fill)
      BY <1>3, <1>6 DEF Resolve
  <2>2. sale \in {"done", "ok"}
      BY <1>0, <2>1, PairFaults
  <2>3. PICK fill : /\ fill = Filled(p, todo[p], orders', sale)
                    /\ Report(p, IF fill > 0 /\ sale = "ok" THEN "sold" ELSE "unsold", 0)
      BY <2>1 DEF MarketDump
  <2>4. Report(p, "sold", 0)
      BY <1>5, <2>2, <2>3
  <2> QED
      BY <1>0, <2>4, Reported
<1>7. CASE Naked(p)
    BY <1>4, <1>7 DEF Naked
<1>8. CASE DeadBook(p)
  <2>1. PlanExit(cost[p], quote[p]).action = "noop"
      BY <1>8 DEF DeadBook, Decides
  <2>2. ~Dead(quote[p])
      BY <1>0 DEF Dead
  <2> QED
      BY <2>1, <2>2 DEF PlanExit
<1>9. CASE Keep(p)
  <2>1. PICK o \in OwnSells(p) : TRUE
      BY <1>9 DEF Keep
  <2>2. o \in view /\ o.pos = p /\ o.id \notin cancelled
      BY DEF OwnSells, SellsOf
  <2>3. PICK x \in orders : x.pos = p
      BY <1>0, <1>1, <2>2 DEF SellsRead, StillThere
  <2>4. orders' = orders
      BY <1>9 DEF Keep, Untouched
  <2> QED
      BY <2>3, <2>4 DEF SellsOf
<1>10. CASE Rest(p)
  <2> DEFINE ids == Replaced(p)
  <2>1. PICK cancel \in CancelAnswers, sale \in SaleAnswers :
          /\ Faults(<<cancel, sale>>)
          /\ cancel # "error" =>
                 orders' = Placed(p, RestPrice(p), todo[p], After(ids, cancel), sale)
      BY <1>10 DEF Rest
  <2>2. cancel = "done" /\ sale = "ok"
    <3>1. cancel \in {"done", "ok"} /\ sale \in {"done", "ok"}
        BY <1>0, <2>1, PairFaults
    <3> QED
        BY <3>1 DEF CancelAnswers, SaleAnswers
  <2> DEFINE open == After(ids, cancel)
             s == [id |-> NewId, pos |-> p, price |-> RestPrice(p), left |-> todo[p]]
  <2>3. orders' = IF todo[p] > Free(p, open) THEN open ELSE open \union {s}
      BY <2>1, <2>2 DEF Placed
  <2>4. s.pos = p
      OBVIOUS
  <2> HIDE DEF open, s
  <2>5. SellsOf(p, open) = {}
      BY <2>3 DEF SellsOf
  <2>6. ~(todo[p] > Free(p, open))
      BY <1>3, <2>5, SaleFills
  <2> QED
      BY <2>3, <2>4, <2>6 DEF SellsOf
<1>11. CASE SellNow(p)
  <2>1. PICK cancel \in CancelAnswers, sale \in SaleAnswers :
          /\ Faults(<<cancel, sale>>)
          /\ \E ids \in {IdsOf(OwnSells(p))} :
             \E fill \in {Filled(p, todo[p], After(ids, cancel), sale)} :
                /\ orders' = After(ids, cancel)
                /\ Report(p, IF fill > 0 /\ sale = "ok" THEN "sold" ELSE "naked", 0)
      BY <1>11 DEF SellNow
  <2>2. sale \in {"done", "ok"}
      BY <1>0, <2>1, PairFaults
  <2>3. PICK fill : /\ fill = Filled(p, todo[p], orders', sale)
                    /\ Report(p, IF fill > 0 /\ sale = "ok" THEN "sold" ELSE "naked", 0)
      BY <2>1
  <2>4. Report(p, "sold", 0)
      BY <1>5, <2>2, <2>3
  <2> QED
      BY <1>0, <2>4, Reported
<1>12. CASE MakerWaits(p) \/ MakerRests(p) \/ Compare(p)
    BY <1>12 DEF MakerWaits, MakerRests, Compare, Routes
<1> QED
    BY <1>6, <1>7, <1>8, <1>9, <1>10, <1>11, <1>12 DEF TurnOf

\* A turn leaves the sells of the other positions alone.
LEMMA OthersKept ==
    ASSUME SellsOK, NEW p \in Positions, NEW ids, NEW answer, Asks(p, ids, answer),
           Sends(p, ids, answer), NEW x \in orders, x.pos # p
    PROVE  x \in orders'
<1>1. x.id \notin ids
  <2>1. ASSUME x.id \in ids PROVE FALSE
    <3>1. PICK v \in view : v.pos = p /\ v.id = x.id
        BY <2>1 DEF Asks, IdsOf, SellsOf
    <3>2. v \in Sells /\ x \in Sells
        BY DEF Sells
    <3> QED
        BY <3>1, <3>2 DEF SellsOK
  <2> QED
      BY <2>1
<1>2. x \in After(ids, answer)
    BY <1>1 DEF After
<1> QED
    BY <1>2 DEF Sends, Rests

LEMMA ServedStays ==
    ASSUME TradesOK, TradesGrow, BasisIn, UNCHANGED <<basis, moved, quote>>,
           NEW q \in Positions, Served(q), row'[q] = row[q], SellsOf(q, orders) \subseteq orders'
    PROVE  Served(q)'
<1> SUFFICES ASSUME ~(basis[q] < Len(trades'[q])) PROVE Served(q)'
    BY DEF Served
<1>1. basis[q] \in 0..Len(trades[q]) /\ Len(trades[q]) \in Nat
    BY LenProperties DEF BasisIn, TradesOK
<1>2. trades'[q] \in Seq(Trade)
  <2>1. trades[q] \in Seq(Trade) /\ Adds(trades[q], trades'[q])
      BY DEF TradesOK, TradesGrow
  <2> QED
      BY <2>1, AppendProperties DEF Adds
<1>3. basis[q] >= Len(trades'[q])
    BY <1>1, <1>2, LenProperties
<1>4. trades'[q] = trades[q]
    BY <1>1, <1>3, GrownLots
<1>5. Held(q)' = Held(q)
    BY <1>4 DEF Held, Lots
<1>6. SellsOf(q, orders) # {} => SellsOf(q, orders)' # {}
    BY DEF SellsOf
<1> QED
    BY <1>4, <1>5, <1>6 DEF Served

\* What a step that reads nothing leaves true.
LEMMA GrownCalm ==
    ASSUME TradesOK, TradesGrow, BasisIn, UNCHANGED <<basis, moved, cost, quote, book>>
    PROVE  BasisIn' /\ (CostsRead => CostsRead') /\ (BooksRead => BooksRead')
<1>1. ASSUME NEW p \in Positions
      PROVE  basis'[p] \in 0..Len(trades'[p]) /\ (basis[p] < Len(trades[p]) => basis'[p] < Len(trades'[p]))
    BY GrownLots DEF BasisIn
<1> QED
    BY <1>1 DEF BasisIn, CostsRead, BooksRead

LEMMA TurnCalmInv ==
    ASSUME OneInv, TypeInv, CalmInv, NEW p \in Positions, TurnOf(p)
    PROVE  CalmInv'
<1>0. /\ SellsOK /\ TradesOK /\ BeganOK /\ BasisIn /\ Looks(p) /\ Deals(p)
      /\ faults \in Nat /\ moves \in Nat
    BY TurnOfTurns, TurnOfTypes DEF OneInv, TypeInv, WorldOK, CalmInv, BeganOK, TurnOK
<1>1. /\ pc = "each" /\ pc' = "each" /\ p \in DOMAIN todo /\ todo' = Without(todo, p)
      /\ UNCHANGED <<template, book, view, cost, quote, dumped, basis, moved, began, moves>>
    BY <1>0 DEF Looks
<1>2. PICK ids, answer : Asks(p, ids, answer) /\ Sends(p, ids, answer)
    BY <1>0, TurnOfTurns DEF Turn
<1>3. TradesGrow
    BY <1>0, DealsGrow
<1>4. faults' \in Nat /\ faults' >= faults /\ moves' \in Nat /\ moves' >= moves
    BY <1>0, <1>1, TurnFaults
<1>5. BeganOK' /\ (Calm' => Calm /\ faults' = faults)
    BY <1>0, <1>1, <1>4, CalmBefore
<1>6. \A q \in Positions \ {p} : row'[q] = row[q]
    BY <1>2 DEF Asks
<1>7. DumpedSold'
  <2>1. dumped \subseteq Positions
      BY DEF TypeInv, ReadsOK
  <2> QED
      BY <1>1, <1>6, <2>1 DEF CalmInv, DumpedSold, Without
<1>8. BasisIn' /\ (CostsRead => CostsRead') /\ (BooksRead => BooksRead')
    BY <1>0, <1>1, <1>3, GrownCalm
<1>9. SizesRead'
  <2>1. ASSUME NEW q \in DOMAIN todo' PROVE todo'[q] = Total(Lots(q, basis[q]))'
    <3>1. q \in DOMAIN todo /\ todo'[q] = todo[q] /\ q \in Positions
        BY <1>1 DEF Without, TypeInv, TodoOK
    <3>2. todo[q] = Total(Lots(q, basis[q]))
        BY <1>1, <3>1 DEF CalmInv, SizesRead
    <3>3. Lots(q, basis[q])' = Lots(q, basis[q])
      <4>1. basis[q] \in 0..Len(trades[q])
          BY <1>0, <3>1 DEF BasisIn
      <4>2. Replay(SubSeq(trades'[q], 1, basis[q])) = Replay(SubSeq(trades[q], 1, basis[q]))
        <5> DEFINE n == basis[q]
        <5>1. PICK m \in 0..Len(trades[q]) : m = n
            BY <4>1
        <5>2. Lots(q, m)' = Lots(q, m)
            BY <1>0, <1>3, <3>1, GrownLots
        <5> QED
            BY <5>1, <5>2 DEF Lots
      <4> QED
          BY <1>1, <4>2 DEF Lots
    <3> QED
        BY <3>1, <3>2, <3>3 DEF Total
  <2> QED
      BY <2>1 DEF SizesRead
<1>10. ASSUME Calm' PROVE CostsRead' /\ BooksRead' /\ SellsRead' /\ AllServed'
  <2>1. Calm /\ faults' = faults
      BY <1>5, <1>10
  <2>2. CostsRead /\ BooksRead /\ SellsRead /\ AllServed /\ CalmOK
      BY <1>1, <2>1 DEF CalmInv, CalmOK
  <2>3. ASSUME NEW o \in view, o.pos \in DOMAIN todo', o.id \notin cancelled'
        PROVE  StillThere(o)'
    <3>1. o.pos \in DOMAIN todo /\ o.pos # p /\ o.id \notin cancelled
        BY <1>1, <1>2, <2>3 DEF Without, Asks
    <3>2. PICK x \in orders : x.id = o.id /\ x.pos = o.pos
        BY <1>1, <2>2, <3>1 DEF SellsRead, StillThere
    <3>3. x \in orders'
        BY <1>0, <1>2, <3>1, <3>2, OthersKept
    <3> QED
        BY <3>2, <3>3 DEF StillThere
  <2>4. SellsRead'
      BY <1>1, <2>3 DEF SellsRead
  <2>5. ASSUME ~template.router, NEW q \in Positions, q \notin DOMAIN todo' PROVE Served(q)'
    <3>1. CASE q = p
        BY <1>3, <2>1, <2>2, <2>5, <3>1, TurnServes
    <3>2. CASE q # p
      <4>1. q \notin DOMAIN todo
          BY <1>1, <2>5, <3>2 DEF Without
      <4>2. Served(q)
          BY <1>1, <2>2, <2>5, <4>1 DEF AllServed
      <4>3. SellsOf(q, orders) \subseteq orders'
          BY <1>0, <1>2, <3>2, OthersKept DEF SellsOf
      <4> QED
          BY <1>0, <1>1, <1>3, <1>6, <3>2, <4>2, <4>3, ServedStays
    <3> QED
        BY <3>1, <3>2
  <2>6. AllServed'
      BY <1>1, <2>5 DEF AllServed
  <2> QED
      BY <1>8, <2>2, <2>4, <2>6
<1>11. CalmOK'
    BY <1>10 DEF CalmOK
<1> QED
    BY <1>5, <1>7, <1>8, <1>9, <1>11 DEF CalmInv

\* What a liquidation asks for and gets.
LEMMA LiquidateAsks ==
    ASSUME SellsOK, faults \in Nat, NEW p \in Positions, Liquidate(p)
    PROVE  /\ faults' \in Nat /\ faults' >= faults
           /\ dumped' = dumped \/ (dumped' = dumped \union {p} /\ row'[p].is = "sold")
           /\ \A q \in Positions \ {p} : row'[q] = row[q]
           /\ cancelled \subseteq cancelled'
           /\ faults' = faults =>
                  \A o \in orders : o \in orders' \/ o.id \in cancelled'
<1>1. pc = "liquidate" /\ DOMAIN row = Positions
    BY DEF Liquidate, SellsOK
<1>2. CASE UNCHANGED <<orders, trades, cash, owed, est, dumped, cancelled, row, pulled, deaf, faults>>
    BY <1>2
<1>3. CASE BestBid(quote[p]) # 0
  <2>1. PICK cancel \in CancelAnswers, sale \in SaleAnswers :
          /\ Faults(<<cancel, sale>>)
          /\ \E fill : /\ MarketDump(p, cancel, sale, fill)
                       /\ IF fill > 0 /\ sale = "ok"
                          THEN dumped' = dumped \union {p}
                          ELSE UNCHANGED dumped
      BY <1>3 DEF Liquidate
  <2>2. PICK fill : /\ MarketDump(p, cancel, sale, fill)
                    /\ IF fill > 0 /\ sale = "ok"
                       THEN dumped' = dumped \union {p}
                       ELSE UNCHANGED dumped
      BY <2>1
  <2> DEFINE ids == IdsOf(OwnSells(p))
  <2>3. /\ cancelled' = IF cancel = "error" THEN cancelled ELSE cancelled \union ids
        /\ orders' = After(ids, cancel)
        /\ Report(p, IF fill > 0 /\ sale = "ok" THEN "sold" ELSE "unsold", 0)
      BY <2>2 DEF MarketDump
  <2> HIDE DEF ids
  <2>4. /\ faults' \in Nat /\ faults' >= faults
        /\ faults' = faults => cancel \in {"done", "ok"}
      BY <2>1, PairFaults
  <2>5. ASSUME cancel \in {"done", "ok"}, NEW o \in orders PROVE o \in orders' \/ o.id \in cancelled'
      BY <2>3, <2>5 DEF After, CancelAnswers
  <2>6. dumped' = dumped \/ (dumped' = dumped \union {p} /\ row'[p].is = "sold")
      BY <1>1, <2>2, <2>3 DEF Report
  <2>7. \A q \in Positions \ {p} : row'[q] = row[q]
      BY <1>1, <2>3 DEF Report
  <2> QED
      BY <2>3, <2>4, <2>5, <2>6, <2>7
<1> QED
    BY <1>2, <1>3 DEF Liquidate

LEMMA LiquidateCalmInv ==
    ASSUME OneInv, TypeInv, CalmInv, NEW p \in Positions, Liquidate(p)
    PROVE  CalmInv'
<1>0. /\ SellsOK /\ TradesOK /\ BeganOK /\ BasisIn /\ Deals(p) /\ faults \in Nat /\ moves \in Nat
      /\ dumped \subseteq Positions
    BY LiquidateDeals DEF OneInv, TypeInv, WorldOK, ReadsOK, CalmInv, BeganOK
<1>1. /\ pc = "liquidate" /\ pc' = "liquidate" /\ p \in DOMAIN todo /\ todo' = Without(todo, p)
      /\ UNCHANGED <<template, book, snapshot, cost, quote, basis, moved, began, moves>>
    BY DEF Liquidate, Foremost
<1>2. /\ faults' \in Nat /\ faults' >= faults
      /\ dumped' = dumped \/ (dumped' = dumped \union {p} /\ row'[p].is = "sold")
      /\ \A q \in Positions \ {p} : row'[q] = row[q]
      /\ cancelled \subseteq cancelled'
      /\ faults' = faults => \A o \in orders : o \in orders' \/ o.id \in cancelled'
    BY <1>0, LiquidateAsks
<1>3. TradesGrow
    BY <1>0, DealsGrow
<1>4. BeganOK' /\ (Calm' => Calm /\ faults' = faults)
    BY <1>0, <1>1, <1>2, CalmBefore
<1>5. DumpedSold'
    BY <1>0, <1>1, <1>2 DEF CalmInv, DumpedSold, Without
<1>6. BasisIn' /\ (CostsRead => CostsRead') /\ (BooksRead => BooksRead')
    BY <1>0, <1>1, <1>3, GrownCalm
<1>7. SizesRead'
    BY <1>1 DEF SizesRead
<1>8. ASSUME Calm' PROVE CostsRead' /\ BooksRead' /\ SellsRead' /\ AllServed'
  <2>1. Calm /\ faults' = faults
      BY <1>4, <1>8
  <2>2. CostsRead /\ BooksRead /\ SellsRead
      BY <1>1, <2>1 DEF CalmInv, CalmOK
  <2>3. ASSUME NEW o \in OpenOrders', o.id \notin cancelled' PROVE StillThere(o)'
    <3>1. CASE snapshot = Unread
        BY <1>1, <2>3, <3>1 DEF OpenOrders, StillThere
    <3>2. CASE snapshot # Unread
      <4>1. o \in OpenOrders /\ o.id \notin cancelled
          BY <1>1, <1>2, <2>3, <3>2 DEF OpenOrders
      <4>2. PICK x \in orders : x.id = o.id /\ x.pos = o.pos
          BY <1>1, <2>2, <4>1 DEF SellsRead, StillThere
      <4>3. x \in orders'
          BY <1>2, <2>1, <2>3, <4>2
      <4> QED
          BY <4>2, <4>3 DEF StillThere
    <3> QED
        BY <3>1, <3>2
  <2>4. SellsRead' /\ AllServed'
      BY <1>1, <2>3 DEF SellsRead, AllServed
  <2> QED
      BY <1>6, <2>2, <2>4
<1>9. CalmOK'
    BY <1>8 DEF CalmOK
<1> QED
    BY <1>4, <1>5, <1>6, <1>7, <1>9 DEF CalmInv

\* What a prefetch in which nothing fails leaves unknown, the Data API shows late.
LEMMA CalmPrefetch ==
    ASSUME TypeInv, NEW sizes, NEW unpriced, NEW blind, Prefetch(sizes, unpriced, blind),
           unpriced = {}, NEW p \in Positions,
           p \in DOMAIN sizes => sizes[p] = ShownSize(p) /\ ShownSize(p) > 0,
           cost[p] = Unread, cost'[p] = Unknown
    PROVE  shown[p] < Len(trades[p])
<1>1. cost'[p] = IF p \notin DOMAIN sizes \/ cost[p] # Unread THEN cost[p]
                 ELSE IF p \in unpriced THEN Unknown ELSE Rebuilt(p, sizes[p])
    BY DEF Prefetch
<1>2. p \in DOMAIN sizes /\ Rebuilt(p, sizes[p]) = Unknown
    BY <1>1, UnreadAssumption
<1>3. shown[p] \in 0..Len(trades[p]) /\ Len(trades[p]) \in Nat /\ TradesOK
    BY LenProperties DEF TypeInv, WorldOK, TradesOK
<1> SUFFICES ASSUME shown[p] = Len(trades[p]) PROVE FALSE
    BY <1>3
<1> DEFINE lots == Lots(p, Len(trades[p]))
           total == Total(lots)
<1>4. lots \in Seq(Lot) /\ total \in Nat
    BY <1>3, LotsTyped
<1>5. total = sizes[p] /\ total > 0
    BY <1>2 DEF ShownSize
<1>6. CostOf(lots).size = total /\ CostOf(lots) \in Cost
    BY <1>4, <1>5, CostTyped
<1>7. Agree(total, sizes[p])
  <2> HIDE DEF total
  <2>1. Most(total - sizes[p], sizes[p] - total) = 0
      BY <1>4, <1>5 DEF Most
  <2>2. Most(100, sizes[p]) \in Nat
      BY <1>4, <1>5 DEF Most
  <2>3. 100 * 0 <= Most(100, sizes[p])
      BY <2>2
  <2> QED
      BY <2>1, <2>3 DEF Agree
<1>8. Rebuilt(p, sizes[p]) = CostOf(lots)
    BY <1>5, <1>6, <1>7 DEF Rebuilt
<1> QED
    BY <1>2, <1>6, <1>8, CostIsKnown

LEMMA PrefetchFaults ==
    ASSUME TypeInv, NEW sizes, DOMAIN sizes \subseteq Positions, NEW unpriced \in SUBSET DOMAIN sizes,
           NEW blind \in SUBSET DOMAIN sizes
    PROVE  /\ Cardinality(unpriced) \in Nat /\ Cardinality(blind) \in Nat
           /\ Cardinality(unpriced) = 0 => unpriced = {}
<1>1. IsFiniteSet(unpriced) /\ IsFiniteSet(blind)
  <2>1. unpriced \subseteq Positions /\ blind \subseteq Positions /\ IsFiniteSet(Positions)
      BY ConstantsAssumption
  <2> QED
      BY <2>1, FS_Subset
<1> QED
    BY <1>1, FS_CardinalityType, FS_EmptySet

LEMMA LowReadsCalmInv ==
    ASSUME TypeInv, PriceInv, CalmInv, LowReads
    PROVE  CalmInv'
<1>1. PICK sizes, unpriced, blind :
          /\ unpriced \subseteq DOMAIN sizes /\ blind \subseteq DOMAIN sizes
          /\ sizes = ShownPositions /\ Prefetch(sizes, unpriced, blind)
          /\ faults' = faults + Cardinality(unpriced) + Cardinality(blind)
    BY DEF LowReads
<1>2. /\ pc = "low" /\ pc' = "liquidate" /\ basis' = shown
      /\ UNCHANGED <<template, world, cooling, managed, snapshot, resolving, dumped, cancelled,
                   row, pulled, deaf, moved, began, moves>>
    BY DEF LowReads
<1>3. UNCHANGED <<trades, book, orders>> /\ TradesOK /\ BeganOK /\ faults \in Nat /\ moves \in Nat
    BY <1>2 DEF world, TypeInv, WorldOK, CalmInv, BeganOK
<1>4. DOMAIN sizes \subseteq Positions /\ \A p \in DOMAIN sizes : sizes[p] = ShownSize(p) /\ ShownSize(p) > 0
    BY <1>1 DEF ShownPositions
<1>5. faults' \in Nat /\ faults' >= faults /\ (faults' = faults => unpriced = {})
  <2>1. /\ Cardinality(unpriced) \in Nat /\ Cardinality(blind) \in Nat
        /\ Cardinality(unpriced) = 0 => unpriced = {}
      BY <1>1, <1>4, PrefetchFaults
  <2> QED
      BY <1>1, <1>3, <2>1
<1>6. BeganOK' /\ (Calm' => Calm /\ faults' = faults)
    BY <1>2, <1>3, <1>5, CalmBefore
<1>7. DumpedSold' /\ SizesRead'
    BY <1>2 DEF CalmInv, DumpedSold, SizesRead
<1>8. BasisIn'
    BY <1>2, <1>3 DEF BasisIn, TradesOK
<1>9. ASSUME Calm' PROVE CostsRead' /\ BooksRead' /\ SellsRead' /\ AllServed'
  <2>1. Calm /\ unpriced = {}
      BY <1>5, <1>6, <1>9
  <2>2. BooksRead /\ SellsRead
      BY <1>2, <2>1 DEF CalmInv, CalmOK
  <2>3. \A p \in Positions : cost[p] = Unread
      BY <1>2 DEF PriceInv, BeforeExit
  <2>4. ASSUME NEW p \in Positions, cost'[p] = Unknown PROVE basis'[p] < Len(trades'[p])
      BY <1>1, <1>2, <1>3, <1>4, <2>1, <2>3, <2>4, CalmPrefetch
  <2>5. ASSUME NEW p \in Positions PROVE quote'[p] \in {Unread, Unknown, book'[p]}
      BY <1>1, <1>3, <2>2 DEF Prefetch, BooksRead
  <2>6. SellsRead'
      BY <1>2, <1>3, <2>2 DEF SellsRead, OpenOrders, StillThere
  <2> QED
      BY <1>2, <2>4, <2>5, <2>6 DEF CostsRead, BooksRead, AllServed
<1>10. CalmOK'
    BY <1>9 DEF CalmOK
<1> QED
    BY <1>6, <1>7, <1>8, <1>10 DEF CalmInv

LEMMA ExitReadsCalmInv ==
    ASSUME TypeInv, PriceInv, CalmInv, ExitReads
    PROVE  CalmInv'
<1>1. PICK sizes, unpriced, blind, gamma :
          /\ unpriced \subseteq DOMAIN sizes /\ blind \subseteq DOMAIN sizes
          /\ sizes = [p \in DOMAIN ShownPositions \ dumped |-> ShownSize(p)]
          /\ Prefetch(sizes, unpriced, blind)
          /\ faults' = faults + Cardinality(unpriced) + Cardinality(blind) + Fails(<<gamma>>)
          /\ todo' = sizes
    BY DEF ExitReads
<1>2. /\ pc = "exit" /\ pc' = "each" /\ basis' = shown /\ view' = OpenOrders
      /\ moved' = {p \in Positions : cost[p] # Unread /\ shown[p] # basis[p]}
      /\ UNCHANGED <<template, world, snapshot, dumped, cancelled, row, began, moves>>
    BY DEF ExitReads
<1>3. /\ UNCHANGED <<trades, book, orders>> /\ TradesOK /\ BeganOK /\ faults \in Nat /\ moves \in Nat
      /\ moved = {} /\ dumped \subseteq Positions
    BY <1>2 DEF world, TypeInv, WorldOK, ReadsOK, CalmInv, BeganOK, PriceInv, BeforeExit
<1>4. /\ DOMAIN sizes \subseteq Positions
      /\ \A p \in DOMAIN sizes : sizes[p] = ShownSize(p) /\ ShownSize(p) > 0
      /\ \A p \in Positions : p \in DOMAIN sizes \/ p \in dumped \/ ~(ShownSize(p) > 0)
      /\ DOMAIN sizes \intersect dumped = {}
    BY <1>1 DEF ShownPositions
<1>5. faults' \in Nat /\ faults' >= faults /\ (faults' = faults => unpriced = {})
  <2>1. /\ Cardinality(unpriced) \in Nat /\ Cardinality(blind) \in Nat
        /\ Cardinality(unpriced) = 0 => unpriced = {}
      BY <1>1, <1>4, PrefetchFaults
  <2>2. Fails(<<gamma>>) \in Nat
    <3> DEFINE answers == <<gamma>>
               S == {i \in DOMAIN answers : answers[i] \notin {"done", "ok"}}
    <3>1. PICK n \in Nat : n = 1
        OBVIOUS
    <3>2. S \subseteq 1..n /\ Fails(<<gamma>>) = Cardinality(S)
        BY <3>1 DEF Fails
    <3> HIDE DEF S
    <3>3. IsFiniteSet(1..n)
        BY FS_Interval
    <3>4. IsFiniteSet(S)
        BY <3>2, <3>3, FS_Subset
    <3> QED
        BY <3>2, <3>4, FS_CardinalityType
  <2>3. faults' = faults + Cardinality(unpriced) + Cardinality(blind) + Fails(<<gamma>>)
      BY <1>1
  <2> QED
      BY <1>3, <2>1, <2>2, <2>3
<1>6. BeganOK' /\ (Calm' => Calm /\ faults' = faults)
    BY <1>2, <1>3, <1>5, CalmBefore
<1>7. DumpedSold'
    BY <1>1, <1>2, <1>4 DEF CalmInv, DumpedSold
<1>8. BasisIn'
    BY <1>2, <1>3 DEF BasisIn, TradesOK
<1>9. SizesRead'
  <2>1. \A p \in DOMAIN sizes : sizes[p] = Total(Lots(p, basis[p]))'
      BY <1>2, <1>3, <1>4 DEF ShownSize, Lots, Total
  <2> QED
      BY <1>1, <2>1 DEF SizesRead
<1>10. ASSUME Calm' PROVE CostsRead' /\ BooksRead' /\ SellsRead' /\ AllServed'
  <2>1. Calm /\ unpriced = {}
      BY <1>5, <1>6, <1>10
  <2>2. CostsRead /\ BooksRead /\ SellsRead
      BY <1>2, <2>1 DEF CalmInv, CalmOK
  <2>3. ASSUME NEW p \in Positions, cost'[p] = Unknown
        PROVE  basis'[p] < Len(trades'[p]) \/ p \in moved'
    <3>1. CASE cost[p] = Unread
        BY <1>1, <1>2, <1>3, <1>4, <2>1, <2>3, <3>1, CalmPrefetch
    <3>2. CASE cost[p] # Unread
      <4>1. cost[p] = Unknown
          BY <1>1, <2>3, <3>2 DEF Prefetch
      <4>2. basis[p] < Len(trades[p])
          BY <1>3, <2>2, <4>1 DEF CostsRead
      <4> QED
          BY <1>2, <1>3, <3>2, <4>2
    <3> QED
        BY <3>1, <3>2
  <2>4. ASSUME NEW p \in Positions PROVE quote'[p] \in {Unread, Unknown, book'[p]}
      BY <1>1, <1>3, <2>2 DEF Prefetch, BooksRead
  <2>5. SellsRead'
      BY <1>2, <1>3, <2>2 DEF SellsRead, StillThere
  <2>6. ASSUME NEW p \in Positions, p \notin DOMAIN todo' PROVE Served(p)'
    <3>1. CASE p \in dumped
      <4>1. row'[p].is = "sold"
          BY <1>2, <3>1 DEF CalmInv, DumpedSold
      <4> QED
          BY <4>1 DEF Served
    <3>2. CASE p \notin dumped
      <4>1. ~(ShownSize(p) > 0)
          BY <1>1, <1>4, <2>6, <3>2
      <4>2. shown[p] \in 0..Len(trades[p]) /\ Len(trades[p]) \in Nat /\ ShownSize(p) \in Nat
          BY <1>3, LenProperties, ShownTyped DEF TradesOK
      <4>3. CASE shown[p] < Len(trades[p])
          BY <1>2, <1>3, <4>3 DEF Served
      <4>4. CASE shown[p] = Len(trades[p])
        <5>1. Held(p) = 0
            BY <4>1, <4>2, <4>4 DEF ShownSize, Held
        <5>2. Held(p)' = Held(p)
            BY <1>3 DEF Held, Lots
        <5> QED
            BY <5>1, <5>2 DEF Served
      <4> QED
          BY <4>2, <4>3, <4>4
    <3> QED
        BY <3>1, <3>2
  <2> QED
      BY <2>3, <2>4, <2>5, <2>6 DEF CostsRead, BooksRead, AllServed
<1>11. CalmOK'
    BY <1>10 DEF CalmOK
<1> QED
    BY <1>6, <1>7, <1>8, <1>9, <1>11 DEF CalmInv

LEMMA BeginTickCalmInv ==
    ASSUME TypeInv, TypeInv', CalmInv, BeginTick
    PROVE  CalmInv'
<1>1. PICK answer \in {"ok", "rejected"} :
          /\ Faults(<<answer>>) /\ snapshot' = IF answer = "ok" THEN orders ELSE Unread
    BY DEF BeginTick
<1>2. /\ pc' = "low" /\ dumped' = {} /\ cancelled' = {} /\ basis' = shown'
      /\ began' = <<moves, faults>> /\ UNCHANGED <<orders, moves>>
      /\ cost' = [p \in Positions |-> Unread] /\ quote' = [p \in Positions |-> Unread]
    BY DEF BeginTick
<1>3. faults \in Nat /\ moves \in Nat
    BY DEF CalmInv, BeganOK
<1>4. faults' \in Nat /\ faults' >= faults
    BY <1>1, <1>3, OneFault
<1>5. moves \in 0..moves' /\ faults \in 0..faults'
    BY <1>2, <1>3, <1>4
<1>6. BeganOK'
    BY <1>2, <1>3, <1>4, <1>5 DEF BeganOK
<1>7. DumpedSold' /\ SizesRead'
    BY <1>2 DEF DumpedSold, SizesRead
<1>8. BasisIn'
    BY <1>2 DEF BasisIn, TypeInv, WorldOK, TradesOK
<1>9. CostsRead' /\ BooksRead' /\ AllServed'
    BY <1>2, UnreadAssumption DEF CostsRead, BooksRead, AllServed
<1>10. SellsRead'
    BY <1>1, <1>2 DEF SellsRead, OpenOrders, StillThere
<1> QED
    BY <1>6, <1>7, <1>8, <1>9, <1>10 DEF CalmInv, CalmOK

LEMMA EdgesCalmInv ==
    ASSUME TypeInv, CalmInv, LowSkipped \/ LowDone \/ TickEnds \/ ExitFails
    PROVE  CalmInv'
<1>0. faults \in Nat /\ moves \in Nat /\ BeganOK
    BY DEF CalmInv, BeganOK
<1>1. UNCHANGED <<basis, began, moves, trades, book, orders, dumped, template>>
    BY DEF LowSkipped, LowDone, TickEnds, ExitFails, Ends, world, reads, history
<1>2. faults' \in Nat /\ faults' >= faults
  <2>1. CASE LowDone \/ TickEnds
    <3>1. faults' = faults
        BY <2>1 DEF LowDone, TickEnds
    <3> QED
        BY <1>0, <3>1
  <2>2. CASE LowSkipped
    <3>1. PICK answer \in {"ok", "rejected"} : Faults(<<answer>>)
        BY <2>2 DEF LowSkipped
    <3> QED
        BY <1>0, <3>1, OneFault
  <2>3. CASE ExitFails
    <3>1. Faults(<<"rejected">>)
        BY <2>3 DEF ExitFails
    <3> QED
        BY <1>0, <3>1, OneFault
  <2> QED
      BY <2>1, <2>2, <2>3
<1>3. BeganOK' /\ (Calm' => Calm)
    BY <1>0, <1>1, <1>2, CalmBefore
<1>4. BasisIn'
    BY <1>1 DEF CalmInv, BasisIn
<1>5. CASE LowSkipped \/ LowDone
  <2>1. /\ pc \in {"low", "liquidate"} /\ pc' = "exit"
        /\ UNCHANGED <<snapshot, cancelled, cost, quote, moved, row>>
      BY <1>5 DEF LowSkipped, LowDone, reads, history
  <2>2. DumpedSold' /\ SizesRead'
      BY <1>1, <2>1 DEF CalmInv, DumpedSold, SizesRead
  <2>3. CalmOK'
      BY <1>1, <1>3, <2>1 DEF CalmInv, CalmOK, CostsRead, BooksRead, SellsRead, AllServed,
                              OpenOrders, StillThere
  <2> QED
      BY <1>3, <1>4, <2>2, <2>3 DEF CalmInv
<1>6. CASE TickEnds \/ ExitFails
  <2>1. pc' = "idle"
      BY <1>6 DEF TickEnds, ExitFails, Ends
  <2> QED
      BY <1>3, <1>4, <2>1 DEF CalmInv, DumpedSold, SizesRead, CalmOK
<1> QED
    BY <1>5, <1>6

LEMMA WorldCalmInv == ASSUME TypeInv, CalmInv, World PROVE CalmInv'
<1>0. faults \in Nat /\ moves \in Nat /\ BeganOK /\ TradesOK /\ BasisIn /\ TradesGrow
    BY WorldGrows DEF CalmInv, BeganOK, TypeInv, WorldOK
<1>1. UNCHANGED <<template, pc, snapshot, view, todo, cost, quote, dumped, cancelled, row, basis, moved,
                  began, faults>>
  <2>1. Alone
      BY DEF World, BuyTrades, BookMoves, Proposal, CatchUp, SellTrades, Settle, CoolsDown
  <2> QED
      BY <2>1 DEF Alone, reads, history
<1>2. moves' = moves + 1 \/ (moves' = moves /\ UNCHANGED <<trades, book, orders>>)
    BY DEF World, BuyTrades, BookMoves, Proposal, CatchUp, SellTrades, Settle, CoolsDown, Moves, world
<1>3. BeganOK' /\ (Calm' => Calm /\ moves' = moves)
  <2>1. moves' \in Nat /\ moves' >= moves
      BY <1>0, <1>2
  <2> QED
      BY <1>0, <1>1, <2>1, CalmBefore
<1>4. DumpedSold'
    BY <1>1 DEF CalmInv, DumpedSold
<1>5. ASSUME NEW p \in Positions
      PROVE  basis'[p] \in 0..Len(trades'[p]) /\ Total(Lots(p, basis[p]))' = Total(Lots(p, basis[p]))
  <2>1. PICK n \in 0..Len(trades[p]) : n = basis[p]
      BY <1>0 DEF BasisIn
  <2>2. n \in 0..Len(trades'[p]) /\ Lots(p, n)' = Lots(p, n)
      BY <1>0, GrownLots
  <2>3. Replay(SubSeq(trades'[p], 1, n)) = Replay(SubSeq(trades[p], 1, n))
      BY <2>2 DEF Lots
  <2>4. Lots(p, basis[p])' = Lots(p, basis[p])
      BY <1>1, <2>1, <2>3 DEF Lots
  <2> QED
      BY <1>1, <2>1, <2>2, <2>4 DEF Total
<1>6. BasisIn'
    BY <1>5 DEF BasisIn
<1>7. SizesRead'
  <2>1. DOMAIN todo \subseteq Positions
      BY DEF TypeInv, TodoOK
  <2> QED
      BY <1>1, <1>5, <2>1 DEF CalmInv, SizesRead
<1>8. ASSUME Calm', pc # "idle" PROVE CostsRead' /\ BooksRead' /\ SellsRead' /\ AllServed'
  <2>1. Calm /\ UNCHANGED <<trades, book, orders>>
      BY <1>0, <1>2, <1>3, <1>8
  <2>2. CostsRead /\ BooksRead /\ SellsRead /\ AllServed
      BY <1>8, <2>1 DEF CalmInv, CalmOK
  <2>3. CostsRead' /\ BooksRead'
      BY <1>1, <2>1, <2>2 DEF CostsRead, BooksRead
  <2>4. SellsRead'
      BY <1>1, <2>1, <2>2 DEF SellsRead, OpenOrders, StillThere
  <2>5. AllServed'
      BY <1>1, <2>1, <2>2 DEF AllServed, Served, Held, Lots, SellsOf
  <2> QED
      BY <2>3, <2>4, <2>5
<1>9. CalmOK'
    BY <1>1, <1>8 DEF CalmOK
<1> QED
    BY <1>3, <1>4, <1>6, <1>7, <1>9 DEF CalmInv

LEMMA NextCalmInv ==
    ASSUME OneInv, TypeInv, TypeInv', PriceInv, CalmInv, [Next]_vars
    PROVE  CalmInv'
<1>1. CASE Exit
  <2>1. PICK p \in Positions : TurnOf(p)
      BY <1>1 DEF Exit, TurnOf
  <2> QED
      BY <2>1, TurnCalmInv
<1>2. CASE UNCHANGED vars
  <2>1. UNCHANGED <<template, pc, snapshot, view, todo, cost, quote, dumped, cancelled, row, basis,
                    moved, began, moves, faults, trades, book, orders>>
      BY <1>2 DEF vars, world, reads, history
  <2>2. BeganOK' /\ DumpedSold' /\ BasisIn'
      BY <2>1 DEF CalmInv, BeganOK, DumpedSold, BasisIn
  <2>3. SizesRead'
      BY <2>1 DEF CalmInv, SizesRead, Lots, Total
  <2>4. CalmOK'
      BY <2>1 DEF CalmInv, CalmOK, Calm, CostsRead, BooksRead, SellsRead, AllServed, OpenOrders,
                  StillThere, Served, Held, Lots, SellsOf
  <2> QED
      BY <2>2, <2>3, <2>4 DEF CalmInv
<1>3. ASSUME NEW p \in Positions, Liquidate(p) PROVE CalmInv'
    BY <1>3, LiquidateCalmInv
<1> QED
    BY <1>1, <1>2, <1>3, BeginTickCalmInv, LowReadsCalmInv, ExitReadsCalmInv, EdgesCalmInv,
       WorldCalmInv DEF Next, Tick

\* A tick in which nothing fails or moves leaves no position behind that could be
\* sold: what check_exit reads is then what there is, so each position it looks at
\* is sold, keeps its sell or gets one, unless nobody bids for it; the others were
\* just liquidated or are gone (monitor.py:794-958).
THEOREM CalmTicksCover == Spec => []CalmTickCovers
<1>1. Init => CalmInv
  <2> SUFFICES ASSUME Init PROVE CalmInv
      OBVIOUS
  <2>1. /\ pc = "idle" /\ basis = shown /\ began = <<0, 0>> /\ moves = 0 /\ faults = 0
      BY DEF Init
  <2>2. BasisIn
      BY <2>1, InitTypeInv DEF BasisIn, TypeInv, WorldOK, TradesOK
  <2>3. BeganOK
    <3>1. 0 \in 0..moves /\ 0 \in 0..faults
        BY <2>1
    <3> QED
        BY <2>1, <3>1 DEF BeganOK
  <2> QED
      BY <2>1, <2>2, <2>3 DEF CalmInv, DumpedSold, SizesRead, CalmOK
<1>2. OneInv /\ TypeInv /\ TypeInv' /\ PriceInv /\ CalmInv /\ [Next]_vars => CalmInv'
    BY NextCalmInv
<1>3. CalmInv => CalmTickCovers
  <2> SUFFICES ASSUME CalmInv, pc = "each", todo = <<>>, began = <<moves, faults>>,
                      ~template.router, NEW p \in Positions
               PROVE  Served(p)
      BY DEF CalmTickCovers, Served
  <2>1. AllServed /\ p \notin DOMAIN todo
      BY DEF CalmInv, CalmOK, Calm
  <2> QED
      BY <2>1 DEF AllServed
<1> QED
    BY <1>1, <1>2, <1>3, PriceInvInvariant, PTL DEF Spec

=============================================================================
