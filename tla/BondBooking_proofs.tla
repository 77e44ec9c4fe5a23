------------------------- MODULE BondBooking_proofs -------------------------
(***************************************************************************)
(* Theorems about BondBooking, for any bonds, books, sectors and trades:   *)
(* first with the two feeds racing, then with one of them at a time.       *)
(***************************************************************************)
EXTENDS BondBooking, SetSums

USE DEF FirstListener

(* What the values the services exchange look like.                        *)

\* A trade names a bond and a book that exist, and moves a whole quantity.
LEMMA TradeType ==
    ASSUME NEW tr \in Trades
    PROVE  /\ tr.bond \in Bonds
           /\ tr.book \in Books
           /\ Signed(tr) \in Int
           /\ bond2bucketmap[tr.bond] \in Sectors
<1>1. CASE tr \in TradeRows
  BY <1>1, TradeAssumption, UniverseAssumption DEF Signed, Sides
<1>2. CASE \E order \in ExecutionOrders, book \in Books : tr = TradeOf(order, book)
  BY <1>2, TradeAssumption, UniverseAssumption DEF Signed, TradeOf
<1> QED
  BY <1>1, <1>2 DEF Trades

\* GetCurrentBook stays inside the list of books.
LEMMA CurrentBookType ==
    ASSUME NEW i \in 0 .. Len(trading_books) - 1
    PROVE  /\ trading_books[i + 1] \in Books
           /\ NextBook(i) \in 0 .. Len(trading_books) - 1
<1>1. Len(trading_books) \in Nat /\ Len(trading_books) > 0
  BY BooksAssumption
<1>2. trading_books[i + 1] \in Books
  BY <1>1, BooksAssumption DEF Books
<1> QED
  BY <1>1, <1>2 DEF NextBook

\* Adding a trade to a position gives a position.
LEMMA UpdatePositionType ==
    ASSUME NEW pos \in Positions, NEW tr \in Trades
    PROVE  UpdatePosition(pos, tr) \in Positions
BY TradeType DEF UpdatePosition, Positions

LEMMA NewPositionType == NewPosition \in Positions
BY DEF NewPosition, Positions

\* However a position is torn between two, what is read is a position.
LEMMA TornType ==
    ASSUME NEW old \in Positions, NEW new \in Positions, NEW torn \in Torn(old, new)
    PROVE  torn \in Positions
BY DEF Torn, Positions

-----------------------------------------------------------------------------
(* Type correctness.                                                       *)

\* What AddTrade copies out of the map is a position, torn or not.
LEMMA CopiesType ==
    ASSUME TypeOK, NEW t \in Threads, pc[t] = "addTrade",
           NEW found \in Find(t, positionMap, Bond(t)),
           NEW current \in IF found THEN Copies(t) ELSE {NewPosition}
    PROVE  current \in Positions
<1>1. CASE ~found
  BY <1>1, NewPositionType
<1>2. CASE found
  <2>1. Bond(t) \in DOMAIN positionMap
    BY <1>2 DEF Find, ExistingData
  <2>2. positionMap[Bond(t)] \in Positions
    BY <2>1 DEF TypeOK
  <2>3. CASE current = positionMap[Bond(t)]
    BY <2>2, <2>3
  <2>4. CASE \E u \in Threads : current \in Torn(positionMap[Bond(t)], position[u])
    <3>1. PICK u \in Threads : current \in Torn(positionMap[Bond(t)], position[u])
      BY <2>4
    <3>2. position[u] \in Positions
      BY DEF TypeOK
    <3> QED
      BY <2>2, <3>1, <3>2, TornType
  <2> QED
    BY <1>2, <2>3, <2>4 DEF Copies, GetData
<1> QED
  BY <1>1, <1>2 DEF Find

LEMMA ReturnType ==
    ASSUME TypeOK, NEW ts \in SUBSET Threads, Return(ts)
    PROVE  /\ trade' \in [Threads -> Trades \cup {NoTrade}]
           /\ \A t \in Threads \ ts : trade'[t] = trade[t] /\ position'[t] = position[t]
           /\ position' \in [Threads -> Positions]
           /\ cursor' \in [Threads -> Nat \ {0}]
           /\ DOMAIN bucket' = Threads
           /\ \A t \in Threads : DOMAIN bucket'[t] \subseteq Bonds
BY NewPositionType DEF Return, TypeOK, EmptyMap

LEMMA TypeInit == Init => TypeOK
<1> SUFFICES ASSUME Init PROVE TypeOK
  OBVIOUS
<1>1. 0 \in 0 .. Len(trading_books) - 1
  BY BooksAssumption
<1>2. DOMAIN EmptyMap = {}
  BY DEF EmptyMap
<1>3. /\ pc \in [Threads -> Labels] /\ \A t \in Threads : pc[t] \in Idle
      /\ position \in [Threads -> Positions]
      /\ cursor \in [Threads -> Nat \ {0}]
      /\ DOMAIN bucket = Threads /\ \A t \in Threads : DOMAIN bucket[t] \subseteq Bonds
  BY <1>2, NewPositionType DEF Init, Labels, Idle
<1> QED
  BY <1>1, <1>2, <1>3 DEF Init, TypeOK

LEMMA StepType ==
    ASSUME TypeOK, NEW t \in Threads, Step(t)
    PROVE  TypeOK'
<1>1. CASE ReadTrade(t)
  <2>1. PICK row \in rows : rows' = rows \ {row} /\ HandOver(t, row)
    BY <1>1 DEF ReadTrade
  <2>2. row \in Trades
    BY <2>1 DEF TypeOK, Trades
  <2> QED
    BY <1>1, <2>1, <2>2 DEF ReadTrade, HandOver, Goto, TypeOK, services, files,
       Labels, InsertSteps, Idle
<1>2. CASE BookExecution(t)
  <2>1. PICK order \in orders :
          /\ orders' = orders \ {order}
          /\ HandOver(t, TradeOf(order, trading_books[current_book_idx + 1]))
    BY <1>2 DEF BookExecution
  <2>2. TradeOf(order, trading_books[current_book_idx + 1]) \in Trades
    BY <2>1, CurrentBookType DEF TypeOK, Trades
  <2>3. current_book_idx' \in 0 .. Len(trading_books) - 1
    BY <1>2, CurrentBookType DEF BookExecution, TypeOK
  <2> QED
    BY <1>2, <2>1, <2>2, <2>3 DEF BookExecution, HandOver, Goto, TypeOK, services, files,
       Labels, InsertSteps, Idle
<1>3. CASE StopReading(t)
  BY <1>3 DEF StopReading, Goto, TypeOK, feeds, services, files, locals, Labels, Idle
<1>4. CASE BookTrade(t)
  <2>1. trade[t] \in Trades
    BY <1>4 DEF BookTrade, TypeOK, Idle
  <2>2. /\ DOMAIN tradeMap' \subseteq {tr.id : tr \in Trades}
        /\ \A id \in DOMAIN tradeMap' : tradeMap'[id] \in Trades
    BY <1>4, <2>1 DEF BookTrade, TypeOK, AddData
  <2> QED
    BY <1>4, <2>1, <2>2 DEF BookTrade, Goto, TypeOK, feeds, files, locals, Labels, Idle
<1>5. CASE AddTrade(t)
  <2>1. trade[t] \in Trades
    BY <1>5 DEF AddTrade, TypeOK, Idle
  <2>2. PICK found \in Find(t, positionMap, Bond(t)) :
          \E current \in IF found THEN Copies(t) ELSE {NewPosition} :
             position' = [position EXCEPT ![t] = UpdatePosition(current, trade[t])]
    BY <1>5 DEF AddTrade
  <2>3. PICK current \in IF found THEN Copies(t) ELSE {NewPosition} :
          position' = [position EXCEPT ![t] = UpdatePosition(current, trade[t])]
    BY <2>2
  <2>4. UpdatePosition(current, trade[t]) \in Positions
    BY <1>5, <2>1, CopiesType, UpdatePositionType DEF AddTrade
  <2> QED
    BY <1>5, <2>1, <2>3, <2>4 DEF AddTrade, Goto, TypeOK, feeds, services, files, Labels, Idle
<1>6. CASE OnPosition(t)
  BY <1>6 DEF OnPosition, Goto, TypeOK, feeds, services, files, locals, Labels, Idle, InsertSteps
<1>7. CASE InsertPosition(t)
  <2>1. Bond(t) \in Bonds /\ position[t] \in Positions
    BY <1>7, TradeType DEF InsertPosition, TypeOK, Idle, Bond
  <2>2. /\ DOMAIN positionMap' \subseteq Bonds
        /\ \A bond \in DOMAIN positionMap' : positionMap'[bond] \in Positions
    BY <1>7, <2>1 DEF InsertPosition, TypeOK, AddData
  <2> QED
    BY <1>7, <2>2 DEF InsertPosition, Goto, TypeOK, feeds, files, locals, Labels, Idle, FileSteps
<1>8. CASE UpdateExistingPosition(t)
  <2>1. Bond(t) \in Bonds /\ position[t] \in Positions
    BY <1>8, TradeType DEF UpdateExistingPosition, TypeOK, Idle, Bond
  <2>2. /\ DOMAIN positionMap' \subseteq Bonds
        /\ \A bond \in DOMAIN positionMap' : positionMap'[bond] \in Positions
    BY <1>8, <2>1 DEF UpdateExistingPosition, TypeOK, UpdateData
  <2> QED
    BY <1>8, <2>2 DEF UpdateExistingPosition, Goto, TypeOK, feeds, files, locals, Labels, Idle,
       FileSteps
<1>9. CASE PersistPosition(t)
  <2>1. Bond(t) \in Bonds /\ position[t] \in Positions
    BY <1>9, TradeType DEF PersistPosition, TypeOK, Idle, Bond
  <2> QED
    BY <1>9, <2>1 DEF PersistPosition, PositionLine, Goto, TypeOK, feeds, services, locals,
       Labels, Idle
<1>10. CASE OnRisk(t)
  BY <1>10 DEF OnRisk, Goto, TypeOK, feeds, services, files, locals, Labels, Idle, InsertSteps
<1>11. CASE InsertRisk(t)
  <2>1. DOMAIN riskMap' \subseteq Bonds
    BY <1>11, TradeType DEF InsertRisk, TypeOK, Idle, Bond, AddData
  <2> QED
    BY <1>11, <2>1 DEF InsertRisk, Goto, TypeOK, feeds, files, locals, Labels, Idle, FileSteps
<1>12. CASE UpdateRisk(t)
  <2>1. DOMAIN riskMap' \subseteq Bonds
    BY <1>12 DEF UpdateRisk, TypeOK, UpdateData
  <2> QED
    BY <1>12, <2>1 DEF UpdateRisk, Goto, TypeOK, feeds, files, locals, Labels, Idle, FileSteps
<1>13. CASE PersistRisk(t)
  <2>1. DOMAIN riskFile' \subseteq Bonds \cup Sectors
    BY <1>13, TradeType DEF PersistRisk, WriteRisk, TypeOK, Idle, Bond, WriteLine
  <2> QED
    BY <1>13, <2>1 DEF PersistRisk, Goto, TypeOK, feeds, services, locals, Labels, Idle
<1>14. CASE GetBucketedRisk(t)
  <2>1. CASE MoreProducts(t)
    <3>1. Sector(t) \in Sectors
      BY <1>14, TradeType DEF GetBucketedRisk, TypeOK, Idle, Bond, Sector
    <3>2. Product(t) \in Bonds
      BY <2>1, <3>1, UniverseAssumption DEF Product, MoreProducts, TypeOK
    <3>3. PICK found \in Find(t, riskMap, Product(t)) :
            bucket' = IF found
                      THEN [bucket EXCEPT ![t] = WriteLine(@, Product(t), riskMap[Product(t)])]
                      ELSE bucket
      BY <1>14, <2>1 DEF GetBucketedRisk
    <3>4. DOMAIN WriteLine(bucket[t], Product(t), riskMap[Product(t)]) \subseteq Bonds
      BY <3>2 DEF TypeOK, WriteLine
    <3>5. DOMAIN bucket' = Threads /\ \A u \in Threads : DOMAIN bucket'[u] \subseteq Bonds
      BY <3>3, <3>4 DEF TypeOK
    <3>6. cursor' \in [Threads -> Nat \ {0}]
      BY <1>14, <2>1 DEF GetBucketedRisk, TypeOK
    <3>7. UNCHANGED <<feeds, services, files, pc, trade, position, crashed>>
      BY <1>14, <2>1 DEF GetBucketedRisk
    <3> QED
      BY <3>5, <3>6, <3>7 DEF TypeOK, feeds, services, files
  <2>2. CASE ~(MoreProducts(t))
    BY <1>14, <2>2 DEF GetBucketedRisk, Goto, TypeOK, feeds, services, files, Labels, Idle
  <2> QED
    BY <2>1, <2>2
<1>15. CASE OnMessageBucket(t)
  BY <1>15 DEF OnMessageBucket, Goto, TypeOK, feeds, services, files, locals, Labels, Idle, FileSteps
<1>16. CASE PersistBucket(t)
  <2>1. DOMAIN riskFile' \subseteq Bonds \cup Sectors
    BY <1>16, TradeType DEF PersistBucket, WriteRisk, TypeOK, Idle, Bond, Sector, WriteLine
  <2>2. /\ trade' \in [Threads -> Trades \cup {NoTrade}]
        /\ \A u \in Threads \ {t} : trade'[u] = trade[u]
        /\ position' \in [Threads -> Positions]
        /\ cursor' \in [Threads -> Nat \ {0}]
        /\ DOMAIN bucket' = Threads /\ \A u \in Threads : DOMAIN bucket'[u] \subseteq Bonds
    <3>1. Return({t}) /\ {t} \in SUBSET Threads
      BY <1>16 DEF PersistBucket
    <3> QED
      BY <3>1, ReturnType
  <2> QED
    BY <1>16, <2>1, <2>2 DEF PersistBucket, Goto, TypeOK, feeds, services, Labels, Idle
<1> QED
  BY <1>1, <1>2, <1>3, <1>4, <1>5, <1>6, <1>7, <1>8, <1>9, <1>10, <1>11, <1>12, <1>13, <1>14,
     <1>15, <1>16 DEF Step, Chain

LEMMA RaceType ==
    ASSUME TypeOK, NEW t \in Threads, NEW u \in Threads, Race(t, u)
    PROVE  TypeOK'
<1>1. CASE LostInsert(t, u)
  <2>1. pc[u] \notin Idle
    BY <1>1 DEF LostInsert, InsertSteps, Idle
  <2>2. trade[u] \in Trades /\ Bond(u) \in Bonds /\ position[u] \in Positions
    BY <2>1, TradeType DEF TypeOK, Bond
  <2>3. pc' \in [Threads -> Labels]
    BY <1>1 DEF LostInsert, Both, TypeOK, Labels, FileSteps
  <2>4. \A v \in Threads : pc'[v] \notin Idle => pc[v] \notin Idle
    BY <1>1, <2>1 DEF LostInsert, Both, TypeOK
  <2>5. UNCHANGED <<feeds, files, locals, crashed>>
    BY <1>1 DEF LostInsert
  <2>6. CASE pc[t] = "bookTrade"
    BY <1>1, <2>2, <2>3, <2>4, <2>5, <2>6
       DEF LostInsert, TypeOK, AddData, feeds, files, locals
  <2>7. CASE pc[t] = "insertPosition"
    BY <1>1, <2>2, <2>3, <2>4, <2>5, <2>7
       DEF LostInsert, TypeOK, AddData, feeds, files, locals
  <2>8. CASE pc[t] = "insertRisk"
    BY <1>1, <2>2, <2>3, <2>4, <2>5, <2>8
       DEF LostInsert, TypeOK, AddData, feeds, files, locals
  <2> QED
    BY <1>1, <2>6, <2>7, <2>8 DEF LostInsert, InsertSteps
<1>2. CASE MixedUpdate(t, u)
  <2>1. PICK mixed \in Torn(position[t], position[u]) :
          positionMap' = UpdateData(positionMap, Bond(t), mixed)
    BY <1>2 DEF MixedUpdate
  <2>2. mixed \in Positions
    BY <2>1, TornType DEF TypeOK
  <2>3. /\ DOMAIN positionMap' \subseteq Bonds
        /\ \A bond \in DOMAIN positionMap' : positionMap'[bond] \in Positions
    BY <2>1, <2>2 DEF TypeOK, UpdateData
  <2>4. /\ pc' \in [Threads -> Labels]
        /\ \A v \in Threads : pc'[v] \notin Idle => pc[v] \notin Idle
    BY <1>2 DEF MixedUpdate, Both, TypeOK, Labels, FileSteps, Idle
  <2> QED
    BY <1>2, <2>3, <2>4 DEF MixedUpdate, TypeOK, feeds, files, locals
<1>3. CASE GarbledLine(t, u)
  <2>1. pc[t] \in FileSteps /\ pc[u] \in FileSteps
    BY <1>3 DEF GarbledLine
  <2>2. /\ trade[t] \in Trades /\ Bond(t) \in Bonds /\ Sector(t) \in Sectors
        /\ trade[u] \in Trades /\ Bond(u) \in Bonds /\ Sector(u) \in Sectors
        /\ position[t] \in Positions /\ position[u] \in Positions
    BY <2>1, TradeType DEF TypeOK, Bond, Sector, FileSteps, Idle
  <2>3. \A line \in positionsFile' : line.bond \in Bonds /\ line.position \in Positions
    <3>1. positionsFile' = positionsFile
          \/ \E whole \in BOOLEAN :
                positionsFile' = positionsFile \cup {[PositionLine(t) EXCEPT !.whole = FALSE],
                                                     [PositionLine(u) EXCEPT !.whole = whole]}
      BY <1>3 DEF GarbledLine
    <3>2. ASSUME NEW v \in {t, u}, NEW whole \in BOOLEAN
          PROVE  /\ [PositionLine(v) EXCEPT !.whole = whole].bond = Bond(v)
                 /\ [PositionLine(v) EXCEPT !.whole = whole].position = position[v]
      BY DEF PositionLine
    <3> QED
      BY <2>2, <3>1, <3>2 DEF TypeOK
  <2>4. DOMAIN riskFile' \subseteq Bonds \cup Sectors
    BY <1>3, <2>2 DEF GarbledLine, WriteRisk, WriteLine, TypeOK
  <2> DEFINE done == {v \in {t, u} : pc[v] = "persistBucket"}
  <2>5. done \in SUBSET Threads /\ Return(done)
    BY <1>3 DEF GarbledLine
  <2>6. /\ trade' \in [Threads -> Trades \cup {NoTrade}]
        /\ \A v \in Threads \ done : trade'[v] = trade[v]
        /\ position' \in [Threads -> Positions]
        /\ cursor' \in [Threads -> Nat \ {0}]
        /\ DOMAIN bucket' = Threads /\ \A v \in Threads : DOMAIN bucket'[v] \subseteq Bonds
    BY <2>5, ReturnType
  <2>7. pc' = [pc EXCEPT ![t] = AfterLine(pc[t]), ![u] = AfterLine(pc[u])]
    BY <1>3 DEF GarbledLine, Both
  <2>8. pc' \in [Threads -> Labels]
    BY <2>1, <2>7 DEF TypeOK, AfterLine, FileSteps, Labels, Idle
  <2>9. \A v \in Threads : pc'[v] \notin Idle => pc[v] \notin Idle /\ v \notin done
    BY <2>1, <2>7 DEF TypeOK, AfterLine, FileSteps, Idle
  <2>10. UNCHANGED <<feeds, services, crashed>>
    BY <1>3 DEF GarbledLine
  <2> QED
    BY <2>3, <2>4, <2>6, <2>8, <2>9, <2>10 DEF TypeOK, feeds, services
<1>4. CASE Crash(t, u)
  BY <1>4 DEF Crash, TypeOK, feeds, services, files, locals
<1> QED
  BY <1>1, <1>2, <1>3, <1>4 DEF Race

LEMMA StutterType ==
    ASSUME TypeOK, UNCHANGED vars
    PROVE  TypeOK'
BY DEF TypeOK, vars, feeds, services, files, locals

\* Every variable keeps its type, whatever the threads do to each other.
THEOREM TypeCorrect == Spec => []TypeOK
<1>1. Init => TypeOK
  BY TypeInit
<1>2. TypeOK /\ [Next]_vars => TypeOK'
  BY StepType, RaceType, StutterType DEF Next, Terminating
<1> QED
  BY <1>1, <1>2, PTL DEF Spec

-----------------------------------------------------------------------------
(* Write-ahead of positions.txt: the inductive invariant is that every     *)
(* thread past its position line is accounted for, and so is the risk map. *)

WriteAheadInv == TypeOK /\ PersistedBeforeRisk /\ RiskFromPersistedPosition

\* Lines are only added, and a step of t leaves the other thread's chain alone.
LEMMA StepFrame ==
    ASSUME TypeOK, NEW t \in Threads, Step(t)
    PROVE  /\ positionsFile \subseteq positionsFile'
           /\ \A v \in Threads \ {t} :
                 pc'[v] = pc[v] /\ trade'[v] = trade[v] /\ position'[v] = position[v]
<1>1. positionsFile \subseteq positionsFile'
  BY DEF Step, Chain, ReadTrade, BookExecution, HandOver, StopReading, BookTrade, AddTrade,
     OnPosition, InsertPosition, UpdateExistingPosition, PersistPosition, OnRisk, InsertRisk,
     UpdateRisk, PersistRisk, GetBucketedRisk, OnMessageBucket, PersistBucket, files
<1>2. \A v \in Threads \ {t} : pc'[v] = pc[v]
  BY DEF TypeOK, Step, Chain, ReadTrade, BookExecution, HandOver, StopReading, BookTrade,
     AddTrade, OnPosition, InsertPosition, UpdateExistingPosition, PersistPosition, OnRisk,
     InsertRisk, UpdateRisk, PersistRisk, GetBucketedRisk, OnMessageBucket, PersistBucket, Goto
<1>3. \A v \in Threads \ {t} : trade'[v] = trade[v] /\ position'[v] = position[v]
  BY DEF TypeOK, Step, Chain, ReadTrade, BookExecution, HandOver, StopReading, BookTrade,
     AddTrade, OnPosition, InsertPosition, UpdateExistingPosition, PersistPosition, OnRisk,
     InsertRisk, UpdateRisk, PersistRisk, GetBucketedRisk, OnMessageBucket, PersistBucket,
     Return, locals
<1> QED
  BY <1>1, <1>2, <1>3

\* Past the position line, a chain keeps its trade and its position until it returns.
LEMMA ChainFrame ==
    ASSUME TypeOK, NEW t \in Threads, Step(t), pc'[t] \in AfterPositionLine
    PROVE  \/ PersistPosition(t)
           \/ /\ pc[t] \in AfterPositionLine
              /\ trade'[t] = trade[t] /\ position'[t] = position[t]
BY DEF TypeOK, AfterPositionLine, Step, Chain, ReadTrade, BookExecution, HandOver, StopReading,
   BookTrade, AddTrade, OnPosition, InsertPosition, UpdateExistingPosition, PersistPosition,
   OnRisk, InsertRisk, UpdateRisk, PersistRisk, GetBucketedRisk, OnMessageBucket,
   PersistBucket, Goto, locals

LEMMA WriteAheadStep ==
    ASSUME WriteAheadInv, NEW t \in Threads, Step(t)
    PROVE  PersistedBeforeRisk' /\ RiskFromPersistedPosition'
<1> USE DEF WriteAheadInv
<1>1. ASSUME NEW v \in Threads, pc'[v] \in AfterPositionLine
      PROVE  Accounted(Bond(v), RiskQuantity(v))'
  <2>1. CASE v = t /\ PersistPosition(t)
    <3>1. /\ PositionLine(t) \in positionsFile'
          /\ trade' = trade /\ position' = position
      BY <2>1 DEF PersistPosition, locals
    <3> QED
      BY <2>1, <3>1 DEF Accounted, PositionLine, RiskQuantity, Bond
  <2>2. CASE pc[v] \in AfterPositionLine /\ trade'[v] = trade[v] /\ position'[v] = position[v]
    BY <2>2, StepFrame DEF PersistedBeforeRisk, Accounted, RiskQuantity, Bond
  <2> QED
    BY <1>1, <2>1, <2>2, StepFrame, ChainFrame
<1>2. ASSUME NEW bond \in DOMAIN riskMap'
      PROVE  Accounted(bond, riskMap[bond])'
  <2>1. CASE bond \in DOMAIN riskMap /\ riskMap'[bond] = riskMap[bond]
    BY <2>1, StepFrame DEF RiskFromPersistedPosition, Accounted
  <2>2. CASE InsertRisk(t) \/ UpdateRisk(t)
    <3>1. Accounted(Bond(t), RiskQuantity(t))
      BY <2>2 DEF InsertRisk, UpdateRisk, PersistedBeforeRisk, AfterPositionLine
    <3>2. \/ bond \in DOMAIN riskMap /\ riskMap'[bond] = riskMap[bond]
          \/ bond = Bond(t) /\ riskMap'[bond] = RiskQuantity(t)
      BY <1>2, <2>2 DEF InsertRisk, UpdateRisk, AddData, UpdateData
    <3> QED
      BY <2>1, <3>1, <3>2, StepFrame DEF Accounted
  <2>3. riskMap' = riskMap \/ InsertRisk(t) \/ UpdateRisk(t)
    BY DEF Step, Chain, ReadTrade, BookExecution, HandOver, StopReading, BookTrade, AddTrade,
       OnPosition, InsertPosition, UpdateExistingPosition, PersistPosition, OnRisk,
       PersistRisk, GetBucketedRisk, OnMessageBucket, PersistBucket, services
  <2> QED
    BY <1>2, <2>1, <2>2, <2>3
<1> QED
  BY <1>1, <1>2 DEF PersistedBeforeRisk, RiskFromPersistedPosition

LEMMA WriteAheadRace ==
    ASSUME WriteAheadInv, NEW t \in Threads, NEW u \in Threads, Race(t, u)
    PROVE  PersistedBeforeRisk' /\ RiskFromPersistedPosition'
<1> USE DEF WriteAheadInv
<1>1. CASE LostInsert(t, u)
  <2>1. UNCHANGED <<positionsFile, trade, position>>
    BY <1>1 DEF LostInsert, files, locals
  <2>2. \A v \in Threads : pc'[v] \in AfterPositionLine => pc[v] \in AfterPositionLine
    BY <1>1 DEF LostInsert, DataRace, Both, TypeOK, AfterPositionLine
  <2>3. PersistedBeforeRisk'
    BY <2>1, <2>2 DEF PersistedBeforeRisk, Accounted, RiskQuantity, Bond
  <2>4. CASE riskMap' = riskMap
    BY <2>1, <2>3, <2>4 DEF RiskFromPersistedPosition, Accounted
  <2>5. CASE pc[t] = "insertRisk" /\ riskMap' = AddData(riskMap, Bond(u), RiskQuantity(u))
    <3>1. Accounted(Bond(u), RiskQuantity(u))
      BY <1>1, <2>5 DEF LostInsert, PersistedBeforeRisk, AfterPositionLine
    <3> QED
      BY <2>1, <2>3, <2>5, <3>1 DEF RiskFromPersistedPosition, Accounted, AddData
  <2> QED
    BY <1>1, <2>3, <2>4, <2>5 DEF LostInsert
<1>2. CASE MixedUpdate(t, u)
  <2>1. UNCHANGED <<riskMap, positionsFile, trade, position>>
    BY <1>2 DEF MixedUpdate, files, locals
  <2>2. \A v \in Threads : pc'[v] \in AfterPositionLine => pc[v] \in AfterPositionLine
    BY <1>2 DEF MixedUpdate, Both, TypeOK, AfterPositionLine
  <2> QED
    BY <2>1, <2>2 DEF PersistedBeforeRisk, RiskFromPersistedPosition, Accounted, RiskQuantity, Bond
<1>3. CASE GarbledLine(t, u)
  <2>1. riskMap' = riskMap /\ positionsFile \subseteq positionsFile'
    BY <1>3 DEF GarbledLine, services
  <2>2. pc' = [pc EXCEPT ![t] = AfterLine(pc[t]), ![u] = AfterLine(pc[u])]
    BY <1>3 DEF GarbledLine, Both
  <2>3. {pc[t], pc[u]} \subseteq FileSteps /\ t # u
    BY <1>3 DEF GarbledLine, DataRace
  <2>4. ASSUME NEW v \in Threads, pc'[v] \in AfterPositionLine
        PROVE  Accounted(Bond(v), RiskQuantity(v))'
    <3>1. v \in {t, u} => pc[v] # "persistBucket"
      <4>1. CASE v \in {t, u} /\ pc[v] = "persistBucket"
        BY <2>2, <2>3, <2>4, <4>1 DEF TypeOK, AfterLine, AfterPositionLine
      <4> QED
        BY <4>1
    <3>2. trade'[v] = trade[v] /\ position'[v] = position[v]
      BY <1>3, <3>1 DEF GarbledLine, Return
    <3>3. CASE pc[v] \in AfterPositionLine
      BY <2>1, <3>2, <3>3 DEF PersistedBeforeRisk, Accounted, RiskQuantity, Bond
    <3>4. CASE pc[v] = "persistPosition" /\ v \in {t, u}
      <4>1. pc[t] = "persistPosition"
        BY <1>3, <3>4, <2>3 DEF GarbledLine, DataRace, Object, FileSteps
      <4>2. PICK whole \in BOOLEAN :
              positionsFile' = positionsFile \cup {[PositionLine(t) EXCEPT !.whole = FALSE],
                                                   [PositionLine(u) EXCEPT !.whole = whole]}
        BY <1>3, <4>1 DEF GarbledLine
      <4>3. \A w \in {t, u}, flag \in BOOLEAN :
              /\ [PositionLine(w) EXCEPT !.whole = flag].bond = Bond(w)
              /\ [PositionLine(w) EXCEPT !.whole = flag].position = position[w]
        BY DEF PositionLine
      <4>4. \E line \in positionsFile' : line.bond = Bond(v) /\ line.position = position[v]
        BY <3>4, <4>2, <4>3
      <4> QED
        BY <3>2, <4>4 DEF Accounted, RiskQuantity, Bond
    <3>5. CASE v \notin {t, u}
      BY <2>2, <2>4, <3>3, <3>5 DEF TypeOK
    <3>6. pc[v] \in FileSteps => pc[v] \in AfterPositionLine \/ pc[v] = "persistPosition"
      BY DEF FileSteps, AfterPositionLine
    <3> QED
      BY <2>3, <3>3, <3>4, <3>5, <3>6
  <2>5. RiskFromPersistedPosition'
    BY <2>1 DEF RiskFromPersistedPosition, Accounted
  <2> QED
    BY <2>4, <2>5 DEF PersistedBeforeRisk
<1>4. CASE Crash(t, u)
  BY <1>4 DEF Crash, services, files, locals, PersistedBeforeRisk, RiskFromPersistedPosition,
     Accounted, RiskQuantity, Bond
<1> QED
  BY <1>1, <1>2, <1>3, <1>4 DEF Race

\* Whatever the two threads do to each other, positions.txt is ahead of the risk
\* service: AddPosition only ever sees, and the risk map only ever holds, aggregates
\* of positions already handed to the file (BondPositionService::OnMessage calls the
\* historical listener before the risk listener).
THEOREM WriteAhead == Spec => [](PersistedBeforeRisk /\ RiskFromPersistedPosition)
<1>1. Init => WriteAheadInv
  <2> SUFFICES ASSUME Init PROVE WriteAheadInv
    OBVIOUS
  <2>1. PersistedBeforeRisk
    BY DEF Init, PersistedBeforeRisk, AfterPositionLine
  <2>2. RiskFromPersistedPosition
    BY DEF Init, RiskFromPersistedPosition, EmptyMap
  <2> QED
    BY <2>1, <2>2, TypeInit DEF WriteAheadInv
<1>2. WriteAheadInv /\ [Next]_vars => WriteAheadInv'
  <2> SUFFICES ASSUME WriteAheadInv, [Next]_vars PROVE WriteAheadInv'
    OBVIOUS
  <2>1. TypeOK'
    BY StepType, RaceType, StutterType DEF Next, Terminating, WriteAheadInv
  <2>2. CASE UNCHANGED vars
    BY <2>2 DEF vars, services, files, locals, WriteAheadInv, PersistedBeforeRisk,
       RiskFromPersistedPosition, Accounted, RiskQuantity, Bond, TypeOK, feeds
  <2> QED
    BY <2>1, <2>2, WriteAheadStep, WriteAheadRace DEF Next, Terminating, WriteAheadInv
<1>3. WriteAheadInv => PersistedBeforeRisk /\ RiskFromPersistedPosition
  BY DEF WriteAheadInv
<1> QED
  BY <1>1, <1>2, <1>3, PTL DEF Spec
-----------------------------------------------------------------------------
(* SignedSum adds up the trades of a set, in whatever order the fold takes *)
(* them.                                                                   *)

Weights == [tr \in Trades |-> Signed(tr)]

LEMMA SignedSumIs ==
    ASSUME NEW S \in SUBSET Trades, IsFiniteSet(S)
    PROVE  SignedSum(S) = WeightOf(Weights, S)
<1> DEFINE Adds(h) == h = [s \in SUBSET S |->
                              IF s = {} THEN 0 ELSE Signed(Taken(s)) + h[s \ {Taken(s)}]]
<1>1. SignedSum(S) = (CHOOSE h : Adds(h))[S]
  BY DEF SignedSum, MapThenSumSet, MapThenFoldSet, Taken
<1>2. ASSUME NEW h PROVE Adds(h) <=> Sums(h, Weights, S)
  <2>1. \A s \in SUBSET S : s # {} => Weights[Taken(s)] = Signed(Taken(s))
    BY TakenIn DEF Weights
  <2>2. [s \in SUBSET S |-> IF s = {} THEN 0 ELSE Signed(Taken(s)) + h[s \ {Taken(s)}]]
            = [s \in SUBSET S |-> IF s = {} THEN 0 ELSE Weights[Taken(s)] + h[s \ {Taken(s)}]]
    BY <2>1
  <2> QED
    BY <2>2 DEF Sums
<1>3. Sums(SumsOf(Weights, S), Weights, S)
  BY SumsExist
<1>4. Sums(CHOOSE h : Adds(h), Weights, S)
  <2>1. Adds(SumsOf(Weights, S))
    BY <1>2, <1>3
  <2> HIDE DEF Adds
  <2>2. Adds(CHOOSE h : Adds(h))
    BY <2>1
  <2> QED
    BY <1>2, <2>2
<1> HIDE DEF Adds
<1>5. (CHOOSE h : Adds(h))[S] = SumsOf(Weights, S)[S]
  BY <1>3, <1>4, SumsAgree
<1> QED
  BY <1>1, <1>5 DEF WeightOf

LEMMA SumOfNone == SignedSum({}) = 0
BY SignedSumIs, WeightOfNone, FS_EmptySet

LEMMA SumWith ==
    ASSUME NEW S \in SUBSET Trades, IsFiniteSet(S), NEW tr \in Trades, tr \notin S
    PROVE  SignedSum(S \cup {tr}) = SignedSum(S) + Signed(tr) /\ SignedSum(S) \in Int
<1>1. IsFiniteSet(S \cup {tr}) /\ S \cup {tr} \in SUBSET Trades
  BY FS_AddElement
<1>2. \A y \in S \cup {tr} : Weights[y] = Signed(y) /\ Signed(y) \in Int
  BY TradeType DEF Weights
<1>3. /\ WeightOf(Weights, S \cup {tr}) = WeightOf(Weights, S) + Weights[tr]
      /\ WeightOf(Weights, S) \in Int
  BY <1>2, WeightWith
<1> QED
  BY <1>1, <1>2, <1>3, SignedSumIs
-----------------------------------------------------------------------------
(* No trade is counted twice.                                              *)

\* A row and an order are told apart by their sides, and so by their ids.
LEMMA DistinctIds ==
    ASSUME NEW a \in TradeRows \cup ExecutionOrders, NEW b \in TradeRows \cup ExecutionOrders
    PROVE  /\ a # b => a.id # b.id
           /\ a \in TradeRows => a \notin ExecutionOrders
<1>1. a \in TradeRows => a.side \in {"BUY", "SELL"}
  BY TradeAssumption DEF Sides
<1>2. a \in ExecutionOrders => a.side \in {"BID", "OFFER"}
  BY TradeAssumption
<1>3. a # b => a.id # b.id
  BY TradeAssumption
<1> QED
  BY <1>1, <1>2, <1>3

LEMMA HandedOverOnceStep ==
    ASSUME TypeOK, HandedOverOnce, NEW t \in Threads, Step(t)
    PROVE  HandedOverOnce'
<1>1. CASE ReadTrade(t)
  <2>1. PICK row \in rows : rows' = rows \ {row} /\ HandOver(t, row)
    BY <1>1 DEF ReadTrade
  <2>2. \A next \in (rows \ {row}) \cup orders : row.id # next.id
    BY DistinctIds DEF TypeOK
  <2> QED
    BY <1>1, <2>1, <2>2 DEF ReadTrade, HandOver, Goto, HandedOverOnce, TypeOK
<1>2. CASE BookExecution(t)
  <2>1. PICK order \in orders :
          /\ orders' = orders \ {order}
          /\ HandOver(t, TradeOf(order, trading_books[current_book_idx + 1]))
    BY <1>2 DEF BookExecution
  <2>2. \A next \in rows \cup (orders \ {order}) : order.id # next.id
    BY DistinctIds DEF TypeOK
  <2>3. TradeOf(order, trading_books[current_book_idx + 1]).id = order.id
    BY DEF TradeOf
  <2> QED
    BY <1>2, <2>1, <2>2, <2>3 DEF BookExecution, HandOver, Goto, HandedOverOnce, TypeOK
<1>3. CASE StopReading(t) \/ Chain(t)
  <2>1. UNCHANGED feeds
    BY <1>3 DEF StopReading, Chain, BookTrade, AddTrade, OnPosition, InsertPosition,
       UpdateExistingPosition, PersistPosition, OnRisk, InsertRisk, UpdateRisk, PersistRisk,
       GetBucketedRisk, OnMessageBucket, PersistBucket
  <2>2. pc'[t] \notin Idle => pc[t] \notin Idle /\ trade'[t] = trade[t]
    BY <1>3 DEF StopReading, Chain, BookTrade, AddTrade, OnPosition, InsertPosition,
       UpdateExistingPosition, PersistPosition, OnRisk, InsertRisk, UpdateRisk, PersistRisk,
       GetBucketedRisk, OnMessageBucket, PersistBucket, Goto, TypeOK, Idle, locals
  <2> QED
    BY <2>1, <2>2, StepFrame DEF HandedOverOnce, feeds
<1> QED
  BY <1>1, <1>2, <1>3 DEF Step

\* The trades of a bond and book that AddTrade has added to a copy of a position.
NotAdded == {"bookTrade", "addTrade"}

Added(bond, book) == BookedIn(bond, book) \ {trade[t] : t \in {u \in Threads : pc[u] \in NotAdded}}

IsSumOf(quantity, trades) == \E counted \in SUBSET trades : quantity = SignedSum(counted)

AddsUp(pos, bond) == \A book \in Books : IsSumOf(pos[book], Added(bond, book))

\* While a thread holds a copy, it and the map both add up trades that were added.
Holding == {"onPosition", "insertPosition", "updatePosition"}

PositionsAddUp ==
    /\ \A bond \in DOMAIN positionMap : AddsUp(positionMap[bond], bond)
    /\ \A t \in Threads : pc[t] \in Holding => AddsUp(position[t], Bond(t))

\* No two threads are about the same trade.
OwnTrade ==
    \A t, u \in Threads : pc[t] \notin Idle /\ pc[u] \notin Idle /\ trade[t] = trade[u] => t = u

CountInv == TypeOK /\ HandedOverOnce /\ OwnTrade /\ IsFiniteSet(booked) /\ PositionsAddUp

\* What a thread is about, step by step.
LEMMA TradeFrame ==
    ASSUME TypeOK, HandedOverOnce, NEW t \in Threads, Step(t)
    PROVE  /\ \/ booked' = booked
              \/ /\ booked' = booked \cup {trade'[t]} /\ trade'[t] \notin booked
                 /\ pc'[t] = "bookTrade"
           /\ pc'[t] \notin Idle =>
                 \/ pc[t] \notin Idle /\ trade'[t] = trade[t] /\ booked' = booked
                 \/ trade'[t] \notin booked /\ pc'[t] = "bookTrade"
           /\ pc'[t] \in NotAdded => pc[t] \in NotAdded \/ trade'[t] \notin booked
           /\ pc'[t] \in Holding =>
                 \/ AddTrade(t)
                 \/ pc[t] \in Holding /\ position'[t] = position[t]
<1>1. CASE ReadTrade(t)
  <2>1. PICK row \in rows : HandOver(t, row)
    BY <1>1 DEF ReadTrade
  <2> QED
    BY <2>1 DEF HandOver, Goto, HandedOverOnce, TypeOK, NotAdded, Holding
<1>2. CASE BookExecution(t)
  <2>1. PICK order \in orders : HandOver(t, TradeOf(order, trading_books[current_book_idx + 1]))
    BY <1>2 DEF BookExecution
  <2>2. TradeOf(order, trading_books[current_book_idx + 1]).id = order.id
    BY DEF TradeOf
  <2> QED
    BY <2>1, <2>2 DEF HandOver, Goto, HandedOverOnce, TypeOK, NotAdded, Holding
<1>3. CASE StopReading(t) \/ Chain(t)
  <2>1. booked' = booked
    BY <1>3 DEF StopReading, Chain, BookTrade, AddTrade, OnPosition, InsertPosition,
       UpdateExistingPosition, PersistPosition, OnRisk, InsertRisk, UpdateRisk, PersistRisk,
       GetBucketedRisk, OnMessageBucket, PersistBucket, feeds
  <2>2. pc'[t] \notin Idle => pc[t] \notin Idle /\ trade'[t] = trade[t]
    BY <1>3 DEF StopReading, Chain, BookTrade, AddTrade, OnPosition, InsertPosition,
       UpdateExistingPosition, PersistPosition, OnRisk, InsertRisk, UpdateRisk, PersistRisk,
       GetBucketedRisk, OnMessageBucket, PersistBucket, Goto, TypeOK, Idle, locals
  <2>3. pc'[t] \in NotAdded => pc[t] \in NotAdded
    BY <1>3 DEF StopReading, Chain, BookTrade, AddTrade, OnPosition, InsertPosition,
       UpdateExistingPosition, PersistPosition, OnRisk, InsertRisk, UpdateRisk, PersistRisk,
       GetBucketedRisk, OnMessageBucket, PersistBucket, Goto, TypeOK, NotAdded
  <2>4. pc'[t] \in Holding => AddTrade(t) \/ pc[t] \in Holding
    BY <1>3 DEF StopReading, Chain, BookTrade, OnPosition, InsertPosition,
       UpdateExistingPosition, PersistPosition, OnRisk, InsertRisk, UpdateRisk, PersistRisk,
       GetBucketedRisk, OnMessageBucket, PersistBucket, Goto, TypeOK, Holding
  <2>5. AddTrade(t) \/ PersistBucket(t) \/ position' = position
    BY <1>3 DEF StopReading, Chain, BookTrade, OnPosition, InsertPosition,
       UpdateExistingPosition, PersistPosition, OnRisk, InsertRisk, UpdateRisk, PersistRisk,
       GetBucketedRisk, OnMessageBucket, locals
  <2>6. PersistBucket(t) => pc'[t] \notin Holding
    BY DEF PersistBucket, Goto, TypeOK, Holding
  <2>7. pc'[t] \in Holding =>
           AddTrade(t) \/ (pc[t] \in Holding /\ position'[t] = position[t])
    <3> SUFFICES ASSUME pc'[t] \in Holding, ~AddTrade(t)
                 PROVE  pc[t] \in Holding /\ position'[t] = position[t]
      OBVIOUS
    <3>1. position' = position
      BY <2>5, <2>6
    <3> QED
      BY <2>4, <3>1
  <2> QED
    BY <2>1, <2>2, <2>3, <2>7
<1> QED
  BY <1>1, <1>2, <1>3 DEF Step

\* Once added, a trade stays so.
LEMMA AddedGrows ==
    ASSUME TypeOK, HandedOverOnce, NEW t \in Threads, Step(t), NEW bond, NEW book
    PROVE  Added(bond, book) \subseteq Added(bond, book)'
<1>1. booked \subseteq booked'
  BY TradeFrame
<1>2. ASSUME NEW v \in Threads, pc'[v] \in NotAdded
      PROVE  (pc[v] \in NotAdded /\ trade'[v] = trade[v]) \/ trade'[v] \notin booked
  <2>1. CASE v = t
    BY <1>2, <2>1, TradeFrame DEF NotAdded, Idle
  <2>2. CASE v # t
    BY <1>2, <2>2, StepFrame
  <2> QED
    BY <2>1, <2>2
<1> QED
  BY <1>1, <1>2 DEF Added, BookedIn

LEMMA SumOfMore ==
    ASSUME NEW quantity, NEW S, NEW T, S \subseteq T, IsSumOf(quantity, S)
    PROVE  IsSumOf(quantity, T)
BY DEF IsSumOf

LEMMA ZeroIsSum == ASSUME NEW S PROVE IsSumOf(0, S)
BY SumOfNone DEF IsSumOf

\* What AddTrade copies adds up, torn or not.
LEMMA CopyAddsUp ==
    ASSUME CountInv, NEW t \in Threads, pc[t] = "addTrade",
           NEW found \in Find(t, positionMap, Bond(t)),
           NEW current \in IF found THEN Copies(t) ELSE {NewPosition}
    PROVE  AddsUp(current, Bond(t))
<1>1. CASE ~found
  BY <1>1, ZeroIsSum DEF AddsUp, NewPosition
<1>2. CASE found
  <2>1. AddsUp(positionMap[Bond(t)], Bond(t))
    BY <1>2 DEF Find, ExistingData, CountInv, PositionsAddUp
  <2>2. CASE current = positionMap[Bond(t)]
    BY <2>1, <2>2
  <2>3. ASSUME NEW u \in Threads, DataRace(u, t), pc[u] = "updatePosition",
               current \in Torn(positionMap[Bond(t)], position[u])
        PROVE  AddsUp(current, Bond(t))
    <3>1. Bond(u) = Bond(t)
      BY <2>3 DEF DataRace, InsertSteps, FileSteps
    <3>2. AddsUp(position[u], Bond(t))
      BY <2>3, <3>1 DEF CountInv, PositionsAddUp, Holding
    <3>3. \A book \in Books :
            current[book] \in {positionMap[Bond(t)][book], position[u][book], 0}
      BY <2>3 DEF Torn
    <3> QED
      BY <2>1, <3>2, <3>3, ZeroIsSum DEF AddsUp
  <2> QED
    BY <1>2, <2>2, <2>3 DEF Copies, GetData
<1> QED
  BY <1>1, <1>2 DEF Find

\* AddTrade adds a trade that the copy does not count yet.
LEMMA AddTradeAddsUp ==
    ASSUME CountInv, NEW t \in Threads, Step(t), AddTrade(t)
    PROVE  AddsUp(position[t], Bond(t))'
<1>1. PICK found \in Find(t, positionMap, Bond(t)) :
        \E current \in IF found THEN Copies(t) ELSE {NewPosition} :
           position' = [position EXCEPT ![t] = UpdatePosition(current, trade[t])]
  BY DEF AddTrade
<1>2. PICK current \in IF found THEN Copies(t) ELSE {NewPosition} :
        position' = [position EXCEPT ![t] = UpdatePosition(current, trade[t])]
  BY <1>1
<1>3. /\ pc[t] = "addTrade" /\ pc' = [pc EXCEPT ![t] = "onPosition"]
      /\ UNCHANGED <<booked, trade>>
      /\ trade[t] \in Trades /\ trade[t] \in booked
  BY DEF AddTrade, Goto, feeds, CountInv, TypeOK, HandedOverOnce, Idle
<1>4. current \in Positions /\ AddsUp(current, Bond(t))
  BY <1>2, <1>3, CopiesType, CopyAddsUp DEF CountInv
<1>5. position'[t] = UpdatePosition(current, trade[t])
  BY <1>2 DEF CountInv, TypeOK
<1>6. trade[t] \in Added(Bond(t), trade[t].book)'
  <2>1. trade[t] \in BookedIn(Bond(t), trade[t].book)'
    BY <1>3 DEF BookedIn, Bond
  <2>2. \A v \in Threads : pc'[v] \in NotAdded => trade'[v] # trade[t]
    BY <1>3 DEF CountInv, TypeOK, OwnTrade, NotAdded, Idle
  <2> QED
    BY <2>1, <2>2 DEF Added
<1>7. ASSUME NEW book \in Books
      PROVE  IsSumOf(position[t][book], Added(Bond(t), book))'
  <2>1. Added(Bond(t), book) \subseteq Added(Bond(t), book)'
    <3>1. \A bond : Added(bond, book) \subseteq Added(bond, book)'
      BY AddedGrows DEF CountInv
    <3>2. Bond(t)' = Bond(t)
      BY <1>3 DEF Bond
    <3> QED
      BY <3>1, <3>2
  <2>2. PICK counted \in SUBSET Added(Bond(t), book) : current[book] = SignedSum(counted)
    BY <1>4 DEF AddsUp, IsSumOf
  <2>3. CASE book # trade[t].book
    <3>1. position'[t][book] = current[book]
      BY <1>4, <1>5, <2>3 DEF UpdatePosition, Positions
    <3> QED
      BY <2>1, <2>2, <3>1 DEF IsSumOf
  <2>4. CASE book = trade[t].book
    <3>1. position'[t][book] = current[book] + Signed(trade[t])
      BY <1>4, <1>5, <2>4 DEF UpdatePosition, Positions
    <3>2. trade[t] \notin Added(Bond(t), book)
      BY <1>3 DEF Added, NotAdded
    <3>3. counted \in SUBSET booked /\ counted \in SUBSET Trades
      BY DEF Added, BookedIn, CountInv, TypeOK
    <3>4. IsFiniteSet(counted)
      BY <3>3, FS_Subset DEF CountInv
    <3>5. SignedSum(counted \cup {trade[t]}) = SignedSum(counted) + Signed(trade[t])
      BY <1>3, <3>2, <3>3, <3>4, SumWith
    <3>6. counted \cup {trade[t]} \in SUBSET Added(Bond(t), book)'
      BY <1>3, <1>6, <2>1, <2>4
    <3> QED
      BY <2>2, <3>1, <3>5, <3>6 DEF IsSumOf
  <2> QED
    BY <2>3, <2>4
<1> QED
  BY <1>7 DEF AddsUp

LEMMA CountStep ==
    ASSUME CountInv, NEW t \in Threads, Step(t)
    PROVE  HandedOverOnce' /\ OwnTrade' /\ IsFiniteSet(booked') /\ PositionsAddUp'
<1> USE DEF CountInv
<1>1. HandedOverOnce'
  BY HandedOverOnceStep
<1>2. OwnTrade'
  <2>1. ASSUME NEW v \in Threads, pc'[v] \notin Idle
        PROVE  \/ pc[v] \notin Idle /\ trade'[v] = trade[v]
               \/ v = t /\ trade'[v] \notin booked
    BY <2>1, StepFrame, TradeFrame
  <2>2. \A v \in Threads : pc[v] \notin Idle => trade[v] \in booked
    BY DEF HandedOverOnce
  <2> QED
    BY <2>1, <2>2 DEF OwnTrade
<1>3. IsFiniteSet(booked')
  BY TradeFrame, FS_AddElement
<1>4. ASSUME NEW bond \in DOMAIN positionMap'
      PROVE  AddsUp(positionMap[bond], bond)'
  <2>1. CASE bond \in DOMAIN positionMap /\ positionMap'[bond] = positionMap[bond]
    <3>1. AddsUp(positionMap[bond], bond)
      BY <2>1 DEF PositionsAddUp
    <3> QED
      BY <2>1, <3>1, AddedGrows, SumOfMore DEF AddsUp
  <2>2. CASE bond = Bond(t) /\ positionMap'[bond] = position[t] /\ pc[t] \in Holding
    <3>1. AddsUp(position[t], bond)
      BY <2>2 DEF PositionsAddUp
    <3> QED
      BY <2>2, <3>1, AddedGrows, SumOfMore DEF AddsUp
  <2>3. positionMap' = positionMap \/ InsertPosition(t) \/ UpdateExistingPosition(t)
    BY DEF Step, Chain, ReadTrade, BookExecution, HandOver, StopReading, BookTrade, AddTrade,
       OnPosition, PersistPosition, OnRisk, InsertRisk, UpdateRisk, PersistRisk,
       GetBucketedRisk, OnMessageBucket, PersistBucket, services
  <2>4. CASE InsertPosition(t) \/ UpdateExistingPosition(t)
    BY <1>4, <2>1, <2>2, <2>4 DEF InsertPosition, UpdateExistingPosition, AddData, UpdateData, Holding
  <2> QED
    BY <1>4, <2>1, <2>3, <2>4
<1>5. ASSUME NEW v \in Threads, pc'[v] \in Holding
      PROVE  AddsUp(position[v], Bond(v))'
  <2>1. CASE v = t /\ AddTrade(t)
    BY <2>1, AddTradeAddsUp
  <2>2. CASE pc[v] \in Holding /\ position'[v] = position[v] /\ trade'[v] = trade[v]
    <3>1. AddsUp(position[v], Bond(v))
      BY <2>2 DEF PositionsAddUp
    <3> QED
      BY <2>2, <3>1, AddedGrows, SumOfMore DEF AddsUp, Bond
  <2>3. pc[v] \in Holding => pc[v] \notin Idle
    BY DEF Holding, Idle
  <2>4. pc'[v] \in Holding => pc'[v] # "bookTrade" /\ pc'[v] \notin Idle
    BY DEF Holding, Idle
  <2> QED
    BY <1>5, <2>1, <2>2, <2>4, StepFrame, TradeFrame
<1> QED
  BY <1>1, <1>2, <1>3, <1>4, <1>5 DEF PositionsAddUp

\* Two steps at once leave the trades alone.
LEMMA RaceFrame ==
    ASSUME TypeOK, NEW t \in Threads, NEW u \in Threads, Race(t, u)
    PROVE  /\ UNCHANGED <<rows, orders, booked>>
           /\ \A v \in Threads :
                 /\ pc'[v] \notin Idle =>
                       pc[v] \notin Idle /\ trade'[v] = trade[v] /\ position'[v] = position[v]
                 /\ pc'[v] \in NotAdded => pc[v] \in NotAdded
                 /\ pc'[v] \in Holding => pc[v] \in Holding
<1>1. CASE LostInsert(t, u)
  <2>1. UNCHANGED <<rows, orders, booked, trade, position>>
    BY <1>1 DEF LostInsert, feeds, locals
  <2>2. /\ pc[t] = pc[u]
        /\ \/ /\ pc[t] = "bookTrade"
              /\ pc' = [pc EXCEPT ![t] = "addTrade", ![u] = "addTrade"]
           \/ /\ pc[t] \in {"insertPosition", "insertRisk"}
              /\ \E label \in {"persistPosition", "persistRisk"} :
                    pc' = [pc EXCEPT ![t] = label, ![u] = label]
    BY <1>1 DEF LostInsert, Both
  <2>3. \A v \in Threads : \/ pc'[v] = pc[v]
                           \/ pc[v] = "bookTrade" /\ pc'[v] = "addTrade"
                           \/ /\ pc[v] \in {"insertPosition", "insertRisk"}
                              /\ pc'[v] \in {"persistPosition", "persistRisk"}
    <3> SUFFICES ASSUME NEW v \in Threads, v \in {t, u}
                 PROVE  \/ pc[v] = "bookTrade" /\ pc'[v] = "addTrade"
                        \/ /\ pc[v] \in {"insertPosition", "insertRisk"}
                           /\ pc'[v] \in {"persistPosition", "persistRisk"}
      BY <2>2 DEF TypeOK
    <3> QED
      BY <2>2 DEF TypeOK
  <2> QED
    BY <2>1, <2>3 DEF NotAdded, Holding, Idle
<1>2. CASE MixedUpdate(t, u)
  <2>1. UNCHANGED <<rows, orders, booked, trade, position>>
    BY <1>2 DEF MixedUpdate, feeds, locals
  <2>2. /\ pc[t] = "updatePosition" /\ pc[u] = "updatePosition"
        /\ pc' = [pc EXCEPT ![t] = "persistPosition", ![u] = "persistPosition"]
    BY <1>2 DEF MixedUpdate, Both
  <2>3. \A v \in Threads : \/ pc'[v] = pc[v]
                           \/ pc[v] = "updatePosition" /\ pc'[v] = "persistPosition"
    BY <2>2 DEF TypeOK
  <2> QED
    BY <2>1, <2>3 DEF NotAdded, Holding, Idle
<1>3. CASE GarbledLine(t, u)
  <2>1. UNCHANGED <<rows, orders, booked>>
    BY <1>3 DEF GarbledLine, feeds
  <2>2. pc' = [pc EXCEPT ![t] = AfterLine(pc[t]), ![u] = AfterLine(pc[u])]
        /\ {pc[t], pc[u]} \subseteq FileSteps
    BY <1>3 DEF GarbledLine, Both
  <2>3. \A v \in Threads : \/ pc'[v] = pc[v] /\ v \notin {t, u}
                           \/ pc[v] = "persistBucket" /\ pc'[v] = "read"
                           \/ /\ pc[v] \in FileSteps \ {"persistBucket"}
                              /\ pc'[v] \in {"onRisk", "bucketRisk"}
    BY <2>2 DEF TypeOK, AfterLine, FileSteps
  <2>4. \A v \in Threads : v \notin {t, u} \/ pc[v] # "persistBucket" =>
           trade'[v] = trade[v] /\ position'[v] = position[v]
    BY <1>3 DEF GarbledLine, Return
  <2> QED
    BY <2>1, <2>3, <2>4 DEF NotAdded, Holding, Idle, FileSteps
<1>4. CASE Crash(t, u)
  BY <1>4 DEF Crash, feeds, locals
<1> QED
  BY <1>1, <1>2, <1>3, <1>4 DEF Race

LEMMA CountRace ==
    ASSUME CountInv, NEW t \in Threads, NEW u \in Threads, Race(t, u)
    PROVE  HandedOverOnce' /\ OwnTrade' /\ IsFiniteSet(booked') /\ PositionsAddUp'
<1> USE DEF CountInv
<1>1. HandedOverOnce' /\ OwnTrade' /\ IsFiniteSet(booked')
  BY RaceFrame DEF HandedOverOnce, OwnTrade
<1>2. \A v \in Threads : pc'[v] \in NotAdded \cup Holding => pc'[v] \notin Idle
  BY DEF NotAdded, Holding, Idle
<1>3. ASSUME NEW bond, NEW book
      PROVE  Added(bond, book) \subseteq Added(bond, book)'
  <2>1. booked' = booked
    BY RaceFrame
  <2>2. \A v \in Threads : pc'[v] \in NotAdded => pc[v] \in NotAdded /\ trade'[v] = trade[v]
    BY <1>2, RaceFrame
  <2> QED
    BY <2>1, <2>2 DEF Added, BookedIn
<1>4. ASSUME NEW v \in Threads, pc'[v] \in Holding
      PROVE  AddsUp(position[v], Bond(v))'
  <2>1. pc[v] \in Holding /\ position'[v] = position[v] /\ trade'[v] = trade[v]
    BY <1>2, <1>4, RaceFrame
  <2>2. AddsUp(position[v], Bond(v))
    BY <2>1 DEF PositionsAddUp
  <2> QED
    BY <1>3, <2>1, <2>2, SumOfMore DEF AddsUp, Bond
<1>5. ASSUME NEW bond \in DOMAIN positionMap', NEW book \in Books
      PROVE  IsSumOf(positionMap'[bond][book], Added(bond, book))
  <2>1. CASE bond \in DOMAIN positionMap /\ positionMap'[bond] = positionMap[bond]
    BY <2>1 DEF PositionsAddUp, AddsUp
  <2>2. ASSUME NEW v \in Threads, pc[v] \in Holding, bond = Bond(v),
               positionMap'[bond][book] = position[v][book]
        PROVE  IsSumOf(positionMap'[bond][book], Added(bond, book))
    BY <2>2 DEF PositionsAddUp, AddsUp
  <2>3. CASE LostInsert(t, u)
    <3>1. positionMap' = positionMap
          \/ /\ pc[u] = "insertPosition"
             /\ positionMap' = AddData(positionMap, Bond(u), position[u])
      BY <2>3 DEF LostInsert
    <3> QED
      BY <1>5, <2>1, <2>2, <3>1 DEF AddData, Holding
  <2>4. CASE MixedUpdate(t, u)
    <3>1. PICK mixed \in Torn(position[t], position[u]) :
            positionMap' = UpdateData(positionMap, Bond(t), mixed)
      BY <2>4 DEF MixedUpdate
    <3>2. Bond(t) = Bond(u) /\ pc[t] \in Holding /\ pc[u] \in Holding
      BY <2>4 DEF MixedUpdate, DataRace, InsertSteps, FileSteps, Holding
    <3>3. mixed[book] \in {position[t][book], position[u][book], 0}
      BY <3>1 DEF Torn
    <3>4. CASE bond = Bond(t)
      BY <1>5, <2>2, <3>1, <3>2, <3>3, <3>4, ZeroIsSum DEF UpdateData
    <3>5. CASE bond # Bond(t)
      BY <1>5, <2>1, <3>1, <3>5 DEF UpdateData
    <3> QED
      BY <3>4, <3>5
  <2>5. CASE GarbledLine(t, u) \/ Crash(t, u)
    BY <1>5, <2>1, <2>5 DEF GarbledLine, Crash, services
  <2> QED
    BY <2>3, <2>4, <2>5 DEF Race
<1>6. \A bond \in DOMAIN positionMap' : AddsUp(positionMap[bond], bond)'
  BY <1>3, <1>5, SumOfMore DEF AddsUp
<1> QED
  BY <1>1, <1>4, <1>6 DEF PositionsAddUp

\* However the two threads interleave, tear their copies and lose their updates, a
\* position never counts a trade twice, nor one of another bond or book.  AddTrade's
\* copy cannot count the trade in hand: no map and no other thread ever saw it.
THEOREM CountedOnce == Spec => []NoDoubleCount
<1>1. Init => CountInv
  <2> SUFFICES ASSUME Init PROVE CountInv
    OBVIOUS
  <2>1. HandedOverOnce /\ OwnTrade /\ IsFiniteSet(booked)
    BY FS_EmptySet DEF Init, HandedOverOnce, OwnTrade, Idle
  <2>2. PositionsAddUp
    BY DEF Init, PositionsAddUp, EmptyMap, Holding
  <2> QED
    BY <2>1, <2>2, TypeInit DEF CountInv
<1>2. CountInv /\ [Next]_vars => CountInv'
  <2> SUFFICES ASSUME CountInv, [Next]_vars PROVE CountInv'
    OBVIOUS
  <2>1. TypeOK'
    BY StepType, RaceType, StutterType DEF Next, Terminating, CountInv
  <2>2. CASE UNCHANGED vars
    <3>1. UNCHANGED <<rows, orders, booked, positionMap, pc, trade, position>>
      BY <2>2 DEF vars, feeds, services, locals
    <3>2. HandedOverOnce' /\ OwnTrade' /\ IsFiniteSet(booked')
      BY <3>1 DEF CountInv, HandedOverOnce, OwnTrade
    <3>3. \A bond, book : Added(bond, book)' = Added(bond, book)
      BY <3>1 DEF Added, BookedIn
    <3>4. \A bond \in DOMAIN positionMap' : AddsUp(positionMap[bond], bond)'
      BY <3>1, <3>3 DEF AddsUp, CountInv, PositionsAddUp
    <3>5. \A t \in Threads : pc'[t] \in Holding => AddsUp(position[t], Bond(t))'
      BY <3>1, <3>3 DEF AddsUp, CountInv, PositionsAddUp, Bond
    <3> QED
      BY <2>1, <3>2, <3>4, <3>5 DEF CountInv, PositionsAddUp
  <2> QED
    BY <2>1, <2>2, CountStep, CountRace DEF Next, Terminating, CountInv
<1>3. CountInv => NoDoubleCount
  BY DEF CountInv, PositionsAddUp, AddsUp, IsSumOf, Added, NoDoubleCount
<1> QED
  BY <1>1, <1>2, <1>3, PTL DEF Spec
-----------------------------------------------------------------------------
(* When the two feeds do not overlap, risk follows positions, the services *)
(* implement the ledger, positions match the booked trades, and risk.txt   *)
(* is current between messages.                                            *)

\* Nothing races with the only thread that is in a call chain.
LEMMA NoRace ==
    ASSUME NEW t \in Threads, OthersIdle(t), NEW u \in Threads
    PROVE  ~DataRace(t, u) /\ ~DataRace(u, t)
<1>1. \A label \in Idle : Object(label) = "none"
  BY DEF Idle, Object
<1> QED
  BY <1>1 DEF OthersIdle, DataRace

\* So its look-ups tell the truth, and its copies are whole.
LEMMA SerialReads ==
    ASSUME NEW t \in Threads, OthersIdle(t)
    PROVE  /\ \A map, key : \A found \in Find(t, map, key) : found <=> ExistingData(map, key)
           /\ Copies(t) = {positionMap[Bond(t)]}
<1>1. ~UnderInsert(t)
  BY NoRace DEF UnderInsert
<1>2. {u \in Threads : DataRace(u, t) /\ pc[u] = "updatePosition"} = {}
  BY NoRace
<1> QED
  BY <1>1, <1>2 DEF Find, Copies, GetData, ExistingData

LEMMA OneChainStep ==
    ASSUME TypeOK, NEW t \in Threads, OthersIdle(t), Step(t)
    PROVE  OneChain' /\ \A v \in Threads \ {t} : pc'[v] \in Idle
BY StepFrame DEF OneChain, OthersIdle

(* Each step of the call chain keeps NoStaleRead and RiskFollows.          *)

StepFacts == NoStaleRead' /\ RiskFollows'

\* Steps that leave both maps alone and do not enter or leave a part of the chain
\* the two invariants speak of.
LEMMA QuietStep ==
    ASSUME TypeOK, NoStaleRead, RiskFollows, NEW t \in Threads, OthersIdle(t),
           UNCHANGED <<positionMap, riskMap>>,
           \A v \in Threads \ {t} : pc'[v] \in Idle,
           pc[t] \notin RiskBehind,
           pc'[t] \in Labels \ (RiskBehind \cup {"onPosition", "insertPosition", "updatePosition"})
    PROVE  StepFacts
<1>1. \A v \in Threads : pc[v] \notin RiskBehind
  BY DEF OthersIdle, Idle, RiskBehind
<1>2. \A v \in Threads : pc'[v] \notin RiskBehind \cup {"onPosition", "insertPosition", "updatePosition"}
  BY DEF Idle, RiskBehind
<1>3. NoStaleRead'
  BY <1>2 DEF NoStaleRead, RiskBehind
<1>4. RiskFollows'
  BY <1>1, <1>2 DEF RiskFollows
<1> QED
  BY <1>3, <1>4 DEF StepFacts

LEMMA PositionStep ==
    ASSUME TypeOK, NoStaleRead, RiskFollows, NEW t \in Threads, OthersIdle(t),
           \A v \in Threads \ {t} : pc'[v] \in Idle,
           AddTrade(t) \/ OnPosition(t)
    PROVE  StepFacts
<1>1. UNCHANGED <<positionMap, riskMap, trade>>
  BY DEF AddTrade, OnPosition, services, locals
<1>2. /\ \A v \in Threads : pc[v] \notin RiskBehind
      /\ \A v \in Threads : pc'[v] \notin RiskBehind
  BY DEF AddTrade, OnPosition, Goto, TypeOK, OthersIdle, Idle, RiskBehind
<1>3. RiskFollows'
  BY <1>1, <1>2 DEF RiskFollows
<1>4. CASE AddTrade(t)
  <2>1. PICK found \in Find(t, positionMap, Bond(t)) :
          \E current \in IF found THEN Copies(t) ELSE {NewPosition} :
             position' = [position EXCEPT ![t] = UpdatePosition(current, trade[t])]
    BY <1>4 DEF AddTrade
  <2>2. found <=> ExistingData(positionMap, Bond(t))
    BY <2>1, SerialReads
  <2>3. position' = [position EXCEPT ![t] = UpdatePosition(Current(Bond(t)), trade[t])]
    BY <2>1, <2>2, SerialReads DEF Current
  <2>4. pc' = [pc EXCEPT ![t] = "onPosition"]
    BY <1>4 DEF AddTrade, Goto
  <2> QED
    BY <1>1, <1>3, <2>3, <2>4 DEF StepFacts, NoStaleRead, TypeOK, Idle, Bond, Current
<1>5. CASE OnPosition(t)
  <2>1. PICK found \in Find(t, positionMap, Bond(t)) :
          pc' = [pc EXCEPT ![t] = IF found THEN "updatePosition" ELSE "insertPosition"]
    BY <1>5 DEF OnPosition, Goto
  <2>2. found <=> ExistingData(positionMap, Bond(t))
    BY <2>1, SerialReads
  <2>3. pc[t] = "onPosition" /\ position' = position
    BY <1>5 DEF OnPosition, locals
  <2> QED
    BY <1>1, <1>3, <2>1, <2>2, <2>3 DEF StepFacts, NoStaleRead, TypeOK, Idle, Bond, Current
<1> QED
  BY <1>4, <1>5

\* Storing the position puts the risk of its bond, and of no other, behind.
LEMMA StoreStep ==
    ASSUME TypeOK, NoStaleRead, RiskFollows, NEW t \in Threads, OthersIdle(t),
           \A v \in Threads \ {t} : pc'[v] \in Idle,
           InsertPosition(t) \/ UpdateExistingPosition(t)
    PROVE  /\ StepFacts
           /\ \A bond \in Bonds : Current(bond)' =
                 IF bond = Bond(t) THEN UpdatePosition(Current(bond), trade[t]) ELSE Current(bond)
<1>1. /\ UNCHANGED <<riskMap, trade, position>>
      /\ pc' = [pc EXCEPT ![t] = "persistPosition"]
      /\ pc[t] \in {"insertPosition", "updatePosition"}
  BY DEF InsertPosition, UpdateExistingPosition, locals, Goto
<1>2. /\ DOMAIN positionMap' = DOMAIN positionMap \cup {Bond(t)}
      /\ positionMap'[Bond(t)] = position[t]
      /\ \A bond \in DOMAIN positionMap \ {Bond(t)} : positionMap'[bond] = positionMap[bond]
  <2>1. CASE InsertPosition(t)
    BY <2>1 DEF InsertPosition, AddData, ExistingData, NoStaleRead
  <2>2. CASE UpdateExistingPosition(t)
    <3>1. ExistingData(positionMap, Bond(t))
      BY <2>2 DEF UpdateExistingPosition, NoStaleRead
    <3>2. positionMap' = UpdateData(positionMap, Bond(t), position[t])
      BY <2>2, <3>1, SerialReads DEF UpdateExistingPosition
    <3> QED
      BY <3>1, <3>2 DEF UpdateData, ExistingData
  <2> QED
    BY <2>1, <2>2
<1>3. \A v \in Threads : pc[v] \notin RiskBehind
  BY <1>1 DEF OthersIdle, Idle, RiskBehind
<1>4. pc'[t] \in RiskBehind /\ \A v \in Threads \ {t} : pc'[v] \notin RiskBehind
  BY <1>1 DEF TypeOK, Idle, RiskBehind
<1>5. RiskFollows'
  BY <1>1, <1>2, <1>3, <1>4 DEF RiskFollows, ExistingData, Bond
<1>6. NoStaleRead'
  BY <1>1 DEF NoStaleRead, TypeOK, Idle
<1>7. \A bond \in Bonds : Current(bond)' =
         IF bond = Bond(t) THEN UpdatePosition(Current(bond), trade[t]) ELSE Current(bond)
  BY <1>1, <1>2 DEF Current, ExistingData, NoStaleRead
<1> QED
  BY <1>5, <1>6, <1>7 DEF StepFacts

LEMMA RiskStep ==
    ASSUME TypeOK, NoStaleRead, RiskFollows, NEW t \in Threads, OthersIdle(t),
           \A v \in Threads \ {t} : pc'[v] \in Idle,
           PersistPosition(t) \/ OnRisk(t)
    PROVE  StepFacts
<1>1. UNCHANGED <<positionMap, riskMap, trade, position>>
  BY DEF PersistPosition, OnRisk, services, locals
<1>2. pc[t] \in RiskBehind /\ pc'[t] \in RiskBehind
  BY DEF PersistPosition, OnRisk, Goto, TypeOK, RiskBehind
<1>3. \A v \in Threads \ {t} : pc[v] \notin RiskBehind /\ pc'[v] \notin RiskBehind
  BY DEF OthersIdle, Idle, RiskBehind
<1>4. RiskFollows'
  BY <1>1, <1>2, <1>3 DEF RiskFollows, Bond
<1>5. CASE PersistPosition(t)
  BY <1>1, <1>4, <1>5 DEF StepFacts, PersistPosition, Goto, NoStaleRead, TypeOK, Idle
<1>6. CASE OnRisk(t)
  <2>1. PICK found \in Find(t, riskMap, Bond(t)) :
          pc' = [pc EXCEPT ![t] = IF found THEN "updateRisk" ELSE "insertRisk"]
    BY <1>6 DEF OnRisk, Goto
  <2>2. found <=> ExistingData(riskMap, Bond(t))
    BY <2>1, SerialReads
  <2> QED
    BY <1>1, <1>4, <2>1, <2>2 DEF StepFacts, NoStaleRead, TypeOK, Idle, Bond
<1> QED
  BY <1>5, <1>6

\* Storing the risk brings the bond up to date, and no other bond was behind.
LEMMA StoreRiskStep ==
    ASSUME TypeOK, NoStaleRead, RiskFollows, NEW t \in Threads, OthersIdle(t),
           \A v \in Threads \ {t} : pc'[v] \in Idle,
           InsertRisk(t) \/ UpdateRisk(t)
    PROVE  StepFacts
<1>1. /\ UNCHANGED <<positionMap, trade, position>>
      /\ pc' = [pc EXCEPT ![t] = "persistRisk"]
      /\ pc[t] \in {"insertRisk", "updateRisk"}
  BY DEF InsertRisk, UpdateRisk, locals, Goto
<1>2. /\ DOMAIN riskMap' = DOMAIN riskMap \cup {Bond(t)}
      /\ riskMap'[Bond(t)] = RiskQuantity(t)
      /\ \A bond \in DOMAIN riskMap \ {Bond(t)} : riskMap'[bond] = riskMap[bond]
  <2>1. CASE InsertRisk(t)
    BY <2>1 DEF InsertRisk, AddData, ExistingData, NoStaleRead
  <2>2. CASE UpdateRisk(t)
    <3>1. ExistingData(riskMap, Bond(t))
      BY <2>2 DEF UpdateRisk, NoStaleRead
    <3>2. riskMap' = UpdateData(riskMap, Bond(t), RiskQuantity(t))
      BY <2>2, <3>1, SerialReads DEF UpdateRisk
    <3> QED
      BY <3>1, <3>2 DEF UpdateData, ExistingData
  <2> QED
    BY <2>1, <2>2
<1>3. ExistingData(positionMap, Bond(t)) /\ positionMap[Bond(t)] = position[t]
  BY <1>1 DEF RiskFollows, RiskBehind
<1>4. \A v \in Threads \ {t} : pc[v] \notin RiskBehind
  BY DEF OthersIdle, Idle, RiskBehind
<1>5. \A v \in Threads : pc'[v] \notin RiskBehind
  BY <1>1 DEF TypeOK, Idle, RiskBehind
<1>6. RiskFollows'
  BY <1>1, <1>2, <1>3, <1>4, <1>5 DEF RiskFollows, ExistingData, RiskQuantity
<1>7. NoStaleRead'
  BY <1>1, <1>5 DEF NoStaleRead, TypeOK, Idle
<1> QED
  BY <1>6, <1>7 DEF StepFacts

LEMMA AccessKeepsInv ==
    ASSUME TypeOK, SerialInv, NEW t \in Threads, OthersIdle(t), Step(t)
    PROVE  SerialInv'
<1>1. OneChain' /\ \A v \in Threads \ {t} : pc'[v] \in Idle
  BY OneChainStep
<1>2. HandedOverOnce'
  BY HandedOverOnceStep DEF SerialInv
<1>3. NoStaleRead /\ RiskFollows
  BY DEF SerialInv
<1>4. StepFacts
  <2>1. CASE AddTrade(t) \/ OnPosition(t)
    BY <1>1, <1>3, <2>1, PositionStep
  <2>2. CASE InsertPosition(t) \/ UpdateExistingPosition(t)
    BY <1>1, <1>3, <2>2, StoreStep
  <2>3. CASE PersistPosition(t) \/ OnRisk(t)
    BY <1>1, <1>3, <2>3, RiskStep
  <2>4. CASE InsertRisk(t) \/ UpdateRisk(t)
    BY <1>1, <1>3, <2>4, StoreRiskStep
  <2>5. CASE \/ ReadTrade(t) \/ BookExecution(t) \/ StopReading(t) \/ BookTrade(t)
             \/ PersistRisk(t) \/ GetBucketedRisk(t) \/ OnMessageBucket(t) \/ PersistBucket(t)
    <3>1. UNCHANGED <<positionMap, riskMap>>
      BY <2>5 DEF ReadTrade, BookExecution, HandOver, StopReading, BookTrade, PersistRisk,
         GetBucketedRisk, OnMessageBucket, PersistBucket, services
    <3>2. pc[t] \notin RiskBehind
      BY <2>5 DEF ReadTrade, BookExecution, StopReading, BookTrade, PersistRisk,
         GetBucketedRisk, OnMessageBucket, PersistBucket, RiskBehind
    <3>3. pc'[t] \in {"bookTrade", "stopped", "addTrade", "bucketRisk", "onBucket",
                      "persistBucket", "read"}
      BY <2>5 DEF ReadTrade, BookExecution, HandOver, StopReading, BookTrade, PersistRisk,
         GetBucketedRisk, OnMessageBucket, PersistBucket, Goto, TypeOK
    <3>4. pc'[t] \in Labels \ (RiskBehind \cup {"onPosition", "insertPosition", "updatePosition"})
      BY <3>3 DEF Labels, Idle, InsertSteps, FileSteps, RiskBehind
    <3> QED
      BY <1>1, <1>3, <3>1, <3>2, <3>4, QuietStep
  <2> QED
    BY <2>1, <2>2, <2>3, <2>4, <2>5 DEF Step, Chain
<1> QED
  BY <1>1, <1>2, <1>4 DEF SerialInv, StepFacts

\* A thread that stops reading was idle and stays so.
LEMMA StopKeepsInv ==
    ASSUME TypeOK, SerialInv, NEW t \in Threads, StopReading(t)
    PROVE  SerialInv' /\ UNCHANGED <<positionMap, booked, InFlight>>
<1>1. UNCHANGED <<feeds, services, locals>>
  BY DEF StopReading
<1>2. pc[t] = "read" /\ pc' = [pc EXCEPT ![t] = "stopped"]
  BY DEF StopReading, Goto
<1>3. \A v \in Threads : pc'[v] = pc[v] \/ (v = t /\ pc[v] = "read" /\ pc'[v] = "stopped")
  BY <1>2 DEF TypeOK
<1>4. OneChain'
  BY <1>3 DEF OneChain, SerialInv, Idle
<1>5. HandedOverOnce'
  BY <1>1, <1>3 DEF HandedOverOnce, SerialInv, Idle, feeds, locals
<1>6. NoStaleRead'
  BY <1>1, <1>3 DEF NoStaleRead, SerialInv, services, locals, Bond, Current
<1>7. RiskFollows'
  <2>1. \A v \in Threads : pc'[v] \in RiskBehind <=> pc[v] \in RiskBehind
    BY <1>3 DEF RiskBehind
  <2> QED
    BY <1>1, <2>1 DEF RiskFollows, SerialInv, services, locals, Bond
<1>8. InFlight' = InFlight
  <2>1. \A v \in Threads :
          pc'[v] \in {"bookTrade", "addTrade", "onPosition", "insertPosition", "updatePosition"}
            <=> pc[v] \in {"bookTrade", "addTrade", "onPosition", "insertPosition", "updatePosition"}
    BY <1>3
  <2> QED
    BY <1>1, <2>1 DEF InFlight, locals
<1> QED
  BY <1>1, <1>4, <1>5, <1>6, <1>7, <1>8 DEF SerialInv, services, feeds

LEMMA SerialStutter ==
    ASSUME SerialInv, UNCHANGED vars
    PROVE  SerialInv'
BY DEF vars, feeds, services, files, locals, SerialInv, OneChain, HandedOverOnce, NoStaleRead,
   RiskFollows, Bond, Current

LEMMA SerialInit == Init => SerialInv
BY DEF Init, SerialInv, OneChain, HandedOverOnce, NoStaleRead, RiskFollows, RiskBehind, Idle,
   ExistingData, EmptyMap

\* When the feeds do not overlap, what AddTrade and OnMessage read is still true when
\* they act on it, and only the bond being handled can be behind in the risk map.
THEOREM SerialInvariant == SerialSpec => [](TypeOK /\ SerialInv)
<1>1. Init => TypeOK /\ SerialInv
  BY TypeInit, SerialInit
<1>2. TypeOK /\ SerialInv /\ [SerialNext]_vars => TypeOK' /\ SerialInv'
  BY StepType, StutterType, AccessKeepsInv, StopKeepsInv, SerialStutter
     DEF SerialNext, SerialStep, Terminating
<1> QED
  BY <1>1, <1>2, PTL DEF SerialSpec

\* Between messages the risk service holds the aggregate of every current position.
THEOREM SerialRisk == SerialSpec => []RiskTracksPosition
<1>1. TypeOK /\ SerialInv => RiskTracksPosition
  <2> SUFFICES ASSUME TypeOK, SerialInv, Quiescent PROVE
        /\ DOMAIN riskMap = DOMAIN positionMap
        /\ \A bond \in DOMAIN riskMap : riskMap[bond] = GetAggregatePosition(positionMap[bond])
    BY DEF RiskTracksPosition
  <2>1. \A t \in Threads : pc[t] \notin RiskBehind
    BY DEF Quiescent, Idle, RiskBehind
  <2> QED
    BY <2>1 DEF SerialInv, RiskFollows, ExistingData, TypeOK
<1> QED
  BY <1>1, SerialInvariant, PTL

-----------------------------------------------------------------------------
(* Refinement: every step maps to the Count of one trade, or to a stutter. *)

Carrying == {"bookTrade", "addTrade", "onPosition", "insertPosition", "updatePosition"}

LEMMA InFlightOf ==
    ASSUME NEW t \in Threads, OthersIdle(t)
    PROVE  InFlight = IF pc[t] \in Carrying THEN {trade[t]} ELSE {}
<1>1. \A v \in Threads \ {t} : pc[v] \notin Carrying
  BY DEF OthersIdle, Idle, Carrying
<1>2. {u \in Threads : pc[u] \in Carrying} = IF pc[t] \in Carrying THEN {t} ELSE {}
  BY <1>1
<1> QED
  BY <1>2 DEF InFlight, Carrying

LEMMA InFlightNext ==
    ASSUME NEW t \in Threads, \A v \in Threads \ {t} : pc'[v] \in Idle
    PROVE  InFlight' = IF pc'[t] \in Carrying THEN {trade'[t]} ELSE {}
<1>1. \A v \in Threads \ {t} : pc'[v] \notin Carrying
  BY DEF Idle, Carrying
<1>2. {u \in Threads : pc'[u] \in Carrying} = IF pc'[t] \in Carrying THEN {t} ELSE {}
  BY <1>1
<1> QED
  BY <1>2 DEF InFlight, Carrying

\* Handing a trade over does not count it yet.
LEMMA HandOverStutters ==
    ASSUME TypeOK, SerialInv, NEW t \in Threads, OthersIdle(t),
           \A v \in Threads \ {t} : pc'[v] \in Idle,
           ReadTrade(t) \/ BookExecution(t)
    PROVE  UNCHANGED <<positionMap, booked \ InFlight>>
<1>1. PICK tr : HandOver(t, tr) /\ tr \notin booked
  <2>1. CASE ReadTrade(t)
    BY <2>1 DEF ReadTrade, SerialInv, HandedOverOnce
  <2>2. CASE BookExecution(t)
    <3>1. PICK order \in orders : HandOver(t, TradeOf(order, trading_books[current_book_idx + 1]))
      BY <2>2 DEF BookExecution
    <3>2. TradeOf(order, trading_books[current_book_idx + 1]).id = order.id
      BY DEF TradeOf
    <3> QED
      BY <3>1, <3>2 DEF SerialInv, HandedOverOnce
  <2> QED
    BY <2>1, <2>2
<1>2. pc[t] \notin Carrying
  BY DEF ReadTrade, BookExecution, Carrying
<1>3. pc'[t] \in Carrying /\ trade'[t] = tr
  BY <1>1 DEF HandOver, Goto, TypeOK, Carrying
<1>4. booked' = booked \cup {tr} /\ positionMap' = positionMap
  BY <1>1 DEF HandOver, services
<1> QED
  BY <1>1, <1>2, <1>3, <1>4, InFlightOf, InFlightNext

\* Storing a position is the Count of the trade in hand.
LEMMA StoreCounts ==
    ASSUME TypeOK, SerialInv, NEW t \in Threads, OthersIdle(t),
           \A v \in Threads \ {t} : pc'[v] \in Idle,
           InsertPosition(t) \/ UpdateExistingPosition(t)
    PROVE  Ledger!Count(trade[t])
<1>1. /\ pc[t] \in Carrying /\ pc[t] \notin Idle /\ pc'[t] \notin Carrying
      /\ booked' = booked
  BY DEF InsertPosition, UpdateExistingPosition, Goto, TypeOK, Carrying, Idle, feeds
<1>2. trade[t] \in booked /\ trade[t] \in Trades
  BY <1>1 DEF SerialInv, HandedOverOnce, TypeOK
<1>3. booked \ InFlight = booked \ {trade[t]} /\ (booked \ InFlight)' = booked
  BY <1>1, InFlightOf, InFlightNext
<1>4. \A bond \in Bonds : Current(bond)' =
         IF bond = Bond(t) THEN UpdatePosition(Current(bond), trade[t]) ELSE Current(bond)
  BY StoreStep DEF SerialInv
<1>5. Bond(t) \in Bonds /\ Bond(t) = trade[t].bond
  BY <1>2, TradeType DEF Bond
<1>6. Ledger!Signed(trade[t]) = Signed(trade[t])
  BY DEF Ledger!Signed, Signed
<1>7. [bond \in Bonds |-> Current(bond)]' =
         [[bond \in Bonds |-> Current(bond)] EXCEPT
             ![trade[t].bond][trade[t].book] = @ + Ledger!Signed(trade[t])]
  BY <1>4, <1>5, <1>6 DEF UpdatePosition
<1> QED
  BY <1>2, <1>3, <1>7 DEF Ledger!Count

\* Every other step leaves the ledger alone.
LEMMA ChainStutters ==
    ASSUME TypeOK, NEW t \in Threads, OthersIdle(t), \A v \in Threads \ {t} : pc'[v] \in Idle,
           \/ StopReading(t) \/ BookTrade(t) \/ AddTrade(t) \/ OnPosition(t)
           \/ PersistPosition(t) \/ OnRisk(t) \/ InsertRisk(t) \/ UpdateRisk(t)
           \/ PersistRisk(t) \/ GetBucketedRisk(t) \/ OnMessageBucket(t) \/ PersistBucket(t)
    PROVE  UNCHANGED <<positionMap, booked, InFlight>>
<1>1. UNCHANGED <<positionMap, booked>>
  BY DEF StopReading, BookTrade, AddTrade, OnPosition, PersistPosition, OnRisk,
     InsertRisk, UpdateRisk, PersistRisk, GetBucketedRisk, OnMessageBucket, PersistBucket,
     feeds, services
<1>2. pc'[t] \in Carrying <=> pc[t] \in Carrying
  BY DEF StopReading, BookTrade, AddTrade, OnPosition, PersistPosition, OnRisk,
     InsertRisk, UpdateRisk, PersistRisk, GetBucketedRisk, OnMessageBucket, PersistBucket,
     Goto, TypeOK, Carrying
<1>3. pc[t] \in Carrying => trade'[t] = trade[t]
  BY DEF StopReading, BookTrade, AddTrade, OnPosition, PersistPosition, OnRisk,
     InsertRisk, UpdateRisk, PersistRisk, GetBucketedRisk, OnMessageBucket, PersistBucket,
     Carrying, locals
<1> QED
  BY <1>1, <1>2, <1>3, InFlightOf, InFlightNext

LEMMA LedgerStep ==
    ASSUME TypeOK, SerialInv, NEW t \in Threads, OthersIdle(t), Step(t)
    PROVE  [Ledger!Next]_(Ledger!vars)
<1>1. \A v \in Threads \ {t} : pc'[v] \in Idle
  BY OneChainStep
<1>2. UNCHANGED <<positionMap, booked \ InFlight>> => UNCHANGED Ledger!vars
  BY DEF Ledger!vars, Current
<1>3. CASE ReadTrade(t) \/ BookExecution(t)
  BY <1>1, <1>2, <1>3, HandOverStutters
<1>4. CASE InsertPosition(t) \/ UpdateExistingPosition(t)
  <2>1. trade[t] \in Trades
    BY <1>4 DEF InsertPosition, UpdateExistingPosition, TypeOK, Idle
  <2> QED
    BY <1>1, <1>4, <2>1, StoreCounts DEF Ledger!Next
<1>5. CASE \/ StopReading(t) \/ BookTrade(t) \/ AddTrade(t) \/ OnPosition(t)
           \/ PersistPosition(t) \/ OnRisk(t) \/ InsertRisk(t) \/ UpdateRisk(t)
           \/ PersistRisk(t) \/ GetBucketedRisk(t) \/ OnMessageBucket(t) \/ PersistBucket(t)
  BY <1>1, <1>2, <1>5, ChainStutters
<1> QED
  BY <1>3, <1>4, <1>5 DEF Step, Chain

\* When the feeds do not overlap, booking and positions implement the ledger:
\* BondPositionService turns every trade into its position exactly once.
THEOREM SerialRefinement == SerialSpec => ImplementsLedger
<1>1. Init => Ledger!Init
  BY DEF Init, Ledger!Init, Current, ExistingData, EmptyMap, NewPosition
<1>2. TypeOK /\ SerialInv /\ [SerialNext]_vars => [Ledger!Next]_(Ledger!vars)
  <2> SUFFICES ASSUME TypeOK, SerialInv, [SerialNext]_vars
               PROVE  [Ledger!Next]_(Ledger!vars)
    OBVIOUS
  <2>1. CASE UNCHANGED vars
    BY <2>1 DEF vars, feeds, services, locals, Ledger!vars, Current, InFlight
  <2>2. ASSUME NEW t \in Threads, StopReading(t)
        PROVE  UNCHANGED Ledger!vars
    BY <2>2, StopKeepsInv DEF Ledger!vars, Current
  <2> QED
    BY <2>1, <2>2, LedgerStep DEF SerialNext, SerialStep, Terminating
<1> QED
  BY <1>1, <1>2, SerialInvariant, PTL DEF SerialSpec, ImplementsLedger, Ledger!Spec

-----------------------------------------------------------------------------
(* Positions match trades: the ledger adds up the trades it counts, and    *)
(* tradeMap holds the same ones.                                           *)

Cell(trades, bond, book) == {tr \in trades : tr.bond = bond /\ tr.book = book}

\* The position of a bond adds up the trades whose positions were stored.
LedgerAddsUp ==
    \A bond \in Bonds, book \in Books :
        Current(bond)[book] = SignedSum(Cell(booked \ InFlight, bond, book))

\* The trades handed over that BookTrade has not stored yet.
Unstored == {trade[t] : t \in {u \in Threads : pc[u] = "bookTrade"}}

\* tradeMap holds every other trade handed over, under its own id.
TradesStored ==
    /\ Range(tradeMap) = booked \ Unstored
    /\ \A id \in DOMAIN tradeMap : tradeMap[id].id = id
    /\ \A a, b \in booked : a.id = b.id => a = b

MatchInv == IsFiniteSet(booked) /\ LedgerAddsUp /\ TradesStored

LEMMA UnstoredOf ==
    ASSUME NEW t \in Threads, OthersIdle(t)
    PROVE  Unstored = IF pc[t] = "bookTrade" THEN {trade[t]} ELSE {}
<1>1. \A v \in Threads \ {t} : pc[v] # "bookTrade"
  BY DEF OthersIdle, Idle
<1>2. {u \in Threads : pc[u] = "bookTrade"} = IF pc[t] = "bookTrade" THEN {t} ELSE {}
  BY <1>1
<1> QED
  BY <1>2 DEF Unstored

LEMMA UnstoredNext ==
    ASSUME NEW t \in Threads, \A v \in Threads \ {t} : pc'[v] \in Idle
    PROVE  Unstored' = IF pc'[t] = "bookTrade" THEN {trade'[t]} ELSE {}
<1>1. \A v \in Threads \ {t} : pc'[v] # "bookTrade"
  BY DEF Idle
<1>2. {u \in Threads : pc'[u] = "bookTrade"} = IF pc'[t] = "bookTrade" THEN {t} ELSE {}
  BY <1>1
<1> QED
  BY <1>2 DEF Unstored

\* A thread takes a trade with an id of its own.
LEMMA FreshTrade ==
    ASSUME TypeOK, SerialInv, NEW t \in Threads, ReadTrade(t) \/ BookExecution(t)
    PROVE  /\ booked' = booked \cup {trade'[t]}
           /\ \A tr \in booked : tr.id # trade'[t].id
           /\ pc[t] # "bookTrade" /\ pc'[t] = "bookTrade" /\ tradeMap' = tradeMap
<1>1. CASE ReadTrade(t)
  <2>1. PICK row \in rows : HandOver(t, row) /\ pc[t] = "read"
    BY <1>1 DEF ReadTrade
  <2> QED
    BY <2>1 DEF HandOver, Goto, services, TypeOK, SerialInv, HandedOverOnce
<1>2. CASE BookExecution(t)
  <2>1. PICK order \in orders :
          HandOver(t, TradeOf(order, trading_books[current_book_idx + 1])) /\ pc[t] = "read"
    BY <1>2 DEF BookExecution
  <2>2. TradeOf(order, trading_books[current_book_idx + 1]).id = order.id
    BY DEF TradeOf
  <2> QED
    BY <2>1, <2>2 DEF HandOver, Goto, services, TypeOK, SerialInv, HandedOverOnce
<1> QED
  BY <1>1, <1>2

\* Adding a trade to its cell.
LEMMA StoreAddsUp ==
    ASSUME TypeOK, SerialInv, MatchInv, NEW t \in Threads, OthersIdle(t),
           \A v \in Threads \ {t} : pc'[v] \in Idle,
           InsertPosition(t) \/ UpdateExistingPosition(t)
    PROVE  LedgerAddsUp'
<1>1. /\ pc[t] \in Carrying /\ pc[t] \notin Idle /\ pc'[t] \notin Carrying
      /\ booked' = booked
  BY DEF InsertPosition, UpdateExistingPosition, Goto, TypeOK, Carrying, Idle, feeds
<1>2. trade[t] \in booked /\ trade[t] \in Trades
  BY <1>1 DEF SerialInv, HandedOverOnce, TypeOK
<1>3. booked \ InFlight = booked \ {trade[t]} /\ (booked \ InFlight)' = booked
  BY <1>1, InFlightOf, InFlightNext
<1>4. \A bond \in Bonds : Current(bond)' =
         IF bond = Bond(t) THEN UpdatePosition(Current(bond), trade[t]) ELSE Current(bond)
  BY StoreStep DEF SerialInv
<1>5. ASSUME NEW bond \in Bonds, NEW book \in Books
      PROVE  Current(bond)'[book] = SignedSum(Cell(booked, bond, book))
  <2>1. Current(bond) \in Positions
    BY NewPositionType DEF Current, ExistingData, TypeOK
  <2>2. Current(bond)[book] = SignedSum(Cell(booked \ {trade[t]}, bond, book))
    BY <1>3 DEF MatchInv, LedgerAddsUp
  <2>3. CASE bond = trade[t].bond /\ book = trade[t].book
    <3>1. Current(bond)'[book] = Current(bond)[book] + Signed(trade[t])
      BY <1>4, <2>1, <2>3 DEF UpdatePosition, Positions, Bond
    <3> DEFINE rest == Cell(booked \ {trade[t]}, bond, book)
    <3>2. /\ Cell(booked, bond, book) = rest \cup {trade[t]}
          /\ rest \in SUBSET Trades /\ rest \in SUBSET booked /\ trade[t] \notin rest
      BY <1>2, <2>3 DEF Cell, TypeOK
    <3>3. IsFiniteSet(rest)
      BY <3>2, FS_Subset DEF MatchInv
    <3>4. SignedSum(rest \cup {trade[t]}) = SignedSum(rest) + Signed(trade[t])
      <4> HIDE DEF rest
      <4> QED
        BY <1>2, <3>2, <3>3, SumWith
    <3> QED
      BY <2>2, <3>1, <3>2, <3>4
  <2>4. CASE ~(bond = trade[t].bond /\ book = trade[t].book)
    <3>1. Cell(booked, bond, book) = Cell(booked \ {trade[t]}, bond, book)
      BY <2>4 DEF Cell
    <3>2. Current(bond)'[book] = Current(bond)[book]
      BY <1>4, <2>1, <2>4 DEF UpdatePosition, Positions, Bond
    <3> QED
      BY <2>2, <3>1, <3>2
  <2> QED
    BY <2>3, <2>4
<1> QED
  BY <1>3, <1>5 DEF LedgerAddsUp

LEMMA MatchStep ==
    ASSUME TypeOK, SerialInv, MatchInv, NEW t \in Threads, OthersIdle(t), Step(t)
    PROVE  MatchInv'
<1>1. \A v \in Threads \ {t} : pc'[v] \in Idle
  BY OneChainStep
<1>2. UNCHANGED <<positionMap, booked \ InFlight>> => LedgerAddsUp'
  BY DEF MatchInv, LedgerAddsUp, Current
<1>3. CASE ReadTrade(t) \/ BookExecution(t)
  <2>1. /\ booked' = booked \cup {trade'[t]}
        /\ \A tr \in booked : tr.id # trade'[t].id
        /\ Unstored = {} /\ Unstored' = {trade'[t]} /\ tradeMap' = tradeMap
    BY <1>1, <1>3, FreshTrade, UnstoredOf, UnstoredNext
  <2>2. TradesStored'
    BY <2>1 DEF TradesStored, MatchInv
  <2>3. IsFiniteSet(booked')
    BY <2>1, FS_AddElement DEF MatchInv
  <2>4. LedgerAddsUp'
    BY <1>1, <1>2, <1>3, HandOverStutters
  <2> QED
    BY <2>2, <2>3, <2>4 DEF MatchInv
<1>4. CASE BookTrade(t)
  <2>1. /\ Unstored = {trade[t]} /\ Unstored' = {} /\ booked' = booked
        /\ tradeMap' = AddData(tradeMap, trade[t].id, trade[t])
        /\ trade[t] \in booked
    <3>1. /\ pc[t] = "bookTrade" /\ pc'[t] = "addTrade" /\ booked' = booked
          /\ tradeMap' = AddData(tradeMap, trade[t].id, trade[t])
      BY <1>4 DEF BookTrade, Goto, feeds, TypeOK
    <3>2. trade[t] \in booked
      BY <3>1 DEF SerialInv, HandedOverOnce, Idle
    <3> QED
      BY <1>1, <3>1, <3>2, UnstoredOf, UnstoredNext
  <2>2. trade[t].id \notin DOMAIN tradeMap
    <3> SUFFICES ASSUME trade[t].id \in DOMAIN tradeMap PROVE FALSE
      OBVIOUS
    <3>1. tradeMap[trade[t].id] \in booked \ {trade[t]}
      BY <2>1 DEF MatchInv, TradesStored, Range
    <3> QED
      BY <2>1, <3>1 DEF MatchInv, TradesStored
  <2>3. Range(tradeMap') = Range(tradeMap) \cup {trade[t]}
    BY <2>1, <2>2 DEF AddData, Range
  <2>4. \A id \in DOMAIN tradeMap' : tradeMap'[id].id = id
    BY <2>1, <2>2 DEF AddData, MatchInv, TradesStored
  <2>5. TradesStored'
    BY <2>1, <2>3, <2>4 DEF MatchInv, TradesStored
  <2>6. LedgerAddsUp'
    BY <1>1, <1>2, <1>4, ChainStutters
  <2> QED
    BY <2>1, <2>5, <2>6 DEF MatchInv
<1>5. ASSUME \/ InsertPosition(t) \/ UpdateExistingPosition(t)
             \/ StopReading(t) \/ AddTrade(t) \/ OnPosition(t)
             \/ PersistPosition(t) \/ OnRisk(t) \/ InsertRisk(t) \/ UpdateRisk(t)
             \/ PersistRisk(t) \/ GetBucketedRisk(t) \/ OnMessageBucket(t) \/ PersistBucket(t)
      PROVE  MatchInv'
  <2>1. UNCHANGED <<booked, tradeMap>> /\ pc[t] # "bookTrade" /\ pc'[t] # "bookTrade"
    BY <1>5 DEF InsertPosition, UpdateExistingPosition, StopReading, AddTrade, OnPosition,
       PersistPosition, OnRisk, InsertRisk, UpdateRisk, PersistRisk, GetBucketedRisk,
       OnMessageBucket, PersistBucket, Goto, feeds, services, TypeOK
  <2>2. TradesStored'
    BY <1>1, <2>1, UnstoredOf, UnstoredNext DEF MatchInv, TradesStored
  <2>3. LedgerAddsUp'
    BY <1>1, <1>2, <1>5, ChainStutters, StoreAddsUp
  <2> QED
    BY <2>1, <2>2, <2>3 DEF MatchInv
<1> QED
  BY <1>3, <1>4, <1>5 DEF Step, Chain

\* A thread that stops reading, and a program that has ended, leave the trades alone.
LEMMA MatchStop ==
    ASSUME TypeOK, SerialInv, MatchInv,
           (\E t \in Threads : StopReading(t)) \/ UNCHANGED vars
    PROVE  MatchInv'
<1>1. UNCHANGED <<positionMap, booked, InFlight>>
  BY StopKeepsInv DEF vars, feeds, services, locals, InFlight
<1>2. UNCHANGED <<tradeMap, trade>>
  BY DEF StopReading, vars, services, locals
<1>3. \A v \in Threads : pc'[v] = "bookTrade" <=> pc[v] = "bookTrade"
  BY DEF StopReading, vars, Goto, TypeOK
<1>4. Unstored' = Unstored
  BY <1>2, <1>3 DEF Unstored
<1> QED
  BY <1>1, <1>2, <1>4 DEF MatchInv, LedgerAddsUp, TradesStored, Current

\* When the feeds do not overlap, between messages the position of every bond in every
\* book is the signed sum of the booked trades of that bond and book.
THEOREM SerialPositions == SerialSpec => []PositionsMatchTrades
<1>1. Init => MatchInv
  <2> SUFFICES ASSUME Init PROVE MatchInv
    OBVIOUS
  <2>1. booked = {} /\ tradeMap = EmptyMap /\ positionMap = EmptyMap
    BY DEF Init
  <2>2. \A bond, book : Cell(booked \ InFlight, bond, book) = {}
    BY <2>1 DEF Cell
  <2>3. LedgerAddsUp
    BY <2>1, <2>2, SumOfNone DEF LedgerAddsUp, Current, ExistingData, EmptyMap, NewPosition
  <2> QED
    BY <2>1, <2>3, FS_EmptySet DEF MatchInv, TradesStored, Range, EmptyMap
<1>2. TypeOK /\ SerialInv /\ MatchInv /\ [SerialNext]_vars => MatchInv'
  BY MatchStep, MatchStop DEF SerialNext, SerialStep, Terminating
<1>3. MatchInv => PositionsMatchTrades
  <2> SUFFICES ASSUME MatchInv, Quiescent, NEW bond \in Bonds, NEW book \in Books
               PROVE  (IF ExistingData(positionMap, bond) THEN positionMap[bond][book] ELSE 0)
                         = SignedSum({tr \in Range(tradeMap) : tr.bond = bond /\ tr.book = book})
    BY DEF PositionsMatchTrades
  <2>1. InFlight = {} /\ Unstored = {}
    BY DEF Quiescent, Idle, InFlight, Unstored
  <2>2. Current(bond)[book] = SignedSum(Cell(Range(tradeMap), bond, book))
    BY <2>1 DEF MatchInv, LedgerAddsUp, TradesStored
  <2> QED
    BY <2>2 DEF Cell, Current, NewPosition
<1> QED
  BY <1>1, <1>2, <1>3, SerialInvariant, PTL DEF SerialSpec

-----------------------------------------------------------------------------
(* The risk file: its lines follow riskMap, and GetBucketedRisk's loop     *)
(* gathers what riskMap holds.                                             *)

BucketSteps == {"bucketRisk", "onBucket", "persistBucket"}

\* The products GetBucketedRisk's loop has passed.
Seen(t) == {GetProducts[Sector(t)][i] : i \in 1 .. cursor[t] - 1}

RiskOf(bonds) == [bond \in bonds |-> riskMap[bond]]

Held(sector) == {bond \in DOMAIN riskMap : bond2bucketmap[bond] = sector}

\* The loop has gathered the risk of every product it has passed, as it is now.
BucketFollows ==
    \A t \in Threads :
        /\ pc[t] \notin BucketSteps => bucket[t] = EmptyMap /\ cursor[t] = 1
        /\ pc[t] \in BucketSteps =>
              /\ cursor[t] <= Len(GetProducts[Sector(t)]) + 1
              /\ bucket[t] = RiskOf(Seen(t) \cap DOMAIN riskMap)
        /\ pc[t] \in {"onBucket", "persistBucket"} => cursor[t] = Len(GetProducts[Sector(t)]) + 1

\* A line of risk.txt is behind only while a thread is about to write it.
LinesFollow ==
    /\ \A t \in Threads : pc[t] = "persistRisk" =>
          ExistingData(riskMap, Bond(t)) /\ riskMap[Bond(t)] = RiskQuantity(t)
    /\ \A bond \in DOMAIN riskMap :
          (\A t \in Threads : pc[t] = "persistRisk" => Bond(t) # bond) =>
              ExistingData(riskFile, bond) /\ riskFile[bond] = BondRisk(bond, riskMap[bond])
    /\ \A sector \in Sectors :
          /\ \A t \in Threads : pc[t] \in BucketSteps \cup {"persistRisk"} => Sector(t) # sector
          /\ Held(sector) # {}
          => /\ ExistingData(riskFile, sector)
             /\ riskFile[sector] = BucketedRisk(RiskOf(Held(sector)))

FileInv == BucketFollows /\ LinesFollow

\* The bond and the sector of a call chain are products, and different ones.
LEMMA ChainProducts ==
    ASSUME TypeOK, NEW t \in Threads, pc[t] \notin Idle
    PROVE  /\ Bond(t) \in Bonds /\ Sector(t) \in Sectors /\ Bond(t) \notin Sectors
           /\ GetProducts[Sector(t)] \in Seq(Bonds)
           /\ Range(GetProducts[Sector(t)]) = {bond \in Bonds : bond2bucketmap[bond] = Sector(t)}
<1>1. Bond(t) \in Bonds
  BY TradeType DEF TypeOK, Bond
<1>2. Sector(t) \in Sectors
  BY <1>1, UniverseAssumption DEF Sector
<1> QED
  BY <1>1, <1>2, UniverseAssumption

LEMMA Lines ==
    ASSUME NEW file, NEW product, NEW line, NEW p
    PROVE  /\ ExistingData(WriteLine(file, product, line), p) <=> p = product \/ ExistingData(file, p)
           /\ p = product => WriteLine(file, product, line)[p] = line
           /\ p # product /\ ExistingData(file, p) => WriteLine(file, product, line)[p] = file[p]
BY DEF WriteLine, ExistingData

\* What a line of risk.txt says.
LEMMA RiskParts ==
    /\ \A bond, quantity : /\ BondRisk(bond, quantity)["quantity"] = quantity
                          /\ BondRisk(bond, quantity)["weighted"] = quantity * PV01map[bond]
    /\ \A q : /\ BucketedRisk(q).quantity = SumFunction(q)
              /\ BucketedRisk(q).weighted =
                    IF SumFunction(q) = 0 THEN 0
                    ELSE SumFunction([bond \in DOMAIN q |-> q[bond] * PV01map[bond]])
<1>1. ASSUME NEW bond, NEW quantity
      PROVE  /\ BondRisk(bond, quantity)["quantity"] = quantity
             /\ BondRisk(bond, quantity)["weighted"] = quantity * PV01map[bond]
  BY DEF BondRisk
<1>2. ASSUME NEW q
      PROVE  /\ BucketedRisk(q).quantity = SumFunction(q)
             /\ BucketedRisk(q).weighted =
                   IF SumFunction(q) = 0 THEN 0
                   ELSE SumFunction([bond \in DOMAIN q |-> q[bond] * PV01map[bond]])
  BY DEF BucketedRisk
<1> QED
  BY <1>1, <1>2

\* Steps that touch neither risk nor its file, outside of the steps that write it.
LEMMA QuietFile ==
    ASSUME FileInv, NEW t \in Threads, OthersIdle(t),
           \A v \in Threads \ {t} : pc'[v] \in Idle /\ bucket'[v] = bucket[v] /\ cursor'[v] = cursor[v],
           UNCHANGED <<riskMap, riskFile>>, bucket'[t] = bucket[t], cursor'[t] = cursor[t],
           pc[t] \notin BucketSteps \cup {"persistRisk"},
           pc'[t] \notin BucketSteps \cup {"persistRisk"}
    PROVE  FileInv'
<1>1. \A v \in Threads : /\ pc[v] \notin BucketSteps \cup {"persistRisk"}
                         /\ pc'[v] \notin BucketSteps \cup {"persistRisk"}
  BY DEF OthersIdle, Idle, BucketSteps
<1>2. BucketFollows'
  BY <1>1 DEF FileInv, BucketFollows, BucketSteps
<1>3. \A sector : Held(sector)' = Held(sector) /\ RiskOf(Held(sector))' = RiskOf(Held(sector))
  BY DEF Held, RiskOf
<1>4. LinesFollow'
  BY <1>1, <1>3 DEF FileInv, LinesFollow
<1> QED
  BY <1>2, <1>4 DEF FileInv

\* Storing a risk puts the lines of its bond and its sector behind.
LEMMA StoreRiskFile ==
    ASSUME TypeOK, SerialInv, FileInv, NEW t \in Threads, OthersIdle(t),
           \A v \in Threads \ {t} : pc'[v] \in Idle,
           InsertRisk(t) \/ UpdateRisk(t)
    PROVE  FileInv'
<1>1. /\ UNCHANGED <<riskFile, trade, position, bucket, cursor>>
      /\ pc[t] \in {"insertRisk", "updateRisk"} /\ pc'[t] = "persistRisk"
  BY DEF InsertRisk, UpdateRisk, locals, files, Goto, TypeOK
<1>2. /\ DOMAIN riskMap' = DOMAIN riskMap \cup {Bond(t)}
      /\ riskMap'[Bond(t)] = RiskQuantity(t)
      /\ \A bond \in DOMAIN riskMap \ {Bond(t)} : riskMap'[bond] = riskMap[bond]
  <2>1. CASE InsertRisk(t)
    BY <2>1 DEF InsertRisk, AddData, ExistingData, SerialInv, NoStaleRead
  <2>2. CASE UpdateRisk(t)
    <3>1. ExistingData(riskMap, Bond(t))
      BY <2>2 DEF UpdateRisk, SerialInv, NoStaleRead
    <3>2. riskMap' = UpdateData(riskMap, Bond(t), RiskQuantity(t))
      BY <2>2, <3>1, SerialReads DEF UpdateRisk
    <3> QED
      BY <3>1, <3>2 DEF UpdateData, ExistingData
  <2> QED
    BY <2>1, <2>2
<1>3. \A v \in Threads \ {t} : /\ pc[v] \notin BucketSteps \cup {"persistRisk"}
                               /\ pc'[v] \notin BucketSteps \cup {"persistRisk"}
  BY DEF OthersIdle, Idle, BucketSteps
<1>4. pc[t] \notin BucketSteps \cup {"persistRisk"} /\ pc'[t] \notin BucketSteps
  BY <1>1 DEF BucketSteps
<1>5. BucketFollows'
  BY <1>1, <1>3, <1>4 DEF FileInv, BucketFollows, BucketSteps
<1>6. Bond(t)' = Bond(t) /\ Sector(t)' = Sector(t) /\ RiskQuantity(t)' = RiskQuantity(t)
  BY <1>1 DEF Bond, Sector, RiskQuantity
<1>7. ASSUME NEW sector \in Sectors, sector # Sector(t)
      PROVE  Held(sector)' = Held(sector) /\ RiskOf(Held(sector))' = RiskOf(Held(sector))
  BY <1>2, <1>7 DEF Held, RiskOf, Sector
<1>8. LinesFollow'
  <2>1. \A v \in Threads : pc'[v] = "persistRisk" =>
           (ExistingData(riskMap, Bond(v)) /\ riskMap[Bond(v)] = RiskQuantity(v))'
    BY <1>2, <1>3, <1>6 DEF ExistingData
  <2>2. \A bond \in DOMAIN riskMap' : bond # Bond(t) =>
           ExistingData(riskFile', bond) /\ riskFile'[bond] = BondRisk(bond, riskMap'[bond])
    BY <1>1, <1>2, <1>3, <1>4 DEF FileInv, LinesFollow
  <2>3. ASSUME NEW sector \in Sectors, sector # Sector(t), Held(sector)' # {}
        PROVE  (/\ ExistingData(riskFile, sector)
                /\ riskFile[sector] = BucketedRisk(RiskOf(Held(sector))))'
    BY <1>1, <1>3, <1>4, <1>7, <2>3 DEF FileInv, LinesFollow
  <2> QED
    BY <1>1, <1>6, <2>1, <2>2, <2>3 DEF LinesFollow
<1> QED
  BY <1>5, <1>8 DEF FileInv

\* The bond's line is written; the loop starts with nothing gathered.
LEMMA PersistRiskFile ==
    ASSUME TypeOK, FileInv, NEW t \in Threads, OthersIdle(t),
           \A v \in Threads \ {t} : pc'[v] \in Idle,
           PersistRisk(t)
    PROVE  FileInv'
<1>1. /\ UNCHANGED <<riskMap, trade, position, bucket, cursor>>
      /\ pc[t] = "persistRisk" /\ pc'[t] = "bucketRisk"
      /\ riskFile' = WriteLine(riskFile, Bond(t), BondRisk(Bond(t), RiskQuantity(t)))
  BY DEF PersistRisk, WriteRisk, locals, services, Goto, TypeOK
<1>2. Bond(t) \in Bonds /\ Sector(t) \in Sectors /\ Bond(t) \notin Sectors
      /\ GetProducts[Sector(t)] \in Seq(Bonds)
  BY <1>1, ChainProducts DEF Idle
<1>3. \A v \in Threads \ {t} : /\ pc[v] \notin BucketSteps \cup {"persistRisk"}
                               /\ pc'[v] \notin BucketSteps \cup {"persistRisk"}
  BY DEF OthersIdle, Idle, BucketSteps
<1>4. Bond(t)' = Bond(t) /\ Sector(t)' = Sector(t) /\ Seen(t)' = Seen(t)
  BY <1>1 DEF Bond, Sector, Seen
<1>5. bucket[t] = EmptyMap /\ cursor[t] = 1
  BY <1>1 DEF FileInv, BucketFollows, BucketSteps
<1>6. BucketFollows'
  <2>1. Seen(t) = {}
    BY <1>5 DEF Seen
  <2>2. RiskOf(Seen(t) \cap DOMAIN riskMap)' = EmptyMap
    BY <1>1, <1>4, <2>1 DEF RiskOf, EmptyMap
  <2>3. (cursor[t] <= Len(GetProducts[Sector(t)]) + 1)'
    BY <1>1, <1>2, <1>4, <1>5
  <2>4. bucket'[t] = EmptyMap
    BY <1>1, <1>5
  <2> QED
    BY <1>1, <1>3, <2>2, <2>3, <2>4 DEF FileInv, BucketFollows, BucketSteps
<1>7. \A sector : Held(sector)' = Held(sector) /\ RiskOf(Held(sector))' = RiskOf(Held(sector))
  BY <1>1 DEF Held, RiskOf
<1>8. LinesFollow'
  <2>1. \A v \in Threads : pc'[v] # "persistRisk"
    BY <1>1, <1>3
  <2>2. ASSUME NEW bond \in DOMAIN riskMap
        PROVE  ExistingData(riskFile', bond) /\ riskFile'[bond] = BondRisk(bond, riskMap[bond])
    <3>1. CASE bond = Bond(t)
      BY <1>1, <3>1, Lines DEF FileInv, LinesFollow
    <3>2. CASE bond # Bond(t)
      <4>1. ExistingData(riskFile, bond) /\ riskFile[bond] = BondRisk(bond, riskMap[bond])
        BY <1>3, <3>2 DEF FileInv, LinesFollow
      <4> QED
        BY <1>1, <3>2, <4>1, Lines
    <3> QED
      BY <3>1, <3>2
  <2>3. ASSUME NEW sector \in Sectors, sector # Sector(t), Held(sector) # {}
        PROVE  /\ ExistingData(riskFile', sector)
               /\ riskFile'[sector] = BucketedRisk(RiskOf(Held(sector)))
    <3>1. ExistingData(riskFile, sector) /\ riskFile[sector] = BucketedRisk(RiskOf(Held(sector)))
      BY <1>3, <2>3 DEF FileInv, LinesFollow
    <3> QED
      BY <1>1, <1>2, <3>1, Lines
  <2>4. pc'[t] \in BucketSteps
    BY <1>1 DEF BucketSteps
  <2> QED
    BY <1>1, <1>4, <1>7, <2>1, <2>2, <2>3, <2>4 DEF LinesFollow
<1> QED
  BY <1>6, <1>8 DEF FileInv

\* One turn of the loop, or its end.
LEMMA BucketTurn ==
    ASSUME TypeOK, FileInv, NEW t \in Threads, OthersIdle(t),
           \A v \in Threads \ {t} : pc'[v] \in Idle,
           GetBucketedRisk(t) \/ OnMessageBucket(t)
    PROVE  FileInv'
<1>1. UNCHANGED <<riskMap, riskFile, trade>>
  BY DEF GetBucketedRisk, OnMessageBucket, locals, services, files
<1>2. pc[t] \in BucketSteps /\ pc'[t] \in BucketSteps
  BY DEF GetBucketedRisk, OnMessageBucket, Goto, TypeOK, BucketSteps
<1>3. \A v \in Threads \ {t} : /\ pc[v] \notin BucketSteps \cup {"persistRisk"}
                               /\ pc'[v] \notin BucketSteps \cup {"persistRisk"}
                               /\ bucket'[v] = bucket[v] /\ cursor'[v] = cursor[v]
  BY DEF OthersIdle, Idle, BucketSteps, GetBucketedRisk, OnMessageBucket, locals, TypeOK
<1>4. Bond(t)' = Bond(t) /\ Sector(t)' = Sector(t)
  BY <1>1 DEF Bond, Sector
<1>5. GetProducts[Sector(t)] \in Seq(Bonds)
  BY <1>2, ChainProducts DEF Idle, BucketSteps
<1>6. LinesFollow'
  <2>1. \A sector : Held(sector)' = Held(sector) /\ RiskOf(Held(sector))' = RiskOf(Held(sector))
    BY <1>1 DEF Held, RiskOf
  <2>2. pc[t] # "persistRisk" /\ pc'[t] # "persistRisk"
    BY <1>2 DEF BucketSteps
  <2> QED
    BY <1>1, <1>2, <1>3, <1>4, <2>1, <2>2 DEF FileInv, LinesFollow
<1>7. /\ cursor[t] \in Nat \ {0} /\ cursor[t] <= Len(GetProducts[Sector(t)]) + 1
      /\ bucket[t] = RiskOf(Seen(t) \cap DOMAIN riskMap)
  BY <1>2 DEF FileInv, BucketFollows, TypeOK
<1>8. /\ cursor'[t] <= Len(GetProducts[Sector(t)]) + 1
      /\ bucket'[t] = RiskOf(Seen(t)' \cap DOMAIN riskMap)
      /\ pc'[t] \in {"onBucket", "persistBucket"} => cursor'[t] = Len(GetProducts[Sector(t)]) + 1
  <2>1. CASE GetBucketedRisk(t) /\ MoreProducts(t)
    <3>1. PICK found \in Find(t, riskMap, Product(t)) :
            bucket' = IF found
                      THEN [bucket EXCEPT ![t] = WriteLine(@, Product(t), riskMap[Product(t)])]
                      ELSE bucket
      BY <2>1 DEF GetBucketedRisk
    <3>2. found <=> Product(t) \in DOMAIN riskMap
      BY <3>1, SerialReads DEF ExistingData
    <3>3. cursor'[t] = cursor[t] + 1 /\ pc'[t] = "bucketRisk"
      BY <2>1 DEF GetBucketedRisk, TypeOK
    <3>4. cursor'[t] <= Len(GetProducts[Sector(t)]) + 1
      BY <1>5, <1>7, <2>1, <3>3 DEF MoreProducts
    <3>5. Seen(t)' = Seen(t) \cup {Product(t)}
      <4>1. 1 .. cursor'[t] - 1 = (1 .. cursor[t] - 1) \cup {cursor[t]}
        BY <1>7, <3>3
      <4> QED
        BY <1>4, <4>1 DEF Seen, Product
    <3>6. bucket'[t] = RiskOf(Seen(t)' \cap DOMAIN riskMap)
      <4>1. CASE found
        <5>1. bucket'[t] = WriteLine(bucket[t], Product(t), riskMap[Product(t)])
          BY <3>1, <4>1 DEF TypeOK
        <5>2. (Seen(t) \cup {Product(t)}) \cap DOMAIN riskMap
                 = (Seen(t) \cap DOMAIN riskMap) \cup {Product(t)}
          BY <3>2, <4>1
        <5> QED
          BY <1>7, <3>5, <5>1, <5>2 DEF WriteLine, RiskOf
      <4>2. CASE ~found
        <5>1. bucket' = bucket
          BY <3>1, <4>2
        <5>2. (Seen(t) \cup {Product(t)}) \cap DOMAIN riskMap = Seen(t) \cap DOMAIN riskMap
          BY <3>2, <4>2
        <5> QED
          BY <1>7, <3>5, <5>1, <5>2
      <4> QED
        BY <4>1, <4>2
    <3> QED
      BY <3>3, <3>4, <3>6
  <2>2. CASE GetBucketedRisk(t) /\ ~MoreProducts(t)
    <3>1. UNCHANGED <<bucket, cursor>> /\ cursor[t] = Len(GetProducts[Sector(t)]) + 1
      BY <1>5, <1>7, <2>2 DEF GetBucketedRisk, MoreProducts
    <3>2. Seen(t)' = Seen(t)
      BY <1>4, <3>1 DEF Seen
    <3> QED
      BY <1>7, <3>1, <3>2
  <2>3. CASE OnMessageBucket(t)
    <3>1. UNCHANGED <<bucket, cursor>> /\ cursor[t] = Len(GetProducts[Sector(t)]) + 1
      BY <2>3 DEF OnMessageBucket, locals, FileInv, BucketFollows
    <3>2. Seen(t)' = Seen(t)
      BY <1>4, <3>1 DEF Seen
    <3> QED
      BY <1>7, <3>1, <3>2
  <2> QED
    BY <2>1, <2>2, <2>3
<1>9. BucketFollows'
  <2>1. RiskOf(Seen(t) \cap DOMAIN riskMap)' = RiskOf(Seen(t)' \cap DOMAIN riskMap)
    BY <1>1 DEF RiskOf
  <2> QED
    BY <1>2, <1>3, <1>4, <1>8, <2>1 DEF FileInv, BucketFollows, BucketSteps
<1> QED
  BY <1>6, <1>9 DEF FileInv

\* The sector's line is written from the risk of all its bonds.
LEMMA PersistBucketFile ==
    ASSUME TypeOK, FileInv, NEW t \in Threads, OthersIdle(t),
           \A v \in Threads \ {t} : pc'[v] \in Idle,
           PersistBucket(t)
    PROVE  FileInv'
<1>1. /\ riskMap' = riskMap
      /\ pc[t] = "persistBucket" /\ pc'[t] = "read"
      /\ riskFile' = WriteLine(riskFile, Sector(t), BucketedRisk(bucket[t]))
      /\ bucket'[t] = EmptyMap /\ cursor'[t] = 1
      /\ \A v \in Threads \ {t} : bucket'[v] = bucket[v] /\ cursor'[v] = cursor[v]
  BY DEF PersistBucket, WriteRisk, Return, services, Goto, TypeOK
<1>2. /\ Sector(t) \in Sectors /\ GetProducts[Sector(t)] \in Seq(Bonds)
      /\ Range(GetProducts[Sector(t)]) = {bond \in Bonds : bond2bucketmap[bond] = Sector(t)}
  BY <1>1, ChainProducts DEF Idle
<1>3. \A v \in Threads \ {t} : /\ pc[v] \notin BucketSteps \cup {"persistRisk"}
                               /\ pc'[v] \notin BucketSteps \cup {"persistRisk"}
  BY DEF OthersIdle, Idle, BucketSteps
<1>4. pc'[t] \notin BucketSteps \cup {"persistRisk"} /\ pc[t] # "persistRisk"
  BY <1>1 DEF BucketSteps
<1>5. BucketFollows'
  BY <1>1, <1>3, <1>4 DEF FileInv, BucketFollows, BucketSteps
<1>6. bucket[t] = RiskOf(Held(Sector(t)))
  <2>1. cursor[t] = Len(GetProducts[Sector(t)]) + 1
        /\ bucket[t] = RiskOf(Seen(t) \cap DOMAIN riskMap)
    BY <1>1 DEF FileInv, BucketFollows, BucketSteps
  <2>2. Seen(t) = Range(GetProducts[Sector(t)])
    <3>1. 1 .. cursor[t] - 1 = DOMAIN GetProducts[Sector(t)]
      BY <1>2, <2>1
    <3> QED
      BY <3>1 DEF Seen, Range
  <2>3. Seen(t) \cap DOMAIN riskMap = Held(Sector(t))
    BY <1>2, <2>2 DEF Held, TypeOK
  <2> QED
    BY <2>1, <2>3
<1>7. \A sector : Held(sector)' = Held(sector) /\ RiskOf(Held(sector))' = RiskOf(Held(sector))
  BY <1>1 DEF Held, RiskOf
<1>8. LinesFollow'
  <2>1. ASSUME NEW bond \in DOMAIN riskMap
        PROVE  ExistingData(riskFile', bond) /\ riskFile'[bond] = BondRisk(bond, riskMap[bond])
    <3>1. ExistingData(riskFile, bond) /\ riskFile[bond] = BondRisk(bond, riskMap[bond])
      BY <1>3, <1>4 DEF FileInv, LinesFollow
    <3>2. bond # Sector(t)
      BY <1>2, UniverseAssumption DEF TypeOK
    <3> QED
      BY <1>1, <3>1, <3>2, Lines
  <2>2. ASSUME NEW sector \in Sectors, Held(sector) # {}
        PROVE  /\ ExistingData(riskFile', sector)
               /\ riskFile'[sector] = BucketedRisk(RiskOf(Held(sector)))
    <3>1. CASE sector = Sector(t)
      BY <1>1, <1>6, <3>1, Lines
    <3>2. CASE sector # Sector(t)
      <4>1. ExistingData(riskFile, sector) /\ riskFile[sector] = BucketedRisk(RiskOf(Held(sector)))
        BY <1>3, <2>2, <3>2 DEF FileInv, LinesFollow
      <4> QED
        BY <1>1, <3>2, <4>1, Lines
    <3> QED
      BY <3>1, <3>2
  <2> QED
    BY <1>1, <1>3, <1>4, <1>7, <2>1, <2>2 DEF LinesFollow
<1> QED
  BY <1>5, <1>8 DEF FileInv

LEMMA FileStep ==
    ASSUME TypeOK, SerialInv, FileInv, NEW t \in Threads, OthersIdle(t), Step(t)
    PROVE  FileInv'
<1>1. \A v \in Threads \ {t} : pc'[v] \in Idle
  BY OneChainStep
<1>2. CASE InsertRisk(t) \/ UpdateRisk(t)
  BY <1>1, <1>2, StoreRiskFile
<1>3. CASE PersistRisk(t)
  BY <1>1, <1>3, PersistRiskFile
<1>4. CASE GetBucketedRisk(t) \/ OnMessageBucket(t)
  BY <1>1, <1>4, BucketTurn
<1>5. CASE PersistBucket(t)
  BY <1>1, <1>5, PersistBucketFile
<1>6. CASE \/ ReadTrade(t) \/ BookExecution(t) \/ StopReading(t) \/ BookTrade(t) \/ AddTrade(t)
           \/ OnPosition(t) \/ InsertPosition(t) \/ UpdateExistingPosition(t)
           \/ PersistPosition(t) \/ OnRisk(t)
  <2>1. UNCHANGED <<riskMap, riskFile, bucket, cursor>>
    BY <1>6 DEF ReadTrade, BookExecution, HandOver, StopReading, BookTrade, AddTrade,
       OnPosition, InsertPosition, UpdateExistingPosition, PersistPosition, OnRisk,
       services, files, locals
  <2>2. pc[t] \notin BucketSteps \cup {"persistRisk"}
    BY <1>6 DEF ReadTrade, BookExecution, StopReading, BookTrade, AddTrade, OnPosition,
       InsertPosition, UpdateExistingPosition, PersistPosition, OnRisk, BucketSteps
  <2>3. pc'[t] \notin BucketSteps \cup {"persistRisk"}
    BY <1>6 DEF ReadTrade, BookExecution, HandOver, StopReading, BookTrade, AddTrade,
       OnPosition, InsertPosition, UpdateExistingPosition, PersistPosition, OnRisk, Goto,
       BucketSteps, TypeOK
  <2> QED
    BY <1>1, <2>1, <2>2, <2>3, QuietFile
<1> QED
  BY <1>2, <1>3, <1>4, <1>5, <1>6 DEF Step, Chain

LEMMA FileStop ==
    ASSUME TypeOK, FileInv, (\E t \in Threads : StopReading(t)) \/ UNCHANGED vars
    PROVE  FileInv'
<1>1. UNCHANGED <<riskMap, riskFile, trade, position, bucket, cursor>>
  BY DEF StopReading, vars, services, files, locals
<1>2. \A v \in Threads : pc'[v] = pc[v] \/ (pc[v] = "read" /\ pc'[v] = "stopped")
  BY DEF StopReading, vars, Goto, TypeOK
<1>3. \A v \in Threads : /\ pc'[v] = "persistRisk" <=> pc[v] = "persistRisk"
                         /\ pc'[v] \in BucketSteps <=> pc[v] \in BucketSteps
                         /\ pc'[v] \in {"onBucket", "persistBucket"}
                               => pc[v] \in {"onBucket", "persistBucket"}
                         /\ Bond(v)' = Bond(v) /\ Sector(v)' = Sector(v) /\ Seen(v)' = Seen(v)
                         /\ RiskQuantity(v)' = RiskQuantity(v)
  BY <1>1, <1>2 DEF BucketSteps, Bond, Sector, Seen, RiskQuantity
<1>4. \A bonds : RiskOf(bonds)' = RiskOf(bonds)
  BY <1>1 DEF RiskOf
<1>5. BucketFollows'
  BY <1>1, <1>3, <1>4 DEF FileInv, BucketFollows
<1>6. \A sector : Held(sector)' = Held(sector)
  BY <1>1 DEF Held
<1>7. LinesFollow'
  BY <1>1, <1>3, <1>4, <1>6 DEF FileInv, LinesFollow
<1> QED
  BY <1>5, <1>7 DEF FileInv

\* When the feeds do not overlap, between messages the last lines of risk.txt are those
\* of the current positions, bond by bond and sector by sector: nothing the loop over a
\* sector's products has gathered goes stale before its line is written.
THEOREM SerialRiskFile == SerialSpec => []RiskFileCurrent
<1>1. Init => FileInv
  <2> SUFFICES ASSUME Init PROVE FileInv
    OBVIOUS
  <2>1. \A t \in Threads : pc[t] \notin BucketSteps \cup {"persistRisk"}
    BY DEF Init, BucketSteps
  <2>2. BucketFollows
    BY <2>1 DEF Init, BucketFollows, BucketSteps
  <2>3. DOMAIN riskMap = {}
    BY DEF Init, EmptyMap
  <2> QED
    BY <2>1, <2>2, <2>3 DEF FileInv, LinesFollow, Held
<1>2. TypeOK /\ SerialInv /\ FileInv /\ [SerialNext]_vars => FileInv'
  BY FileStep, FileStop DEF SerialNext, SerialStep, Terminating
<1>3. TypeOK /\ FileInv /\ RiskTracksPosition => RiskFileCurrent
  <2> SUFFICES ASSUME TypeOK, FileInv, RiskTracksPosition, Quiescent
      PROVE /\ \A bond \in DOMAIN positionMap :
                 /\ ExistingData(riskFile, bond)
                 /\ riskFile[bond] = BondRisk(bond, GetAggregatePosition(positionMap[bond]))
            /\ \A sector \in Sectors : InSector(sector) # {} =>
                 /\ ExistingData(riskFile, sector)
                 /\ LET sum(part) ==
                           SumFunction([bond \in InSector(sector) |-> riskFile[bond][part]])
                    IN /\ riskFile[sector].quantity = sum("quantity")
                       /\ riskFile[sector].weighted =
                             IF sum("quantity") = 0 THEN 0 ELSE sum("weighted")
    BY DEF RiskFileCurrent
  <2>1. \A t \in Threads : pc[t] \notin BucketSteps \cup {"persistRisk"}
    BY DEF Quiescent, Idle, BucketSteps
  <2>2. \A bond \in DOMAIN riskMap :
          ExistingData(riskFile, bond) /\ riskFile[bond] = BondRisk(bond, riskMap[bond])
    BY <2>1 DEF FileInv, LinesFollow
  <2>3. DOMAIN riskMap = DOMAIN positionMap
        /\ \A bond \in DOMAIN riskMap : riskMap[bond] = GetAggregatePosition(positionMap[bond])
    BY DEF RiskTracksPosition
  <2>4. ASSUME NEW sector \in Sectors, InSector(sector) # {}
        PROVE  /\ ExistingData(riskFile, sector)
               /\ riskFile[sector] = BucketedRisk(RiskOf(InSector(sector)))
    <3>1. InSector(sector) = Held(sector)
      BY <2>3 DEF InSector, Held
    <3> QED
      BY <2>1, <2>4, <3>1 DEF FileInv, LinesFollow
  <2>5. ASSUME NEW sector \in Sectors
        PROVE  /\ RiskOf(InSector(sector)) =
                     [bond \in InSector(sector) |-> riskFile[bond]["quantity"]]
               /\ [bond \in DOMAIN RiskOf(InSector(sector)) |->
                     RiskOf(InSector(sector))[bond] * PV01map[bond]] =
                     [bond \in InSector(sector) |-> riskFile[bond]["weighted"]]
    <3>1. \A bond \in InSector(sector) :
            /\ riskFile[bond]["quantity"] = riskMap[bond]
            /\ riskFile[bond]["weighted"] = riskMap[bond] * PV01map[bond]
      <4> TAKE bond \in InSector(sector)
      <4>1. riskFile[bond] = BondRisk(bond, riskMap[bond])
        BY <2>2, <2>3 DEF InSector
      <4> QED
        BY <4>1, RiskParts
    <3>2. RiskOf(InSector(sector)) = [bond \in InSector(sector) |-> riskFile[bond]["quantity"]]
      BY <3>1 DEF RiskOf
    <3>3. [bond \in DOMAIN RiskOf(InSector(sector)) |->
              RiskOf(InSector(sector))[bond] * PV01map[bond]] =
              [bond \in InSector(sector) |-> riskFile[bond]["weighted"]]
      BY <3>1 DEF RiskOf
    <3> QED
      BY <3>2, <3>3
  <2>6. ASSUME NEW bond \in DOMAIN positionMap
        PROVE  /\ ExistingData(riskFile, bond)
               /\ riskFile[bond] = BondRisk(bond, GetAggregatePosition(positionMap[bond]))
    BY <2>2, <2>3
  <2>7. ASSUME NEW sector \in Sectors, InSector(sector) # {}
        PROVE  /\ ExistingData(riskFile, sector)
               /\ LET sum(part) ==
                         SumFunction([bond \in InSector(sector) |-> riskFile[bond][part]])
                  IN /\ riskFile[sector].quantity = sum("quantity")
                     /\ riskFile[sector].weighted =
                           IF sum("quantity") = 0 THEN 0 ELSE sum("weighted")
    <3> DEFINE held == RiskOf(InSector(sector))
               weights == [bond \in DOMAIN held |-> held[bond] * PV01map[bond]]
    <3>1. /\ held = [bond \in InSector(sector) |-> riskFile[bond]["quantity"]]
          /\ weights = [bond \in InSector(sector) |-> riskFile[bond]["weighted"]]
      BY <2>5
    <3>2. /\ ExistingData(riskFile, sector)
          /\ riskFile[sector].quantity = SumFunction(held)
          /\ riskFile[sector].weighted = IF SumFunction(held) = 0 THEN 0 ELSE SumFunction(weights)
      <4>1. riskFile[sector] = BucketedRisk(held) /\ ExistingData(riskFile, sector)
        BY <2>4, <2>7
      <4> HIDE DEF held
      <4> QED
        BY <4>1, RiskParts
    <3> HIDE DEF held, weights
    <3> QED
      BY <3>1, <3>2
  <2> QED
    BY <2>6, <2>7
<1> QED
  BY <1>1, <1>2, <1>3, SerialInvariant, SerialRisk, PTL DEF SerialSpec

-----------------------------------------------------------------------------
(* One feed.                                                               *)

\* With one provider not running, the other thread never leaves its read loop.
LEMMA OtherFeedIdle ==
    ASSUME TradeRows = {} \/ ExecutionOrders = {},
           TypeOK, NEW t \in Threads, Step(t) \/ \E u \in Threads : Race(t, u) \/ Race(u, t),
           NEW busy \in Threads, OthersIdle(busy),
           busy = IF TradeRows = {} THEN "marketdata_thread" ELSE "trades_thread"
    PROVE  OthersIdle(busy)' /\ SerialNext
<1>1. \A u \in Threads : ~DataRace(t, u) /\ ~DataRace(u, t)
  <2>1. CASE t = busy
    BY <2>1, NoRace
  <2>2. CASE t # busy
    <3>1. pc[t] \in Idle /\ Object(pc[t]) = "none"
      BY <2>2 DEF OthersIdle, Idle, Object
    <3> QED
      BY <3>1 DEF DataRace
  <2> QED
    BY <2>1, <2>2
<1>2. Step(t)
  BY <1>1 DEF Race, LostInsert, MixedUpdate, GarbledLine, Crash
<1>3. CASE t = busy
  BY <1>2, <1>3, StepFrame DEF OthersIdle, SerialNext, SerialStep
<1>4. CASE t # busy
  <2>1. pc[t] \in Idle
    BY <1>4 DEF OthersIdle
  <2>2. ~Chain(t)
    BY <2>1 DEF Idle, Chain, BookTrade, AddTrade, OnPosition, InsertPosition,
       UpdateExistingPosition, PersistPosition, OnRisk, InsertRisk, UpdateRisk, PersistRisk,
       GetBucketedRisk, OnMessageBucket, PersistBucket
  <2>3. ~ReadTrade(t) /\ ~BookExecution(t)
    BY <1>4 DEF ReadTrade, BookExecution, TypeOK, Threads
  <2>4. StopReading(t)
    BY <1>2, <2>2, <2>3 DEF Step
  <2>5. OthersIdle(busy)'
    BY <2>4 DEF StopReading, Goto, OthersIdle, TypeOK, Idle
  <2> QED
    BY <1>2, <2>4, <2>5 DEF SerialNext, SerialStep
<1> QED
  BY <1>3, <1>4

Busy == IF TradeRows = {} THEN "marketdata_thread" ELSE "trades_thread"

\* One provider is enough for the serial guarantees: if the trades feed delivers
\* nothing, or the market data feed leads to no order, the program is serial.
THEOREM OneFeedIsSerial ==
    ASSUME TradeRows = {} \/ ExecutionOrders = {}
    PROVE  Spec => SerialSpec
<1>1. Init => TypeOK /\ OthersIdle(Busy)
  BY TypeInit DEF Init, OthersIdle, Idle
<1>2. TypeOK /\ OthersIdle(Busy) /\ [Next]_vars =>
        TypeOK' /\ OthersIdle(Busy)' /\ [SerialNext]_vars
  <2> SUFFICES ASSUME TypeOK, OthersIdle(Busy), [Next]_vars
               PROVE  TypeOK' /\ OthersIdle(Busy)' /\ [SerialNext]_vars
    OBVIOUS
  <2>1. TypeOK'
    BY StepType, RaceType, StutterType DEF Next, Terminating
  <2>2. Busy \in Threads
    BY DEF Busy, Threads
  <2>3. CASE UNCHANGED vars
    BY <2>1, <2>3 DEF vars, OthersIdle
  <2>4. CASE (\E t \in Threads : Step(t)) \/ \E t, u \in Threads : Race(t, u)
    BY <2>1, <2>2, <2>4, OtherFeedIdle DEF Busy
  <2> QED
    BY <2>3, <2>4 DEF Next, Terminating
<1> QED
  BY <1>1, <1>2, PTL DEF Spec, SerialSpec
=============================================================================
