------------------------ MODULE BondExecution_proofs ------------------------
(***************************************************************************)
(* Theorems about BondExecution, for any order books and trading books, by *)
(* itself and as a part of BondTrading, and about BondTrading as a whole:  *)
(* each part is in it what its module says, and what the market hears of   *)
(* has been booked and its position filed.                                 *)
(***************************************************************************)
EXTENDS BondTrading, SetSums

-----------------------------------------------------------------------------
(* Type correctness.                                                       *)

\* GetCurrentBook stays inside the list of books.
LEMMA CurrentBookType ==
    ASSUME NEW i \in 0 .. Len(trading_books) - 1
    PROVE  /\ trading_books[i + 1] \in Range(trading_books)
           /\ NextBook(i) \in 0 .. Len(trading_books) - 1
<1>1. Len(trading_books) \in Nat /\ Len(trading_books) > 0
      /\ DOMAIN trading_books = 1 .. Len(trading_books)
  BY TradingBooksAssumption
<1>2. trading_books[i + 1] \in Range(trading_books)
  BY <1>1 DEF Range
<1> QED
  BY <1>1, <1>2 DEF NextBook

\* An order made from an order book, and the trade it becomes.
LEMMA OrderType ==
    ASSUME NEW book \in OrderBooks, NEW s \in {"BID", "OFFER"}, NEW id \in 1 .. MaxOrderBooks
    PROVE  NewOrder(book, s, id) \in Orders
BY DEF Orders

LEMMA TradeType ==
    ASSUME NEW o \in Orders, NEW book \in Range(trading_books)
    PROVE  TradeOf(o, book) \in Trades /\ TradeOf(o, book).order = o
BY DEF TradeOf, Trades

\* The keys of the services' maps.
LEMMA OrderKeys ==
    ASSUME NEW o \in Orders
    PROVE  o.id \in 1 .. MaxOrderBooks /\ o.bond \in Bonds
BY DEF Orders, NewOrder, Bonds

\* Adding to, or updating, a map of a service.
LEMMA MapType ==
    ASSUME NEW map, NEW Keys, NEW Data, NEW key \in Keys, NEW data \in Data,
           DOMAIN map \subseteq Keys, \A k \in DOMAIN map : map[k] \in Data
    PROVE  /\ DOMAIN AddData(map, key, data) \subseteq Keys
           /\ \A k \in DOMAIN AddData(map, key, data) : AddData(map, key, data)[k] \in Data
           /\ DOMAIN UpdateData(map, key, data) \subseteq Keys
           /\ \A k \in DOMAIN UpdateData(map, key, data) : UpdateData(map, key, data)[k] \in Data
BY DEF AddData, UpdateData

LEMMA InitType == Init => TypeOK
<1> SUFFICES ASSUME Init PROVE TypeOK
  OBVIOUS
<1>1. Len(trading_books) \in Nat /\ Len(trading_books) > 0
  BY TradingBooksAssumption
<1>2. /\ marketMap = EmptyMap /\ algoMap = EmptyMap /\ executionMap = EmptyMap
      /\ DOMAIN marketMap = {} /\ DOMAIN algoMap = {} /\ DOMAIN executionMap = {}
  BY DEF Init, EmptyMap
<1> QED
  BY <1>1, <1>2, BoundAssumption DEF Init, TypeOK, Calls

\* Every step keeps the types.
LEMMA NextType == TypeOK /\ [Next]_vars => TypeOK'
<1> SUFFICES ASSUME TypeOK, [Next]_vars PROVE TypeOK'
  OBVIOUS
<1> USE DEF Calls
<1>1. CASE OnMessage
  <2>1. PICK book \in OrderBooks :
           /\ orderbook' = book
           /\ marketMap' = IF ExistingData(marketMap, book.bond)
                           THEN UpdateData(marketMap, book.bond, book)
                           ELSE AddData(marketMap, book.bond, book)
    BY <1>1 DEF OnMessage
  <2>2. book.bond \in Bonds
    BY DEF Bonds
  <2>3. /\ DOMAIN marketMap' \subseteq Bonds
        /\ \A bond \in DOMAIN marketMap' : marketMap'[bond] \in OrderBooks
    BY <2>1, <2>2, MapType DEF TypeOK
  <2>4. unread' \in 0 .. MaxOrderBooks /\ unread' < MaxOrderBooks
    BY <1>1, BoundAssumption DEF OnMessage, TypeOK
  <2> QED
    BY <1>1, <2>1, <2>3, <2>4 DEF OnMessage, TypeOK, booking
<1>2. CASE StopReading
  BY <1>2 DEF StopReading, TypeOK, services, booking
<1>3. CASE AggressBook
  <2>1. CASE Tight(orderbook) /\ side' = Opposite(side)
             /\ order' = NewOrder(orderbook, side', MaxOrderBooks - unread)
             /\ pc' = "algoexec"
    <3>1. side' \in {"BID", "OFFER"}
      BY <2>1 DEF Opposite
    <3>2. orderbook \in OrderBooks /\ MaxOrderBooks - unread \in 1 .. MaxOrderBooks
      BY <1>3, BoundAssumption DEF AggressBook, TypeOK
    <3>3. order' \in Orders
      BY <2>1, <3>1, <3>2, OrderType
    <3> QED
      BY <1>3, <2>1, <3>1, <3>3 DEF AggressBook, TypeOK, booking
  <2>2. CASE pc' = "read" /\ UNCHANGED <<side, order>>
    BY <1>3, <2>2 DEF AggressBook, TypeOK, booking
  <2> QED
    BY <1>3, <2>1, <2>2 DEF AggressBook
<1>4. CASE OnMessageAlgo
  <2>1. order \in Orders
    BY <1>4 DEF OnMessageAlgo, TypeOK
  <2>2. /\ DOMAIN algoMap' \subseteq 1 .. MaxOrderBooks
        /\ \A id \in DOMAIN algoMap' : algoMap'[id] \in Orders
    BY <1>4, <2>1, OrderKeys, MapType DEF OnMessageAlgo, TypeOK
  <2> QED
    BY <1>4, <2>1, <2>2 DEF OnMessageAlgo, TypeOK, booking
<1>5. CASE ExecuteOrder
  <2>1. order \in Orders
    BY <1>5 DEF ExecuteOrder, TypeOK
  <2>2. /\ DOMAIN executionMap' \subseteq Bonds
        /\ \A bond \in DOMAIN executionMap' : executionMap'[bond] \in Orders
    BY <1>5, <2>1, OrderKeys, MapType DEF ExecuteOrder, TypeOK
  <2> QED
    BY <1>5, <2>1, <2>2 DEF ExecuteOrder, After, TypeOK, booking
<1>6. CASE PersistData
  <2>1. order \in Orders /\ executionsFile' \in Seq(Orders)
    BY <1>6 DEF PersistData, TypeOK
  <2> QED
    BY <1>6, <2>1 DEF PersistData, After, TypeOK, booking
<1>7. CASE BookTrade
  <2>1. order \in Orders /\ current_book_idx \in 0 .. Len(trading_books) - 1
    BY <1>7 DEF BookTrade, TypeOK
  <2>2. /\ TradeOf(order, trading_books[current_book_idx + 1]) \in Trades
        /\ current_book_idx' \in 0 .. Len(trading_books) - 1
    BY <1>7, <2>1, CurrentBookType, TradeType DEF BookTrade
  <2>3. trades \in Seq(Trades)
    BY DEF TypeOK
  <2>4. trades' \in Seq(Trades)
    BY <1>7, <2>2, <2>3 DEF BookTrade
  <2> QED
    BY <1>7, <2>1, <2>2, <2>4 DEF BookTrade, After, TypeOK, services
<1>8. CASE Publish
  <2>1. order \in Orders /\ log \in Seq(Orders)
    BY <1>8 DEF Publish, TypeOK, Calls
  <2>2. log' = Append(log, order) \/ log' = log
    BY <1>8 DEF Publish
  <2>3. log' \in Seq(Orders)
    BY <2>1, <2>2
  <2> QED
    BY <1>8, <2>1, <2>3 DEF Publish, After, TypeOK, services, booking
<1>9. CASE LogDies
  BY <1>9 DEF LogDies, TypeOK, services, booking
<1>10. CASE UNCHANGED vars
  BY <1>10 DEF vars, TypeOK, services, booking
<1> QED
  BY <1>1, <1>2, <1>3, <1>4, <1>5, <1>6, <1>7, <1>8, <1>9, <1>10
     DEF Next, Chain, Terminating

\* Every variable keeps its type, for any order books and any trading books.
THEOREM TypeCorrect == Spec => []TypeOK
BY InitType, NextType, PTL DEF Spec

-----------------------------------------------------------------------------
(* Prefixes, and the orders behind the trades.                             *)

LEMMA PrefixOfAppend ==
    ASSUME NEW S, NEW s \in Seq(S), NEW t \in Seq(S), NEW e \in S, IsPrefix(s, t)
    PROVE  IsPrefix(s, Append(t, e))
<1>1. /\ Len(s) \in Nat /\ Len(t) \in Nat /\ Len(s) <= Len(t)
      /\ SubSeq(s, 1, Len(s)) = SubSeq(t, 1, Len(s))
  BY DEF IsPrefix
<1>2. SubSeq(Append(t, e), 1, Len(s)) = SubSeq(t, 1, Len(s))
  BY <1>1
<1>3. Len(Append(t, e)) = Len(t) + 1
  OBVIOUS
<1> QED
  BY <1>1, <1>2, <1>3 DEF IsPrefix

LEMMA PrefixOfItself ==
    ASSUME NEW S, NEW s \in Seq(S)
    PROVE  IsPrefix(s, s)
BY DEF IsPrefix

LEMMA BookedOrdersType ==
    ASSUME trades \in Seq(Trades)
    PROVE  BookedOrders \in Seq(Orders) /\ Len(BookedOrders) = Len(trades)
<1>1. Len(trades) \in Nat /\ DOMAIN trades = 1 .. Len(trades)
      /\ \A i \in 1 .. Len(trades) : trades[i] \in Trades
  OBVIOUS
<1>2. BookedOrders = [i \in 1 .. Len(trades) |-> trades[i].order]
  BY <1>1 DEF BookedOrders
<1>3. \A i \in 1 .. Len(trades) : trades[i].order \in Orders
  BY <1>1 DEF Trades
<1>4. BookedOrders \in [1 .. Len(trades) -> Orders]
  BY <1>2, <1>3
<1> QED
  BY <1>1, <1>4

\* A trade booked adds its order.
LEMMA BookedOrdersGrow ==
    ASSUME trades \in Seq(Trades), NEW tr \in Trades, trades' = Append(trades, tr)
    PROVE  BookedOrders' = Append(BookedOrders, tr.order)
<1>1. DOMAIN trades' = 1 .. Len(trades) + 1 /\ DOMAIN trades = 1 .. Len(trades)
  OBVIOUS
<1>2. \A i \in 1 .. Len(trades) : trades'[i] = trades[i]
  OBVIOUS
<1>3. trades'[Len(trades) + 1] = tr
  OBVIOUS
<1>4. BookedOrders' = [i \in 1 .. Len(trades) + 1 |-> trades'[i].order]
  BY <1>1 DEF BookedOrders
<1>5. BookedOrders = [i \in 1 .. Len(trades) |-> trades[i].order]
  BY <1>1 DEF BookedOrders
<1>6. BookedOrders \in Seq(Orders) /\ Len(BookedOrders) = Len(trades) /\ tr.order \in Orders
  BY BookedOrdersType DEF Trades
<1> DEFINE after == Append(BookedOrders, tr.order)
<1>7. after \in Seq(Orders) /\ Len(after) = Len(trades) + 1
  BY <1>6
<1>8. \A i \in 1 .. Len(trades) + 1 : after[i] = trades'[i].order
  BY <1>2, <1>3, <1>5, <1>6
<1>9. after = [i \in 1 .. Len(trades) + 1 |-> trades'[i].order]
  BY <1>7, <1>8
<1> QED
  BY <1>4, <1>9

-----------------------------------------------------------------------------
(* The log never knows more than the file.                                 *)

\* What the file holds: the orders booked, and the one about to be.
FileFollowsTrades ==
    executionsFile = IF pc = "book" THEN Append(BookedOrders, order) ELSE BookedOrders

\* What the log holds: as long as it lives, the orders booked but for the one about
\* to be published; once it has died, a prefix of them.
LogFollowsTrades ==
    /\ IsPrefix(log, BookedOrders)
    /\ link = "up" => BookedOrders = IF pc = "publish" THEN Append(log, order) ELSE log

Follows == FileFollowsTrades /\ LogFollowsTrades

LEMMA InitFollows == Init => Follows
BY DEF Init, Follows, FileFollowsTrades, LogFollowsTrades, BookedOrders, IsPrefix

LEMMA NextFollows == TypeOK /\ Follows /\ [Next]_vars => Follows'
<1> SUFFICES ASSUME TypeOK, Follows, [Next]_vars PROVE Follows'
  OBVIOUS
<1>0. /\ BookedOrders \in Seq(Orders) /\ log \in Seq(Orders)
      /\ executionsFile \in Seq(Orders) /\ trades \in Seq(Trades)
  BY BookedOrdersType DEF TypeOK
<1>1. ASSUME UNCHANGED <<trades, executionsFile, log, link>>,
             pc \notin {"book", "publish"}, pc' \notin {"book", "publish"}
      PROVE  Follows'
  BY <1>1 DEF Follows, FileFollowsTrades, LogFollowsTrades, BookedOrders
<1>2. CASE OnMessage
  BY <1>1, <1>2 DEF OnMessage, booking
<1>3. CASE StopReading
  BY <1>1, <1>3 DEF StopReading, services, booking
<1>4. CASE AggressBook
  BY <1>1, <1>4 DEF AggressBook, booking
<1>5. CASE OnMessageAlgo
  BY <1>1, <1>5 DEF OnMessageAlgo, booking
<1>6. CASE ExecuteOrder
  BY <1>1, <1>6 DEF ExecuteOrder, After, booking
<1>7. CASE PersistData
  BY <1>7 DEF PersistData, After, Follows, FileFollowsTrades, LogFollowsTrades, BookedOrders, booking
<1>8. CASE BookTrade
  <2>1. PICK tr \in Trades : tr.order = order /\ trades' = Append(trades, tr)
    <3>1. order \in Orders /\ current_book_idx \in 0 .. Len(trading_books) - 1
      BY <1>8 DEF BookTrade, TypeOK, Calls
    <3>2. TradeOf(order, trading_books[current_book_idx + 1]) \in Trades
          /\ TradeOf(order, trading_books[current_book_idx + 1]).order = order
      BY <3>1, CurrentBookType, TradeType
    <3> QED
      BY <1>8, <3>2 DEF BookTrade
  <2>2. BookedOrders' = Append(BookedOrders, order) /\ order \in Orders
    BY <1>0, <2>1, BookedOrdersGrow DEF Trades
  <2>3. IsPrefix(log, BookedOrders')
    BY <1>0, <2>2, PrefixOfAppend DEF Follows, LogFollowsTrades
  <2>4. pc = "book" /\ pc' = "publish" /\ UNCHANGED <<executionsFile, log, link, order>>
    BY <1>8 DEF BookTrade, After, services
  <2>5. FileFollowsTrades'
    BY <2>2, <2>4 DEF Follows, FileFollowsTrades
  <2>6. LogFollowsTrades'
    BY <2>2, <2>3, <2>4 DEF Follows, LogFollowsTrades
  <2> QED
    BY <2>5, <2>6 DEF Follows
<1>9. CASE Publish
  <2>1. pc = "publish" /\ pc' \in {"read", "stopped"}
        /\ UNCHANGED <<executionsFile, trades, link, order>>
    BY <1>9 DEF Publish, After, services, booking
  <2>2. BookedOrders' = BookedOrders
    BY <2>1 DEF BookedOrders
  <2>3. CASE link = "up" /\ log' = Append(log, order)
    BY <1>0, <2>1, <2>2, <2>3, PrefixOfItself DEF Follows, FileFollowsTrades, LogFollowsTrades
  <2>4. CASE link = "down" /\ log' = log
    BY <2>1, <2>2, <2>4 DEF Follows, FileFollowsTrades, LogFollowsTrades
  <2> QED
    BY <1>9, <2>3, <2>4 DEF Publish
<1>10. CASE LogDies
  BY <1>10 DEF LogDies, Follows, FileFollowsTrades, LogFollowsTrades, BookedOrders, services, booking
<1>11. CASE UNCHANGED vars
  BY <1>11 DEF vars, Follows, FileFollowsTrades, LogFollowsTrades, BookedOrders, services, booking
<1> QED
  BY <1>2, <1>3, <1>4, <1>5, <1>6, <1>7, <1>8, <1>9, <1>10, <1>11 DEF Next, Chain, Terminating

LEMMA FollowsAlways == Init /\ [][Next]_vars => [](TypeOK /\ Follows)
BY InitType, NextType, InitFollows, NextFollows, PTL

LEMMA FollowsMeansWriteAhead == TypeOK /\ Follows => WriteAhead
<1> SUFFICES ASSUME TypeOK, Follows PROVE WriteAhead
  OBVIOUS
<1>1. BookedOrders \in Seq(Orders)
  BY BookedOrdersType DEF TypeOK
<1>2. CASE pc = "book"
  <2>1. order \in Orders /\ executionsFile = Append(BookedOrders, order)
    BY <1>2 DEF TypeOK, Calls, Follows, FileFollowsTrades
  <2>2. IsPrefix(BookedOrders, executionsFile)
    BY <1>1, <2>1, PrefixOfItself, PrefixOfAppend
  <2> QED
    BY <1>1, <2>1, <2>2 DEF WriteAhead, Follows, LogFollowsTrades
<1>3. CASE pc # "book"
  BY <1>1, <1>3, PrefixOfItself DEF WriteAhead, Follows, FileFollowsTrades, LogFollowsTrades
<1> QED
  BY <1>2, <1>3

\* Whatever happens to the log, an order it received is a trade, and a trade is on file.
THEOREM LogBehindTradesBehindFile == Spec => []WriteAhead
BY FollowsAlways, FollowsMeansWriteAhead, PTL DEF Spec

-----------------------------------------------------------------------------
(* The outbound feed.                                                      *)

LEMMA OutboundStep ==
    TypeOK /\ Follows /\ [Next]_vars => [Outbound!Next]_(Outbound!vars)
<1> SUFFICES ASSUME TypeOK, Follows, [Next]_vars
             PROVE  [Outbound!Next]_(Outbound!vars)
  OBVIOUS
<1>0. BookedOrders \in Seq(Orders) /\ log \in Seq(Orders)
  BY BookedOrdersType DEF TypeOK
<1>1. CASE PersistData
  <2>1. pc = "persist" /\ order \in Orders /\ executionsFile' = Append(executionsFile, order)
        /\ UNCHANGED <<log, link>>
    BY <1>1 DEF PersistData, TypeOK, Calls
  <2>2. link = "down" \/ log = executionsFile
    BY <2>1 DEF TypeOK, Follows, FileFollowsTrades, LogFollowsTrades
  <2> QED
    BY <2>1, <2>2 DEF Outbound!Next, Outbound!Write
<1>2. CASE Publish /\ link = "up"
  <2>1. pc = "publish" /\ order \in Orders /\ log' = Append(log, order)
        /\ UNCHANGED <<executionsFile, link>>
    BY <1>2 DEF Publish, TypeOK, Calls, services
  <2>2. executionsFile = Append(log, order)
    BY <1>2, <2>1 DEF Follows, FileFollowsTrades, LogFollowsTrades
  <2>3. Len(log) < Len(executionsFile) /\ executionsFile[Len(log) + 1] = order
    BY <1>0, <2>1, <2>2
  <2> QED
    BY <1>2, <2>1, <2>3 DEF Outbound!Next, Outbound!Deliver
<1>3. CASE LogDies
  BY <1>3 DEF LogDies, services, Outbound!Next, Outbound!Lose
<1>4. ASSUME UNCHANGED <<executionsFile, log, link>>
      PROVE  UNCHANGED Outbound!vars
  BY <1>4 DEF Outbound!vars
<1>5. CASE Publish /\ link # "up"
  BY <1>4, <1>5 DEF Publish, services
<1>6. CASE OnMessage \/ StopReading \/ AggressBook \/ OnMessageAlgo \/ ExecuteOrder
           \/ BookTrade \/ UNCHANGED vars
  BY <1>4, <1>6 DEF OnMessage, StopReading, AggressBook, OnMessageAlgo, ExecuteOrder,
                    BookTrade, vars, services
<1> QED
  BY <1>1, <1>2, <1>3, <1>5, <1>6 DEF Next, Chain, Terminating

\* Execution implements the outbound feed: the log receives the lines of the file in
\* order and without a gap, and the file is at most one line ahead, until the log dies.
THEOREM ExecutionRefinement == Spec => ImplementsOutbound
<1>1. Init => Outbound!Init
  BY DEF Init, Outbound!Init
<1> QED
  BY <1>1, OutboundStep, FollowsAlways, PTL DEF Spec, ImplementsOutbound, Outbound!Spec

-----------------------------------------------------------------------------
(* The services' maps and the file.                                        *)

\* The number of the order book that is being handled, or was last.
CurrentId == MaxOrderBooks - unread

Filed == {executionsFile[i] : i \in DOMAIN executionsFile}

\* The order that is in the map of the algo service, or in that of the execution
\* service, and not yet on file.
KnownToAlgo == IF pc \in {"execute", "persist"} THEN {order} ELSE {}
KnownToExecution == IF pc = "persist" THEN {order} ELSE {}

\* The order in hand has the number of its order book, and what is on file is older.
IdsGrow ==
    /\ pc \in {"algoexec", "execute", "persist"} => order.id = CurrentId
    /\ \A o \in Filed :
          /\ o.id <= CurrentId
          /\ pc \in {"aggress", "algoexec", "execute", "persist"} => o.id < CurrentId

KeyedById == \A id \in DOMAIN algoMap : algoMap[id].id = id

AlgoFollows == Range(algoMap) = Filed \cup KnownToAlgo

\* The map has the bonds of the orders the service saw, each with its first order.
FirstOrders(seen) ==
    \A bond \in Bonds :
        /\ bond \in DOMAIN executionMap <=> \E o \in seen : o.bond = bond
        /\ bond \in DOMAIN executionMap =>
              \A o \in seen : o.bond = bond => executionMap[bond].id <= o.id

ExecutionFollows == FirstOrders(Filed \cup KnownToExecution)

MapInv == IdsGrow /\ KeyedById /\ AlgoFollows /\ ExecutionFollows

\* A key that is new adds its data to the values of a map.
LEMMA AddedRange ==
    ASSUME NEW map, NEW key, NEW data, key \notin DOMAIN map
    PROVE  Range(AddData(map, key, data)) = Range(map) \cup {data}
<1> DEFINE after == AddData(map, key, data)
<1>1. /\ DOMAIN after = DOMAIN map \cup {key}
      /\ after[key] = data
      /\ \A k \in DOMAIN map : after[k] = map[k]
  BY DEF AddData
<1> HIDE DEF after
<1>2. Range(after) = {after[k] : k \in DOMAIN after} /\ Range(map) = {map[k] : k \in DOMAIN map}
  BY DEF Range
<1>3. {after[k] : k \in DOMAIN after} = {map[k] : k \in DOMAIN map} \cup {data}
  BY <1>1
<1> QED
  BY <1>2, <1>3 DEF after

LEMMA FiledGrows ==
    ASSUME executionsFile \in Seq(Orders), NEW o \in Orders,
           executionsFile' = Append(executionsFile, o)
    PROVE  Filed' = Filed \cup {o}
<1>1. /\ DOMAIN executionsFile = 1 .. Len(executionsFile) /\ Len(executionsFile) \in Nat
      /\ DOMAIN executionsFile' = 1 .. Len(executionsFile) + 1
      /\ \A i \in 1 .. Len(executionsFile) : executionsFile'[i] = executionsFile[i]
      /\ executionsFile'[Len(executionsFile) + 1] = o
  OBVIOUS
<1> QED
  BY <1>1 DEF Filed

LEMMA InitMaps == Init => MapInv
<1> SUFFICES ASSUME Init PROVE MapInv
  OBVIOUS
<1>1. /\ Filed = {} /\ pc = "read" /\ DOMAIN algoMap = {} /\ DOMAIN executionMap = {}
  BY DEF Init, Filed, EmptyMap
<1>2. Range(algoMap) = {}
  BY <1>1 DEF Range
<1> QED
  BY <1>1, <1>2 DEF MapInv, IdsGrow, KeyedById, AlgoFollows, ExecutionFollows, FirstOrders,
                    KnownToAlgo, KnownToExecution

LEMMA NextMaps == TypeOK /\ MapInv /\ [Next]_vars => MapInv'
<1> SUFFICES ASSUME TypeOK, MapInv, [Next]_vars PROVE MapInv'
  OBVIOUS
<1> USE DEF MapInv
<1>0. /\ unread \in Nat /\ CurrentId \in Nat /\ MaxOrderBooks \in Nat
      /\ executionsFile \in Seq(Orders)
      /\ \A o \in Filed : o \in Orders /\ o.id \in 1 .. MaxOrderBooks
      /\ pc \in {"algoexec", "execute", "persist", "book"} =>
            order \in Orders /\ order.id \in 1 .. MaxOrderBooks
  <2>1. unread \in 0 .. MaxOrderBooks /\ executionsFile \in Seq(Orders)
        /\ \A o \in Filed : o \in Orders
    BY DEF TypeOK, Filed
  <2>2. pc \in {"algoexec", "execute", "persist", "book"} => order \in Orders
    BY DEF TypeOK, Calls
  <2> QED
    BY <2>1, <2>2, BoundAssumption, OrderKeys DEF CurrentId
\* Steps that only move the thread between calls that hold no order back.
<1>1. ASSUME UNCHANGED <<algoMap, executionMap, executionsFile, unread>>,
             pc \notin {"execute", "persist"},
             pc' \in {"read", "stopped", "publish", "book"}
      PROVE  MapInv'
  BY <1>1 DEF IdsGrow, KeyedById, AlgoFollows, ExecutionFollows, FirstOrders, KnownToAlgo,
              KnownToExecution, Filed, CurrentId
<1>2. CASE OnMessage
  <2>1. /\ UNCHANGED <<algoMap, executionMap, executionsFile>>
        /\ pc = "read" /\ pc' = "aggress" /\ unread' = unread - 1
    BY <1>2 DEF OnMessage
  <2>2. CurrentId' = CurrentId + 1 /\ Filed' = Filed
    BY <1>0, <2>1 DEF CurrentId, Filed
  <2>3. \A o \in Filed : o.id <= CurrentId
    BY DEF IdsGrow
  <2>4. IdsGrow'
    BY <1>0, <2>1, <2>2, <2>3 DEF IdsGrow
  <2>5. KeyedById' /\ AlgoFollows' /\ ExecutionFollows'
    BY <2>1, <2>2 DEF KeyedById, AlgoFollows, ExecutionFollows, FirstOrders, KnownToAlgo, KnownToExecution
  <2> QED
    BY <2>4, <2>5
<1>3. CASE StopReading
  BY <1>1, <1>3 DEF StopReading, services
<1>4. CASE AggressBook
  <2>1. CASE pc' = "algoexec" /\ order' = NewOrder(orderbook, side', MaxOrderBooks - unread)
    <3>1. /\ UNCHANGED <<algoMap, executionMap, executionsFile, unread>> /\ pc = "aggress"
          /\ order'.id = CurrentId
      BY <1>4, <2>1 DEF AggressBook, NewOrder, CurrentId
    <3> QED
      BY <2>1, <3>1 DEF IdsGrow, KeyedById, AlgoFollows, ExecutionFollows, FirstOrders, KnownToAlgo,
                        KnownToExecution, Filed, CurrentId
  <2>2. CASE pc' = "read"
    BY <1>1, <1>4, <2>2 DEF AggressBook
  <2> QED
    BY <1>4, <2>1, <2>2 DEF AggressBook
<1>5. CASE OnMessageAlgo
  <2>1. /\ UNCHANGED <<executionMap, executionsFile, unread, order>>
        /\ pc = "algoexec" /\ pc' = "execute" /\ algoMap' = AddData(algoMap, order.id, order)
    BY <1>5 DEF OnMessageAlgo
  <2>2. Filed' = Filed /\ CurrentId' = CurrentId
    BY <2>1 DEF Filed, CurrentId
  <2>3. order.id \notin DOMAIN algoMap
    <3>1. SUFFICES ASSUME order.id \in DOMAIN algoMap PROVE FALSE
      OBVIOUS
    <3>2. algoMap[order.id] \in Filed
      BY <2>1, <3>1 DEF AlgoFollows, KnownToAlgo, Range
    <3> QED
      BY <1>0, <2>1, <3>1, <3>2 DEF IdsGrow, KeyedById
  <2>4. AlgoFollows'
    BY <2>1, <2>2, <2>3, AddedRange DEF AlgoFollows, KnownToAlgo
  <2>5. IdsGrow' /\ ExecutionFollows'
    BY <2>1, <2>2 DEF IdsGrow, ExecutionFollows, FirstOrders, KnownToExecution
  <2>6. KeyedById'
    BY <2>1 DEF KeyedById, AddData
  <2> QED
    BY <2>4, <2>5, <2>6
<1>6. CASE ExecuteOrder
  <2>1. /\ UNCHANGED <<algoMap, executionsFile, unread, order>>
        /\ pc = "execute" /\ pc' = "persist"
        /\ executionMap' = AddData(executionMap, order.bond, order)
        /\ order.bond \in Bonds
    BY <1>0, <1>6, OrderKeys DEF ExecuteOrder, After
  <2>2. Filed' = Filed /\ CurrentId' = CurrentId
    BY <2>1 DEF Filed, CurrentId
  <2>3. AlgoFollows' /\ KeyedById' /\ IdsGrow'
    BY <2>1, <2>2 DEF AlgoFollows, KeyedById, IdsGrow, KnownToAlgo
  <2>4. /\ DOMAIN executionMap' = DOMAIN executionMap \cup {order.bond}
        /\ \A bond \in DOMAIN executionMap : executionMap'[bond] = executionMap[bond]
        /\ order.bond \notin DOMAIN executionMap => executionMap'[order.bond] = order
    BY <2>1 DEF AddData
  <2>5. \A o \in Filed : o.id < order.id
    BY <2>1 DEF IdsGrow
  <2>6. FirstOrders(Filed)
    BY <2>1 DEF ExecutionFollows, KnownToExecution
  <2>7. ExecutionFollows'
    <3>1. SUFFICES ASSUME NEW bond \in Bonds
                   PROVE  /\ bond \in DOMAIN executionMap' <=>
                                \E o \in Filed \cup {order} : o.bond = bond
                          /\ bond \in DOMAIN executionMap' =>
                                \A o \in Filed \cup {order} :
                                    o.bond = bond => executionMap'[bond].id <= o.id
      BY <2>1, <2>2 DEF ExecutionFollows, FirstOrders, KnownToExecution
    <3>2. CASE bond \in DOMAIN executionMap
      <4>1. PICK first \in Filed : first.bond = bond
        BY <2>6, <3>2 DEF FirstOrders
      <4>2. /\ executionMap[bond].id <= first.id /\ first.id < order.id
            /\ \A o \in Filed : o.bond = bond => executionMap[bond].id <= o.id
        BY <2>5, <2>6, <3>2, <4>1 DEF FirstOrders
      <4>3. executionMap[bond].id \in Int
        BY <3>2, OrderKeys DEF TypeOK
      <4>4. executionMap[bond].id <= order.id
        BY <1>0, <2>1, <4>2, <4>3
      <4> QED
        BY <2>4, <3>2, <4>1, <4>2, <4>4
    <3>3. CASE bond \notin DOMAIN executionMap /\ bond = order.bond
      <4>1. \A o \in Filed : o.bond # bond
        BY <2>6, <3>3 DEF FirstOrders
      <4> QED
        BY <1>0, <2>1, <2>4, <3>3, <4>1
    <3>4. CASE bond \notin DOMAIN executionMap /\ bond # order.bond
      BY <2>4, <2>6, <3>4 DEF FirstOrders
    <3> QED
      BY <3>2, <3>3, <3>4
  <2> QED
    BY <2>3, <2>7
<1>7. CASE PersistData
  <2>1. /\ UNCHANGED <<algoMap, executionMap, unread, order>>
        /\ pc = "persist" /\ pc' = "book" /\ executionsFile' = Append(executionsFile, order)
    BY <1>7 DEF PersistData, After
  <2>2. Filed' = Filed \cup {order} /\ CurrentId' = CurrentId
    BY <1>0, <2>1, FiledGrows DEF CurrentId
  <2>3. IdsGrow'
    BY <1>0, <2>1, <2>2 DEF IdsGrow
  <2>4. KeyedById' /\ AlgoFollows' /\ ExecutionFollows'
    BY <2>1, <2>2 DEF KeyedById, AlgoFollows, ExecutionFollows, FirstOrders, KnownToAlgo, KnownToExecution
  <2> QED
    BY <2>3, <2>4
<1>8. CASE BookTrade
  BY <1>1, <1>8 DEF BookTrade, After, services
<1>9. CASE Publish
  BY <1>1, <1>9 DEF Publish, After, services
<1>10. CASE LogDies \/ UNCHANGED vars
  BY <1>10 DEF LogDies, vars, services, IdsGrow, KeyedById, AlgoFollows, ExecutionFollows, FirstOrders,
               KnownToAlgo, KnownToExecution, Filed, CurrentId
<1> QED
  BY <1>2, <1>3, <1>4, <1>5, <1>6, <1>7, <1>8, <1>9, <1>10 DEF Next, Chain, Terminating

LEMMA MapInvMeans == MapInv => MapsFollowFile
<1> SUFFICES ASSUME MapInv, pc = "read" PROVE MapsFollowFile
  BY DEF MapsFollowFile
<1>1. KnownToAlgo = {} /\ KnownToExecution = {}
  BY DEF KnownToAlgo, KnownToExecution
<1>2. \A bond \in Bonds : ExecutedOn(bond) = {o \in Filed : o.bond = bond}
  BY DEF ExecutedOn, Filed
<1>3. Range(algoMap) = Range(executionsFile)
  BY <1>1 DEF MapInv, AlgoFollows, Filed, Range
<1> QED
  BY <1>1, <1>2, <1>3 DEF MapInv, ExecutionFollows, FirstOrders, MapsFollowFile, ExistingData

\* Between order books the algo service knows the orders that are on file, and the
\* execution service the first of each bond: for any feed, and wherever the log died.
THEOREM MapsAgreeWithFile == Spec => []MapsFollowFile
BY InitType, NextType, InitMaps, NextMaps, MapInvMeans, PTL DEF Spec

-----------------------------------------------------------------------------
(* The balance of the books.                                               *)

\* The side of the next order, or of the one in hand until it is booked.
NextSide ==
    IF pc \in {"algoexec", "execute", "persist", "book"} THEN side ELSE Opposite(side)

OrderHasSide == pc \in {"algoexec", "execute", "persist", "book"} => order.side = side

\* Between the books, the side follows the position in the rotation: in an even round
\* the book at an even index is sold into, and in an odd round it is bought from.
EvenRound == (NextSide = "OFFER") <=> (current_book_idx % 2 = 0)

\* Buys less sells of the book at an index.
Balance(i) ==
    Cardinality(TradesIn(trading_books[i + 1], "BUY"))
        - Cardinality(TradesIn(trading_books[i + 1], "SELL"))

\* What the first trade of the book at an index makes of it.
First(i) == IF i % 2 = 0 THEN -1 ELSE 1

\* In an even round the books before the next one have had their trade; in an odd
\* round the ones after it wait for theirs, which undoes that of the round before.
\* A round is of an odd number of trades, so each round turns the other way.
BooksInTurn ==
    \A i \in 0 .. Len(trading_books) - 1 :
        Balance(i) = IF EvenRound <=> (i < current_book_idx) THEN First(i) ELSE 0

BalanceInv ==
    OrderHasSide /\ (Len(trading_books) % 2 = 1 => BooksInTurn)

LEMMA BooksType ==
    /\ Len(trading_books) \in Nat /\ Len(trading_books) > 0
    /\ \A i \in 0 .. Len(trading_books) - 1 :
          /\ trading_books[i + 1] \in Range(trading_books)
          /\ \A j \in 0 .. Len(trading_books) - 1 :
                trading_books[i + 1] = trading_books[j + 1] => i = j
    /\ \A book \in Range(trading_books) :
          \E i \in 0 .. Len(trading_books) - 1 : book = trading_books[i + 1]
<1>1. /\ Len(trading_books) \in Nat /\ Len(trading_books) > 0
      /\ DOMAIN trading_books = 1 .. Len(trading_books)
  BY TradingBooksAssumption
<1>2. \A i, j \in 1 .. Len(trading_books) : trading_books[i] = trading_books[j] => i = j
  BY <1>1, TradingBooksAssumption DEF IsInjective
<1>3. Range(trading_books) = {trading_books[i] : i \in 1 .. Len(trading_books)}
  BY <1>1 DEF Range
<1>4. ASSUME NEW book \in Range(trading_books)
      PROVE  \E i \in 0 .. Len(trading_books) - 1 : book = trading_books[i + 1]
  <2>1. PICK k \in 1 .. Len(trading_books) : book = trading_books[k]
    BY <1>3
  <2>2. k - 1 \in 0 .. Len(trading_books) - 1 /\ (k - 1) + 1 = k
    BY <1>1
  <2> QED
    BY <2>1, <2>2
<1> QED
  BY <1>1, <1>2, <1>3, <1>4

LEMMA TradesFinite ==
    ASSUME trades \in Seq(Trades), NEW book, NEW s
    PROVE  IsFiniteSet(TradesIn(book, s)) /\ Cardinality(TradesIn(book, s)) \in Nat
<1>1. TradesIn(book, s) \subseteq 1 .. Len(trades) /\ Len(trades) \in Nat
  BY DEF TradesIn
<1>2. IsFiniteSet(1 .. Len(trades))
  BY <1>1, FS_Interval
<1> QED
  BY <1>1, <1>2, FS_Subset, FS_CardinalityType

\* One more trade counts where it belongs and nowhere else.
LEMMA TradesInGrow ==
    ASSUME trades \in Seq(Trades), NEW t \in Trades, trades' = Append(trades, t),
           NEW book, NEW s
    PROVE  Cardinality(TradesIn(book, s)') =
               Cardinality(TradesIn(book, s)) + (IF t.book = book /\ t.side = s THEN 1 ELSE 0)
<1>1. /\ Len(trades) \in Nat
      /\ DOMAIN trades = 1 .. Len(trades) /\ DOMAIN trades' = 1 .. Len(trades) + 1
      /\ \A i \in 1 .. Len(trades) : trades'[i] = trades[i]
      /\ trades'[Len(trades) + 1] = t
  OBVIOUS
<1>2. IsFiniteSet(TradesIn(book, s)) /\ Cardinality(TradesIn(book, s)) \in Nat
  BY TradesFinite
<1>3. Len(trades) + 1 \notin TradesIn(book, s)
  BY <1>1 DEF TradesIn
<1> DEFINE old == 1 .. Len(trades)
           last == Len(trades) + 1
<1>4. /\ \A i \in old : i \in TradesIn(book, s)' <=> i \in TradesIn(book, s)
      /\ last \in TradesIn(book, s)' <=> t.book = book /\ t.side = s
      /\ TradesIn(book, s)' \subseteq old \cup {last}
      /\ TradesIn(book, s) \subseteq old
  <2>1. DOMAIN trades' = old \cup {last} /\ DOMAIN trades = old
    BY <1>1
  <2>2. (\A i \in old : trades'[i] = trades[i]) /\ trades'[last] = t
    BY <1>1
  <2> HIDE DEF old, last
  <2> QED
    BY <2>1, <2>2 DEF TradesIn
<1>5. last \notin TradesIn(book, s)
  BY <1>3
<1> HIDE DEF old, last
<1>6. CASE t.book = book /\ t.side = s
  <2>1. TradesIn(book, s)' = TradesIn(book, s) \cup {last}
    BY <1>4, <1>6
  <2> QED
    BY <1>2, <1>5, <1>6, <2>1, FS_AddElement
<1>7. CASE ~(t.book = book /\ t.side = s)
  <2>1. TradesIn(book, s)' = TradesIn(book, s)
    BY <1>4, <1>7
  <2> QED
    BY <1>2, <1>7, <2>1
<1> QED
  BY <1>6, <1>7

LEMMA InitBalance == Init => BalanceInv
<1> SUFFICES ASSUME Init PROVE BalanceInv
  OBVIOUS
<1>1. /\ trades = <<>> /\ pc = "read" /\ side = "BID" /\ current_book_idx = 0
  BY DEF Init
<1>2. \A book, s : TradesIn(book, s) = {}
  BY <1>1 DEF TradesIn
<1>3. ASSUME NEW i \in 0 .. Len(trading_books) - 1
      PROVE  Balance(i) = 0
  <2>1. Cardinality({}) = 0
    BY FS_EmptySet
  <2>2. /\ TradesIn(trading_books[i + 1], "BUY") = {}
        /\ TradesIn(trading_books[i + 1], "SELL") = {}
    BY <1>2
  <2>3. Balance(i) = Cardinality({}) - Cardinality({})
    BY <2>2, Zenon DEF Balance
  <2>4. Balance(i) = 0 - 0
    BY <2>1, <2>3, Zenon
  <2> QED
    BY <2>4
<1>4. EvenRound
  BY <1>1 DEF EvenRound, NextSide, Opposite
<1>5. \A i \in 0 .. Len(trading_books) - 1 : ~(i < current_book_idx)
  BY <1>1, BooksType
<1> QED
  BY <1>1, <1>3, <1>4, <1>5 DEF BalanceInv, OrderHasSide, BooksInTurn

LEMMA NextBalance == TypeOK /\ BalanceInv /\ [Next]_vars => BalanceInv'
<1> SUFFICES ASSUME TypeOK, BalanceInv, [Next]_vars PROVE BalanceInv'
  OBVIOUS
<1> USE DEF BalanceInv
\* A step that books nothing leaves the side of the next order alone.
<1>1. ASSUME UNCHANGED <<trades, current_book_idx>>, NextSide' = NextSide, OrderHasSide'
      PROVE  BalanceInv'
  <2>1. EvenRound' = EvenRound
    BY <1>1 DEF EvenRound
  <2>2. \A i \in 0 .. Len(trading_books) - 1 : Balance(i)' = Balance(i)
    BY <1>1 DEF Balance, TradesIn
  <2> QED
    BY <1>1, <2>1, <2>2 DEF BooksInTurn
<1>2. CASE OnMessage
  BY <1>1, <1>2 DEF OnMessage, booking, NextSide, OrderHasSide
<1>3. CASE StopReading
  BY <1>1, <1>3 DEF StopReading, services, booking, NextSide, OrderHasSide
<1>4. CASE AggressBook
  BY <1>1, <1>4 DEF AggressBook, NewOrder, booking, NextSide, OrderHasSide
<1>5. CASE OnMessageAlgo
  BY <1>1, <1>5 DEF OnMessageAlgo, booking, NextSide, OrderHasSide
<1>6. CASE ExecuteOrder
  BY <1>1, <1>6 DEF ExecuteOrder, After, booking, NextSide, OrderHasSide
<1>7. CASE PersistData
  BY <1>1, <1>7 DEF PersistData, After, booking, NextSide, OrderHasSide
<1>8. CASE BookTrade
  <2> DEFINE n == Len(trading_books)
             at == current_book_idx
             made == TradeOf(order, trading_books[at + 1])
  <2>1. /\ pc = "book" /\ pc' = "publish" /\ UNCHANGED <<side, order>>
        /\ trades' = Append(trades, made) /\ at' = NextBook(at)
    BY <1>8 DEF BookTrade, After, services
  <2>2. /\ order \in Orders /\ at \in 0 .. n - 1 /\ n \in Nat /\ n > 0 /\ trades \in Seq(Trades)
        /\ side \in {"BID", "OFFER"}
    BY <2>1, BooksType DEF TypeOK, Calls
  <2>3. made \in Trades
    BY <2>2, CurrentBookType, TradeType
  <2>4. /\ made.book = trading_books[at + 1]
        /\ made.side = IF NextSide = "OFFER" THEN "SELL" ELSE "BUY"
    BY <2>1, <2>2 DEF TradeOf, NextSide, OrderHasSide
  <2>5. NextSide = side /\ NextSide' = Opposite(side)
    BY <2>1 DEF NextSide
  <2>6. (NextSide' = "OFFER") <=> ~(NextSide = "OFFER")
    BY <2>2, <2>5 DEF Opposite
  <2>7. at' = IF at = n - 1 THEN 0 ELSE at + 1
    BY <2>1, <2>2 DEF NextBook
  <2>8. OrderHasSide'
    BY <2>1 DEF OrderHasSide
  <2>9. ASSUME n % 2 = 1, NEW i \in 0 .. n - 1
        PROVE  Balance(i)' = IF EvenRound' <=> (i < at') THEN First(i) ELSE 0
    <3> DEFINE due == IF EvenRound <=> (i < at) THEN First(i) ELSE 0
    <3>1. Balance(i) = due
      BY <2>9 DEF BooksInTurn
    <3>2. /\ Cardinality(TradesIn(trading_books[i + 1], "BUY")) \in Nat
          /\ Cardinality(TradesIn(trading_books[i + 1], "SELL")) \in Nat
      BY <2>2, TradesFinite
    <3>3. /\ Cardinality(TradesIn(trading_books[i + 1], "BUY")') =
                 Cardinality(TradesIn(trading_books[i + 1], "BUY"))
                     + (IF i = at /\ made.side = "BUY" THEN 1 ELSE 0)
          /\ Cardinality(TradesIn(trading_books[i + 1], "SELL")') =
                 Cardinality(TradesIn(trading_books[i + 1], "SELL"))
                     + (IF i = at /\ made.side = "SELL" THEN 1 ELSE 0)
      <4>1. made.book = trading_books[i + 1] <=> i = at
        BY <2>2, <2>4, BooksType
      <4> QED
        BY <2>1, <2>2, <2>3, <4>1, TradesInGrow
    <3>4. Balance(i)' =
             due + (IF i = at THEN (IF NextSide = "OFFER" THEN -1 ELSE 1) ELSE 0)
      BY <2>4, <3>1, <3>2, <3>3 DEF Balance
    <3>5. EvenRound' <=> IF at = n - 1 THEN ~EvenRound ELSE EvenRound
      BY <2>2, <2>6, <2>7, <2>9 DEF EvenRound
    <3>6. CASE i = at
      <4>1. due = IF EvenRound THEN 0 ELSE First(i)
        BY <2>2, <3>6
      <4>2. (NextSide = "OFFER") <=> (EvenRound <=> (i % 2 = 0))
        BY <3>6 DEF EvenRound
      <4>3. Balance(i)' = IF EvenRound THEN First(i) ELSE 0
        BY <3>4, <3>6, <4>1, <4>2 DEF First
      <4> QED
        BY <2>2, <2>7, <3>5, <3>6, <4>3
    <3>7. CASE i # at
      <4>1. Balance(i)' = due
        BY <3>4, <3>7 DEF First
      <4>2. (EvenRound' <=> (i < at')) <=> (EvenRound <=> (i < at))
        BY <2>2, <2>7, <3>5, <3>7
      <4> QED
        BY <4>1, <4>2
    <3> QED
      BY <3>6, <3>7
  <2> QED
    BY <2>8, <2>9 DEF BooksInTurn
<1>9. CASE Publish
  BY <1>1, <1>9 DEF Publish, After, services, booking, NextSide, OrderHasSide
<1>10. CASE LogDies \/ UNCHANGED vars
  BY <1>1, <1>10 DEF LogDies, vars, services, booking, NextSide, OrderHasSide
<1> QED
  BY <1>2, <1>3, <1>4, <1>5, <1>6, <1>7, <1>8, <1>9, <1>10 DEF Next, Chain, Terminating

LEMMA InTurnMeansBalanced == BalanceInv => BooksStayBalanced
<1> SUFFICES ASSUME BalanceInv, Len(trading_books) % 2 = 1, NEW book \in Range(trading_books)
             PROVE  Cardinality(TradesIn(book, "BUY")) - Cardinality(TradesIn(book, "SELL")) \in -1 .. 1
  BY DEF BooksStayBalanced
<1>1. PICK i \in 0 .. Len(trading_books) - 1 : book = trading_books[i + 1]
  BY BooksType
<1>2. Balance(i) \in {0, First(i)}
  BY DEF BalanceInv, BooksInTurn
<1> QED
  BY <1>1, <1>2 DEF Balance, First

\* With any odd number of books, no book is ever two trades ahead on one side: the
\* side alternates with the orders and the books take turns.
THEOREM BooksBalanced == Spec => []BooksStayBalanced
BY InitType, NextType, InitBalance, NextBalance, InTurnMeansBalanced, PTL DEF Spec

-----------------------------------------------------------------------------
(* BondTrading is a composition of its parts.                              *)

\* Booking by itself changes nothing of execution.
LEMMA BookingAlone ==
    /\ \A t : BookingCall(t) => UNCHANGED vars
    /\ TradesFeed => UNCHANGED vars
<1>1. ASSUME NEW t, BookingCall(t) PROVE UNCHANGED vars
  <2>1. current_book_idx' = current_book_idx
    BY <1>1 DEF BookingCall, Booking!Chain, Booking!BookTrade, Booking!AddTrade,
       Booking!OnPosition, Booking!InsertPosition, Booking!UpdateExistingPosition,
       Booking!PersistPosition, Booking!OnRisk, Booking!InsertRisk, Booking!UpdateRisk,
       Booking!PersistRisk, Booking!GetBucketedRisk, Booking!OnMessageBucket,
       Booking!PersistBucket, Booking!feeds
  <2> QED
    BY <1>1, <2>1 DEF BookingCall, executionOnly, vars, booking
<1>2. ASSUME TradesFeed PROVE UNCHANGED vars
  <2>1. current_book_idx' = current_book_idx
    BY <1>2 DEF TradesFeed, Booking!ReadTrade, Booking!StopReading, Booking!feeds
  <2> QED
    BY <1>2, <2>1 DEF TradesFeed, executionOnly, vars, booking
<1> QED
  BY <1>1, <1>2

\* Every step of the composition is one of execution, or leaves it alone.
LEMMA ExecutionPart == [SystemNext]_systemVars => [Next]_vars
<1> SUFFICES ASSUME [SystemNext]_systemVars PROVE [Next]_vars
  OBVIOUS
<1>1. CASE MarketFeed \/ EndOfFeed \/ ExecutionCall \/ BookOrder \/ PublishOrder
  BY <1>1 DEF MarketFeed, EndOfFeed, ExecutionCall, BookOrder, PublishOrder, Next, Chain
<1>2. CASE BookingCall(md) \/ BookingCall("trades_thread") \/ TradesFeed
  BY <1>2, BookingAlone
<1>3. CASE UNCHANGED systemVars
  BY <1>3 DEF systemVars, executionOnly, vars, booking
<1> QED
  BY <1>1, <1>2, <1>3 DEF SystemNext, MarketdataCall

\* Seen from the market data side the composition is BondExecution, fairness aside:
\* whatever trades_thread does in booking meanwhile, only the orders of
\* marketdata_thread turn the books.
THEOREM ExecutionWithin == SystemSpec => Init /\ [][Next]_vars
BY ExecutionPart, PTL DEF SystemSpec, SystemInit

\* So what is true of BondExecution is true of it within the composition: the log is a
\* prefix of the trades and these of the file, the maps agree with the file, and the
\* books stay balanced, however many trades of the other feed come in between.
THEOREM SystemFollowsFile ==
    SystemSpec => [](TypeOK /\ WriteAhead /\ MapsFollowFile /\ BooksStayBalanced)
<1>1. Init /\ [][Next]_vars => [](WriteAhead /\ MapsFollowFile /\ BooksStayBalanced)
  BY InitType, NextType, InitMaps, NextMaps, MapInvMeans, InitBalance, NextBalance,
     InTurnMeansBalanced, FollowsAlways, FollowsMeansWriteAhead, PTL
<1> QED
  BY <1>1, FollowsAlways, ExecutionWithin, PTL

\* And so the log receives the lines of the file in order and without a gap until it dies,
\* also while the listener between the two, trade booking, competes with trades_thread.
THEOREM SystemRefinement == SystemSpec => ImplementsOutbound
<1>1. Init => Outbound!Init
  BY DEF Init, Outbound!Init
<1> QED
  BY <1>1, OutboundStep, FollowsAlways, ExecutionWithin, PTL DEF ImplementsOutbound, Outbound!Spec

\* Where an order waits to be booked.
BeforeBooking == {"algoexec", "execute", "persist", "book"}

\* Booking's thread is within a call only while execution waits for it to return, and
\* booking expects every order still to come, and the one in hand until it is booked.
Expected ==
    /\ DOMAIN bookingPc = Booking!Threads
    /\ pc \notin {"publish", "stopped"} => bookingPc[md] = "read"
    /\ pc \in BeforeBooking => order.id = CurrentId
    /\ \A o \in Orders :
          o.id > CurrentId \/ (o.id = CurrentId /\ pc \in BeforeBooking \cup {"aggress"})
             => BookingOrder(o) \in orders

\* What a call of booking does to the places of the threads.
LEMMA BookingPlaces ==
    ASSUME NEW t \in Booking!Threads, BookingCall(t), DOMAIN bookingPc = Booking!Threads
    PROVE  /\ orders' = orders
           /\ bookingPc[t] \notin {"read", "stopped"}
           /\ DOMAIN bookingPc' = Booking!Threads
           /\ \A u \in Booking!Threads \ {t} : bookingPc'[u] = bookingPc[u]
BY DEF BookingCall, Booking!Chain, Booking!BookTrade, Booking!AddTrade,
       Booking!OnPosition, Booking!InsertPosition, Booking!UpdateExistingPosition,
       Booking!PersistPosition, Booking!OnRisk, Booking!InsertRisk, Booking!UpdateRisk,
       Booking!PersistRisk, Booking!GetBucketedRisk, Booking!OnMessageBucket,
       Booking!PersistBucket, Booking!feeds, Booking!Goto

LEMMA InitExpected == SystemInit => Expected
<1> SUFFICES ASSUME SystemInit PROVE Expected
  OBVIOUS
<1>1. md \in Booking!Threads
  BY DEF md, Booking!Threads
<1> QED
  BY <1>1 DEF SystemInit, Init, Booking!Init, Expected, BeforeBooking

LEMMA NextExpected == TypeOK /\ Expected /\ [SystemNext]_systemVars => Expected'
<1> SUFFICES ASSUME TypeOK, Expected, [SystemNext]_systemVars PROVE Expected'
  OBVIOUS
<1>0. /\ unread \in Int /\ MaxOrderBooks \in Int /\ md \in Booking!Threads
      /\ "trades_thread" \in Booking!Threads /\ md # "trades_thread"
      /\ \A o \in Orders : o.id \in Int
  BY BoundAssumption DEF TypeOK, md, Booking!Threads, Orders, NewOrder
<1> USE DEF BeforeBooking
\* Steps that keep the order book in hand, and all that booking expects.
<1>1. ASSUME UNCHANGED <<unread, orders>>,
             DOMAIN bookingPc' = Booking!Threads,
             pc' \notin {"publish", "stopped"} => bookingPc'[md] = "read",
             pc' \in BeforeBooking => order'.id = CurrentId,
             pc' \in BeforeBooking \cup {"aggress"} => pc \in BeforeBooking \cup {"aggress"}
      PROVE  Expected'
  BY <1>1 DEF Expected, CurrentId
<1>2. CASE OnMessage /\ UNCHANGED bookingOnly
  <2>1. /\ pc = "read" /\ pc' = "aggress" /\ unread' = unread - 1
        /\ UNCHANGED <<orders, bookingPc>>
    BY <1>2 DEF OnMessage, bookingOnly
  <2> QED
    BY <1>0, <2>1 DEF Expected, CurrentId
<1>3. CASE LogDies /\ UNCHANGED bookingOnly
  BY <1>1, <1>3 DEF LogDies, bookingOnly, Expected
<1>4. CASE EndOfFeed
  BY <1>1, <1>4 DEF EndOfFeed, StopReading, Booking!StopReading, Booking!Goto, Booking!feeds,
                    Expected
<1>5. CASE ExecutionCall
  <2>1. UNCHANGED <<unread, orders, bookingPc>>
    BY <1>5 DEF ExecutionCall, bookingOnly, AggressBook, OnMessageAlgo, ExecuteOrder, PersistData
  <2>2. pc \in BeforeBooking \cup {"aggress"} /\ pc # "book"
    BY <1>5 DEF ExecutionCall, AggressBook, OnMessageAlgo, ExecuteOrder, PersistData
  <2>3. pc' \in BeforeBooking => order'.id = CurrentId
    BY <1>5 DEF ExecutionCall, AggressBook, OnMessageAlgo, ExecuteOrder, PersistData, NewOrder,
                Expected, CurrentId
  <2>4. pc' \in BeforeBooking \cup {"read"}
    BY <1>5 DEF ExecutionCall, AggressBook, OnMessageAlgo, ExecuteOrder, PersistData, After
  <2> QED
    BY <1>1, <2>1, <2>2, <2>3, <2>4 DEF Expected
<1>6. CASE BookOrder
  <2>1. /\ pc = "book" /\ pc' = "publish" /\ UNCHANGED <<unread, order>>
        /\ orders' = orders \ {BookingOrder(order)}
    BY <1>6 DEF BookOrder, BookTrade, After
  <2>2. DOMAIN bookingPc' = Booking!Threads
    BY <1>6 DEF BookOrder, Booking!BookExecution, Booking!HandOver, Booking!Goto, Expected
  <2>3. ASSUME NEW o \in Orders, o.id > CurrentId PROVE BookingOrder(o) \in orders'
    <3>1. o # order
      BY <1>0, <2>1, <2>3 DEF Expected, CurrentId
    <3>2. BookingOrder(o).id = o /\ BookingOrder(order).id = order
      BY DEF BookingOrder
    <3>3. BookingOrder(o) \in orders
      BY <2>3 DEF Expected
    <3> QED
      BY <2>1, <3>1, <3>2, <3>3
  <2> QED
    BY <2>1, <2>2, <2>3 DEF Expected, CurrentId
<1>7. CASE BookingCall(md)
  <2>1. UNCHANGED <<unread, pc, order>>
    BY <1>7 DEF BookingCall, executionOnly
  <2>2. pc \in {"publish", "stopped"} /\ orders' = orders /\ DOMAIN bookingPc' = Booking!Threads
    BY <1>0, <1>7, BookingPlaces DEF Expected
  <2> QED
    BY <1>1, <2>1, <2>2
<1>8. CASE BookingCall("trades_thread")
  <2>1. UNCHANGED <<unread, pc, order>>
    BY <1>8 DEF BookingCall, executionOnly
  <2>2. orders' = orders /\ DOMAIN bookingPc' = Booking!Threads /\ bookingPc'[md] = bookingPc[md]
    BY <1>0, <1>8, BookingPlaces DEF Expected
  <2> QED
    BY <1>1, <2>1, <2>2 DEF Expected
<1>9. CASE PublishOrder
  <2>1. /\ pc = "publish" /\ pc' \in {"read", "stopped"} /\ UNCHANGED unread
        /\ bookingPc[md] = "read"
    BY <1>9 DEF PublishOrder, Publish, After
  <2>2. CASE UNCHANGED bookingOnly
    BY <1>1, <2>1, <2>2 DEF bookingOnly, Expected
  <2>3. CASE pc' = "stopped" /\ Booking!StopReading(md)
    BY <1>1, <2>1, <2>3 DEF Booking!StopReading, Booking!Goto, Booking!feeds, Expected
  <2> QED
    BY <1>9, <2>2, <2>3 DEF PublishOrder
<1>10. CASE TradesFeed
  <2>1. UNCHANGED <<unread, pc, order, orders>>
    BY <1>10 DEF TradesFeed, executionOnly, Booking!ReadTrade, Booking!StopReading, Booking!feeds
  <2>2. \E label : bookingPc' = [bookingPc EXCEPT !["trades_thread"] = label]
    BY <1>10 DEF TradesFeed, Booking!ReadTrade, Booking!HandOver, Booking!StopReading, Booking!Goto
  <2> QED
    BY <1>0, <1>1, <2>1, <2>2 DEF Expected
<1>11. CASE UNCHANGED systemVars
  BY <1>1, <1>11 DEF systemVars, executionOnly, bookingOnly, Expected
<1> QED
  BY <1>2, <1>3, <1>4, <1>5, <1>6, <1>7, <1>8, <1>9, <1>10, <1>11
     DEF SystemNext, MarketdataCall, MarketFeed

\* The composition never holds an execution back: when BondTradeBookingService is called
\* with an order, marketdata_thread is in no other call of booking, and the order is one
\* that booking has not seen.
THEOREM NeverBlocked ==
    SystemSpec => [](pc = "book" => bookingPc[md] = "read" /\ BookingOrder(order) \in orders)
<1>1. TypeOK /\ Expected =>
          (pc = "book" => bookingPc[md] = "read" /\ BookingOrder(order) \in orders)
  BY DEF TypeOK, Expected, BeforeBooking, Calls
<1> QED
  BY <1>1, SystemFollowsFile, InitExpected, NextExpected, PTL DEF SystemSpec

\* Accesses are atomic in the composition, so nothing brings the process down.
Alive == crashed = FALSE

\* What changes nothing of booking.
LEMMA ExecutionAlone == UNCHANGED bookingOnly /\ UNCHANGED booking => UNCHANGED Booking!vars
BY DEF bookingOnly, booking, Booking!vars, Booking!feeds, Booking!services, Booking!files,
       Booking!locals

\* Every step of the composition is one of booking, or leaves it alone.
LEMMA BookingPart ==
    Alive /\ [SystemNext]_systemVars => Alive' /\ [Booking!Next]_(Booking!vars)
<1> SUFFICES ASSUME Alive, [SystemNext]_systemVars
             PROVE  Alive' /\ [Booking!Next]_(Booking!vars)
  OBVIOUS
<1>1. ASSUME NEW t \in Booking!Threads,
             Booking!ReadTrade(t) \/ Booking!BookExecution(t) \/ Booking!StopReading(t)
                \/ Booking!Chain(t)
      PROVE  Alive' /\ Booking!Next
  <2>1. Booking!Next
    BY <1>1 DEF Alive, Booking!Next, Booking!Step
  <2>2. crashed' = crashed
    BY <1>1 DEF Booking!ReadTrade, Booking!BookExecution, Booking!HandOver,
       Booking!StopReading, Booking!Chain, Booking!BookTrade, Booking!AddTrade,
       Booking!OnPosition, Booking!InsertPosition, Booking!UpdateExistingPosition,
       Booking!PersistPosition, Booking!OnRisk, Booking!InsertRisk, Booking!UpdateRisk,
       Booking!PersistRisk, Booking!GetBucketedRisk, Booking!OnMessageBucket,
       Booking!PersistBucket
  <2> QED
    BY <2>1, <2>2 DEF Alive
<1>2. md \in Booking!Threads /\ "trades_thread" \in Booking!Threads
  BY DEF md, Booking!Threads
<1>3. ASSUME UNCHANGED bookingOnly, UNCHANGED booking
      PROVE  Alive' /\ [Booking!Next]_(Booking!vars)
  BY <1>3, ExecutionAlone DEF Alive, bookingOnly
<1>4. CASE MarketFeed
  BY <1>3, <1>4 DEF MarketFeed, OnMessage, LogDies
<1>5. CASE EndOfFeed
  BY <1>1, <1>2, <1>5 DEF EndOfFeed
<1>6. CASE ExecutionCall
  BY <1>3, <1>6 DEF ExecutionCall, AggressBook, OnMessageAlgo, ExecuteOrder, PersistData
<1>7. CASE BookOrder
  BY <1>1, <1>2, <1>7 DEF BookOrder
<1>8. CASE PublishOrder
  <2>1. CASE UNCHANGED bookingOnly
    BY <1>3, <1>8, <2>1 DEF PublishOrder, Publish
  <2> QED
    BY <1>1, <1>2, <1>8, <2>1 DEF PublishOrder
<1>9. CASE BookingCall(md) \/ BookingCall("trades_thread")
  BY <1>1, <1>2, <1>9 DEF BookingCall
<1>10. CASE TradesFeed
  BY <1>1, <1>2, <1>10 DEF TradesFeed
<1>11. CASE UNCHANGED systemVars
  BY <1>3, <1>11 DEF systemVars, executionOnly, booking
<1> QED
  BY <1>4, <1>5, <1>6, <1>7, <1>8, <1>9, <1>10, <1>11 DEF SystemNext, MarketdataCall

\* Seen from booking the composition is BondBooking, fairness aside: its executions are
\* orders that come one at a time, each while marketdata_thread is in no other call.
THEOREM BookingWithin == SystemSpec => Booking!Init /\ [][Booking!Next]_(Booking!vars)
<1>1. Booking!Init => Alive
  BY DEF Booking!Init, Alive
<1> QED
  BY <1>1, BookingPart, PTL DEF SystemSpec, SystemInit

-----------------------------------------------------------------------------
(* Positions under both feeds.  Only what AddTrade, the stores of a        *)
(* position and the line of positions.txt do matters below, so each step   *)
(* of booking is one of five moves.                                        *)

LEMMA OrderBookType ==
    ASSUME NEW book \in OrderBooks, NEW s \in {"BID", "OFFER"}
    PROVE  GetTopAgainstQuantity(book, s) \in Nat
<1>1. PICK row \in MarketRows : book = ProcessData(row)
  BY DEF OrderBooks
<1>2. 1 \in 1 .. Depth /\ 1 \in DOMAIN row.levels
  BY DepthAssumption, MarketRowsAssumption
<1>3. row.levels[1].quantity \in Nat
  BY <1>2, MarketRowsAssumption DEF Range
<1> QED
  BY <1>1, <1>2, <1>3 DEF ProcessData, GetTopAgainstQuantity, TopAgainst, Order

\* What booking makes of a row or of an order.
LEMMA BookedType ==
    ASSUME NEW tr \in Booking!Trades
    PROVE  tr.book \in Booking!Books /\ Booking!Signed(tr) \in Int
<1>1. CASE tr \in TradeRows
  BY <1>1, TradeRowsAssumption DEF Booking!Signed, Booking!Books, Booking!Range, Range
<1>2. CASE tr \notin TradeRows
  <2>1. PICK o \in Orders, book \in Booking!Books : tr = Booking!TradeOf(BookingOrder(o), book)
    BY <1>2 DEF Booking!Trades
  <2>2. o.quantity \in Nat
    BY OrderBookType DEF Orders, NewOrder
  <2> QED
    BY <2>1, <2>2 DEF Booking!TradeOf, BookingOrder, Booking!Signed
<1> QED
  BY <1>1, <1>2

\* Two rows, two orders, or a row and an order, never have the same id.
LEMMA DistinctIds ==
    ASSUME NEW a \in TradeRows \cup {BookingOrder(o) : o \in Orders},
           NEW b \in TradeRows \cup {BookingOrder(o) : o \in Orders}, a.id = b.id
    PROVE  a = b /\ (a \in TradeRows => b \notin {BookingOrder(o) : o \in Orders})
<1>1. \A o \in Orders : BookingOrder(o).id = o
  BY DEF BookingOrder
<1>2. a \in TradeRows => b \notin {BookingOrder(o) : o \in Orders}
  BY <1>1, TradeRowsAssumption
<1>3. b \in TradeRows => a \notin {BookingOrder(o) : o \in Orders}
  BY <1>1, TradeRowsAssumption
<1>4. a \in TradeRows /\ b \in TradeRows => a = b
  BY TradeRowsAssumption
<1>5. a \notin TradeRows /\ b \notin TradeRows => a = b
  BY <1>1
<1> QED
  BY <1>2, <1>3, <1>4, <1>5

\* What the variables of booking hold.
BookingTyped ==
    /\ rows \subseteq TradeRows /\ orders \subseteq {BookingOrder(o) : o \in Orders}
    /\ booked \subseteq Booking!Trades /\ IsFiniteSet(booked)
    /\ \A bond \in DOMAIN positionMap : positionMap[bond] \in Booking!Positions
    /\ DOMAIN bookingPc = Booking!Threads /\ DOMAIN trade = Booking!Threads
    /\ position \in [Booking!Threads -> Booking!Positions]

\* A trade is handed over once.
HandedOverOnce ==
    /\ \A tr \in booked, next \in rows \cup orders : tr.id # next.id
    /\ \A t \in Booking!Threads : bookingPc[t] \notin Booking!Idle => trade[t] \in booked

\* Where a thread has not added its trade yet, and where it holds the sum.
NotAdded == {"bookTrade", "addTrade"}
Holding  == {"onPosition", "insertPosition", "updatePosition"}

\* Before the line in positions.txt.
BeforeLine == NotAdded \cup Holding \cup {"persistPosition"}

Goes(t, label) == bookingPc' = [bookingPc EXCEPT ![t] = label]

\* A row or an order becomes a trade with its id, and will not come again.
TakesTrade(t) ==
    /\ bookingPc[t] = "read" /\ Goes(t, "bookTrade")
    /\ rows' \subseteq rows /\ orders' \subseteq orders
    /\ \E tr \in Booking!Trades :
          /\ \E given \in rows \cup orders : tr.id = given.id
          /\ \A next \in rows' \cup orders' : tr.id # next.id
          /\ trade' = [trade EXCEPT ![t] = tr]
          /\ booked' = booked \cup {tr}
    /\ UNCHANGED <<position, positionMap, positionsFile>>

\* AddTrade: the copy becomes what the map has, and the trade.
AddsTrade(t) ==
    /\ bookingPc[t] = "addTrade" /\ Goes(t, "onPosition")
    /\ position' = [position EXCEPT ![t] =
                       Booking!UpdatePosition(Booking!Current(Booking!Bond(t)), trade[t])]
    /\ UNCHANGED <<rows, orders, booked, trade, positionMap, positionsFile>>

\* OnMessage of the position service: the map gets the copy, or already has an entry.
StoresPosition(t) ==
    /\ bookingPc[t] \in Holding /\ Goes(t, "persistPosition")
    /\ \A bond \in DOMAIN positionMap' :
          \/ bond \in DOMAIN positionMap /\ positionMap'[bond] = positionMap[bond]
          \/ bond = Booking!Bond(t) /\ positionMap'[bond] = position[t]
    /\ UNCHANGED <<rows, orders, booked, trade, position, positionsFile>>

\* PersistData of the historical position service.
WritesLine(t) ==
    /\ bookingPc[t] = "persistPosition" /\ Goes(t, "onRisk")
    /\ positionsFile' = positionsFile \cup {Booking!PositionLine(t)}
    /\ UNCHANGED <<rows, orders, booked, trade, position, positionMap>>

\* All other steps: a thread stays in its part of the chain, or returns, or stops.
Passes(t) ==
    /\ DOMAIN bookingPc' = Booking!Threads
    /\ \A part \in {NotAdded, Holding, {"persistPosition"}} :
          bookingPc[t] \in part <=> bookingPc'[t] \in part
    /\ bookingPc'[t] \notin Booking!Idle =>
          /\ bookingPc[t] \notin Booking!Idle
          /\ trade'[t] = trade[t] /\ position'[t] = position[t]
    /\ DOMAIN trade' = Booking!Threads /\ position' \in [Booking!Threads -> Booking!Positions]
    /\ \A u \in Booking!Threads \ {t} :
          bookingPc'[u] = bookingPc[u] /\ trade'[u] = trade[u] /\ position'[u] = position[u]
    /\ UNCHANGED <<rows, orders, booked, positionMap, positionsFile>>

Moves(t) ==
    TakesTrade(t) \/ AddsTrade(t) \/ StoresPosition(t) \/ WritesLine(t) \/ Passes(t)

BookingStep(t) ==
    Booking!ReadTrade(t) \/ Booking!BookExecution(t) \/ Booking!StopReading(t) \/ Booking!Chain(t)

\* Accesses are atomic here: look-ups tell the truth, and copies are whole.
LEMMA AtomicReads ==
    ASSUME NEW t
    PROVE  /\ \A map, key : Booking!Find(t, map, key) = {ExistingData(map, key)}
           /\ Booking!Copies(t) = {positionMap[Booking!Bond(t)]}
<1>1. \A u, v : ~Booking!DataRace(u, v)
  BY DEF Booking!DataRace
<1>2. ~Booking!UnderInsert(t)
  BY <1>1 DEF Booking!UnderInsert
<1>3. {v \in Booking!Threads : Booking!DataRace(v, t) /\ bookingPc[v] = "updatePosition"} = {}
  BY <1>1
<1> QED
  BY <1>2, <1>3 DEF Booking!Find, Booking!Copies, Booking!GetData, Booking!ExistingData,
                    ExistingData

\* Every step of booking is one of the five.
LEMMA StepMoves ==
    ASSUME TypeOK, BookingTyped, HandedOverOnce, NEW t \in Booking!Threads, BookingStep(t)
    PROVE  Moves(t)
<1> USE DEF Moves
<1>1. CASE Booking!ReadTrade(t)
  <2>1. PICK row \in rows : rows' = rows \ {row} /\ Booking!HandOver(t, row)
    BY <1>1 DEF Booking!ReadTrade
  <2>2. row \in Booking!Trades /\ \A next \in (rows \ {row}) \cup orders : row.id # next.id
    BY DistinctIds DEF BookingTyped, Booking!Trades
  <2>3. bookingPc[t] = "read" /\ orders' = orders
    BY <1>1 DEF Booking!ReadTrade
  <2> QED
    BY <2>1, <2>2, <2>3 DEF TakesTrade, Goes, Booking!HandOver, Booking!Goto,
                            Booking!services, Booking!files
<1>2. CASE Booking!BookExecution(t)
  <2> DEFINE book == trading_books[current_book_idx + 1]
  <2>1. PICK given \in orders :
          orders' = orders \ {given} /\ Booking!HandOver(t, Booking!TradeOf(given, book))
    BY <1>2 DEF Booking!BookExecution
  <2>2. book \in Booking!Books
    BY CurrentBookType DEF TypeOK, Booking!Books, Booking!Range, Range
  <2> HIDE DEF book
  <2>3. /\ Booking!TradeOf(given, book) \in Booking!Trades
        /\ Booking!TradeOf(given, book).id = given.id
    BY <2>2 DEF BookingTyped, Booking!Trades, Booking!TradeOf
  <2>4. \A next \in rows \cup (orders \ {given}) : given.id # next.id
    BY DistinctIds DEF BookingTyped
  <2>5. bookingPc[t] = "read" /\ rows' = rows
    BY <1>2 DEF Booking!BookExecution
  <2>6. TakesTrade(t)
    BY <2>1, <2>3, <2>4, <2>5 DEF TakesTrade, Goes, Booking!HandOver, Booking!Goto,
                            Booking!services, Booking!files
  <2> QED
    BY <2>6
<1>3. CASE Booking!AddTrade(t)
  <2>1. PICK found \in Booking!Find(t, positionMap, Booking!Bond(t)) :
          \E current \in IF found THEN Booking!Copies(t) ELSE {Booking!NewPosition} :
             position' = [position EXCEPT ![t] = Booking!UpdatePosition(current, trade[t])]
    BY <1>3 DEF Booking!AddTrade
  <2>2. /\ Booking!Find(t, positionMap, Booking!Bond(t))
               = {ExistingData(positionMap, Booking!Bond(t))}
        /\ Booking!Copies(t) = {positionMap[Booking!Bond(t)]}
    BY AtomicReads
  <2>3. \A current \in IF found THEN Booking!Copies(t) ELSE {Booking!NewPosition} :
           current = Booking!Current(Booking!Bond(t))
    BY <2>1, <2>2 DEF Booking!Current, Booking!ExistingData, ExistingData
  <2> QED
    BY <1>3, <2>1, <2>3 DEF AddsTrade, Goes, Booking!AddTrade, Booking!Goto, Booking!feeds,
                      Booking!services, Booking!files
<1>4. CASE Booking!InsertPosition(t) \/ Booking!UpdateExistingPosition(t)
  <2>1. \A bond \in DOMAIN positionMap' :
          \/ bond \in DOMAIN positionMap /\ positionMap'[bond] = positionMap[bond]
          \/ bond = Booking!Bond(t) /\ positionMap'[bond] = position[t]
    BY <1>4 DEF Booking!InsertPosition, Booking!UpdateExistingPosition, Booking!AddData,
                Booking!UpdateData
  <2> QED
    BY <1>4, <2>1 DEF StoresPosition, Goes, Holding, Booking!InsertPosition,
       Booking!UpdateExistingPosition, Booking!FirstListener, Booking!Goto, Booking!feeds,
       Booking!files, Booking!locals
<1>5. CASE Booking!PersistPosition(t)
  BY <1>5 DEF WritesLine, Goes, Booking!PersistPosition, Booking!Goto, Booking!feeds,
              Booking!services, Booking!locals
<1>6. CASE Booking!PersistBucket(t)
  <2>1. Booking!NewPosition \in Booking!Positions
    BY DEF Booking!NewPosition, Booking!Positions
  <2>2. /\ DOMAIN trade' = Booking!Threads
        /\ position' \in [Booking!Threads -> Booking!Positions]
        /\ \A u \in Booking!Threads \ {t} : trade'[u] = trade[u] /\ position'[u] = position[u]
    BY <1>6, <2>1 DEF Booking!PersistBucket, Booking!Return, BookingTyped
  <2>3. /\ bookingPc[t] = "persistBucket" /\ bookingPc'[t] = "read"
        /\ DOMAIN bookingPc' = Booking!Threads
        /\ \A u \in Booking!Threads \ {t} : bookingPc'[u] = bookingPc[u]
        /\ UNCHANGED <<rows, orders, booked, positionMap, positionsFile>>
    BY <1>6 DEF Booking!PersistBucket, Booking!Goto, Booking!feeds, Booking!services,
                BookingTyped
  <2> QED
    BY <2>2, <2>3 DEF Passes, NotAdded, Holding, Booking!Idle
<1>7. CASE \/ Booking!StopReading(t) \/ Booking!BookTrade(t) \/ Booking!OnPosition(t)
           \/ Booking!OnRisk(t) \/ Booking!InsertRisk(t) \/ Booking!UpdateRisk(t)
           \/ Booking!PersistRisk(t) \/ Booking!GetBucketedRisk(t) \/ Booking!OnMessageBucket(t)
  <2>1. UNCHANGED <<rows, orders, booked, positionMap, positionsFile, trade, position>>
    BY <1>7 DEF Booking!StopReading, Booking!BookTrade, Booking!OnPosition, Booking!OnRisk,
       Booking!InsertRisk, Booking!UpdateRisk, Booking!PersistRisk, Booking!GetBucketedRisk,
       Booking!OnMessageBucket, Booking!feeds, Booking!services, Booking!files, Booking!locals
  <2> DEFINE AfterLine == {"onRisk", "insertRisk", "updateRisk", "persistRisk", "bucketRisk",
                           "onBucket", "persistBucket"}
  <2>2. \E label : /\ bookingPc'[t] = label
                   /\ \/ bookingPc[t] = "read" /\ label = "stopped"
                      \/ bookingPc[t] = "bookTrade" /\ label = "addTrade"
                      \/ /\ bookingPc[t] = "onPosition"
                         /\ label \in {"insertPosition", "updatePosition"}
                      \/ bookingPc[t] \in AfterLine /\ label \in AfterLine
    BY <1>7 DEF Booking!StopReading, Booking!BookTrade, Booking!OnPosition, Booking!OnRisk,
       Booking!InsertRisk, Booking!UpdateRisk, Booking!PersistRisk, Booking!GetBucketedRisk,
       Booking!OnMessageBucket, Booking!Goto, BookingTyped
  <2>3. /\ DOMAIN bookingPc' = Booking!Threads
        /\ \A u \in Booking!Threads \ {t} : bookingPc'[u] = bookingPc[u]
    BY <1>7 DEF Booking!StopReading, Booking!BookTrade, Booking!OnPosition, Booking!OnRisk,
       Booking!InsertRisk, Booking!UpdateRisk, Booking!PersistRisk, Booking!GetBucketedRisk,
       Booking!OnMessageBucket, Booking!Goto, BookingTyped
  <2> QED
    BY <2>1, <2>2, <2>3 DEF Passes, BookingTyped, NotAdded, Holding, Booking!Idle
<1> QED
  BY <1>1, <1>2, <1>3, <1>4, <1>5, <1>6, <1>7 DEF BookingStep, Booking!Chain

\* The sum of a set of booked trades, as BondBooking adds it up.
Weights == [tr \in Booking!Trades |-> Booking!Signed(tr)]

LEMMA SignedSumIs ==
    ASSUME NEW S \in SUBSET Booking!Trades, IsFiniteSet(S)
    PROVE  Booking!SignedSum(S) = WeightOf(Weights, S)
<1> DEFINE Adds(h) == h = [s \in SUBSET S |-> IF s = {} THEN 0
                              ELSE Booking!Signed(Taken(s)) + h[s \ {Taken(s)}]]
<1>1. Booking!SignedSum(S) = (CHOOSE h : Adds(h))[S]
  BY DEF Booking!SignedSum, Booking!MapThenSumSet, Booking!MapThenFoldSet, Taken
<1>2. ASSUME NEW h PROVE Adds(h) <=> Sums(h, Weights, S)
  <2>1. \A s \in SUBSET S : s # {} => Weights[Taken(s)] = Booking!Signed(Taken(s))
    BY TakenIn DEF Weights
  <2>2. [s \in SUBSET S |-> IF s = {} THEN 0
                            ELSE Booking!Signed(Taken(s)) + h[s \ {Taken(s)}]]
            = [s \in SUBSET S |-> IF s = {} THEN 0 ELSE Weights[Taken(s)] + h[s \ {Taken(s)}]]
    BY <2>1
  <2> QED
    BY <2>2 DEF Sums
<1>3. Sums(SumsOf(Weights, S), Weights, S)
  BY SumsExist
<1>4. Sums(CHOOSE h : Adds(h), Weights, S)
  <2>1. Adds(SumsOf(Weights, S))
    BY <1>2, <1>3
  <2> HIDE DEF Adds
  <2>2. Adds(CHOOSE h : Adds(h))
    BY <2>1
  <2> QED
    BY <1>2, <2>2
<1> HIDE DEF Adds
<1>5. (CHOOSE h : Adds(h))[S] = SumsOf(Weights, S)[S]
  BY <1>3, <1>4, SumsAgree
<1> QED
  BY <1>1, <1>5 DEF WeightOf

LEMMA SumOfNone == Booking!SignedSum({}) = 0
BY SignedSumIs, WeightOfNone, FS_EmptySet

LEMMA SumWith ==
    ASSUME NEW S \in SUBSET Booking!Trades, IsFiniteSet(S), NEW tr \in Booking!Trades, tr \notin S
    PROVE  /\ Booking!SignedSum(S \cup {tr}) = Booking!SignedSum(S) + Booking!Signed(tr)
           /\ Booking!SignedSum(S) \in Int
<1>1. IsFiniteSet(S \cup {tr}) /\ S \cup {tr} \in SUBSET Booking!Trades
  BY FS_AddElement
<1>2. \A y \in S \cup {tr} : Weights[y] = Booking!Signed(y) /\ Booking!Signed(y) \in Int
  BY BookedType DEF Weights
<1>3. /\ WeightOf(Weights, S \cup {tr}) = WeightOf(Weights, S) + Weights[tr]
      /\ WeightOf(Weights, S) \in Int
  BY <1>2, WeightWith
<1> QED
  BY <1>1, <1>2, <1>3, SignedSumIs

\* The trades of a bond and book that AddTrade has added to a copy of a position.
Added(bond, book) ==
    Booking!BookedIn(bond, book)
        \ {trade[t] : t \in {u \in Booking!Threads : bookingPc[u] \in NotAdded}}

IsSumOf(quantity, made) == \E counted \in SUBSET made : quantity = Booking!SignedSum(counted)

AddsUp(pos, bond) == \A book \in Booking!Books : IsSumOf(pos[book], Added(bond, book))

\* While a thread holds a copy, it and the map both add up trades that were added.
PositionsAddUp ==
    /\ \A bond \in DOMAIN positionMap : AddsUp(positionMap[bond], bond)
    /\ \A t \in Booking!Threads : bookingPc[t] \in Holding => AddsUp(position[t], Booking!Bond(t))

\* No two threads are about the same trade.
OwnTrade ==
    \A t, u \in Booking!Threads :
        bookingPc[t] \notin Booking!Idle /\ bookingPc[u] \notin Booking!Idle
            /\ trade[t] = trade[u] => t = u

CountInv == BookingTyped /\ HandedOverOnce /\ OwnTrade /\ PositionsAddUp

LEMMA ZeroIsSum == ASSUME NEW made PROVE IsSumOf(0, made)
BY SumOfNone DEF IsSumOf

LEMMA SumOfMore ==
    ASSUME NEW quantity, NEW S, NEW T, S \subseteq T, IsSumOf(quantity, S)
    PROVE  IsSumOf(quantity, T)
BY DEF IsSumOf

\* A move changes what one thread is about, and files and trades only grow.
LEMMA MoveFrame ==
    ASSUME BookingTyped, NEW t \in Booking!Threads, Moves(t)
    PROVE  /\ DOMAIN bookingPc' = Booking!Threads /\ DOMAIN trade' = Booking!Threads
           /\ \A u \in Booking!Threads \ {t} :
                 bookingPc'[u] = bookingPc[u] /\ trade'[u] = trade[u] /\ position'[u] = position[u]
           /\ booked \subseteq booked' /\ positionsFile \subseteq positionsFile'
           /\ rows' \subseteq rows /\ orders' \subseteq orders
<1>1. CASE TakesTrade(t)
  BY <1>1 DEF TakesTrade, Goes, BookingTyped
<1>2. CASE AddsTrade(t) \/ StoresPosition(t) \/ WritesLine(t)
  BY <1>2 DEF AddsTrade, StoresPosition, WritesLine, Goes, BookingTyped
<1>3. CASE Passes(t)
  BY <1>3 DEF Passes
<1> QED
  BY <1>1, <1>2, <1>3 DEF Moves

LEMMA MoveType ==
    ASSUME BookingTyped, HandedOverOnce, NEW t \in Booking!Threads, Moves(t)
    PROVE  BookingTyped'
<1> USE DEF BookingTyped
<1>1. booked' \subseteq Booking!Trades /\ IsFiniteSet(booked')
  <2>1. CASE TakesTrade(t)
    BY <2>1, FS_AddElement DEF TakesTrade
  <2>2. CASE ~TakesTrade(t)
    BY <2>2 DEF Moves, AddsTrade, StoresPosition, WritesLine, Passes
  <2> QED
    BY <2>1, <2>2
<1>2. \A bond \in DOMAIN positionMap' : positionMap'[bond] \in Booking!Positions
  <2>1. CASE StoresPosition(t)
    BY <2>1 DEF StoresPosition
  <2>2. CASE ~StoresPosition(t)
    BY <2>2 DEF Moves, TakesTrade, AddsTrade, WritesLine, Passes
  <2> QED
    BY <2>1, <2>2
<1>3. position' \in [Booking!Threads -> Booking!Positions]
  <2>1. CASE AddsTrade(t)
    <3> DEFINE old == Booking!Current(Booking!Bond(t))
    <3>1. old \in Booking!Positions
      BY DEF Booking!Current, Booking!ExistingData, Booking!NewPosition, Booking!Positions
    <3>2. trade[t] \in Booking!Trades
      BY <2>1 DEF AddsTrade, HandedOverOnce, Booking!Idle
    <3>3. Booking!UpdatePosition(old, trade[t]) \in Booking!Positions
      <4> HIDE DEF old
      <4> QED
        BY <3>1, <3>2, BookedType DEF Booking!UpdatePosition, Booking!Positions
    <3> QED
      BY <2>1, <3>3 DEF AddsTrade
  <2>2. CASE ~AddsTrade(t)
    BY <2>2 DEF Moves, TakesTrade, StoresPosition, WritesLine, Passes
  <2> QED
    BY <2>1, <2>2
<1> QED
  BY <1>1, <1>2, <1>3, MoveFrame

\* What a thread is about is new to booking, or was in its hands before.
LEMMA MoveTrades ==
    ASSUME BookingTyped, HandedOverOnce, NEW t \in Booking!Threads, Moves(t)
    PROVE  /\ bookingPc'[t] \notin Booking!Idle =>
                 \/ bookingPc[t] \notin Booking!Idle /\ trade'[t] = trade[t]
                 \/ trade'[t] \notin booked
           /\ bookingPc'[t] \in NotAdded => bookingPc[t] \in NotAdded \/ trade'[t] \notin booked
<1>1. CASE TakesTrade(t)
  BY <1>1 DEF TakesTrade, HandedOverOnce, BookingTyped
<1>2. CASE AddsTrade(t) \/ StoresPosition(t) \/ WritesLine(t)
  BY <1>2 DEF AddsTrade, StoresPosition, WritesLine, Goes, BookingTyped, NotAdded, Holding,
              Booking!Idle
<1>3. CASE Passes(t)
  BY <1>3 DEF Passes
<1> QED
  BY <1>1, <1>2, <1>3 DEF Moves

LEMMA MoveHandsOver ==
    ASSUME BookingTyped, HandedOverOnce, NEW t \in Booking!Threads, Moves(t)
    PROVE  HandedOverOnce'
<1>1. CASE TakesTrade(t)
  <2>1. PICK tr \in Booking!Trades :
          /\ \A next \in rows' \cup orders' : tr.id # next.id
          /\ trade' = [trade EXCEPT ![t] = tr]
          /\ booked' = booked \cup {tr}
    BY <1>1 DEF TakesTrade
  <2>2. trade'[t] = tr
    BY <2>1 DEF BookingTyped
  <2> QED
    BY <2>1, <2>2, MoveFrame DEF HandedOverOnce
<1>2. CASE ~TakesTrade(t)
  <2>1. UNCHANGED <<rows, orders, booked>>
    BY <1>2 DEF Moves, AddsTrade, StoresPosition, WritesLine, Passes
  <2>2. bookingPc'[t] \notin Booking!Idle =>
          bookingPc[t] \notin Booking!Idle /\ trade'[t] = trade[t]
    BY <1>2 DEF Moves, AddsTrade, StoresPosition, WritesLine, Passes, Holding, Booking!Idle
  <2> QED
    BY <2>1, <2>2, MoveFrame DEF HandedOverOnce
<1> QED
  BY <1>1, <1>2

LEMMA MoveOwns ==
    ASSUME BookingTyped, HandedOverOnce, OwnTrade, NEW t \in Booking!Threads, Moves(t)
    PROVE  OwnTrade'
<1>1. ASSUME NEW v \in Booking!Threads, bookingPc'[v] \notin Booking!Idle
      PROVE  \/ bookingPc[v] \notin Booking!Idle /\ trade'[v] = trade[v]
             \/ v = t /\ trade'[v] \notin booked
  BY <1>1, MoveFrame, MoveTrades
<1>2. \A v \in Booking!Threads : bookingPc[v] \notin Booking!Idle => trade[v] \in booked
  BY DEF HandedOverOnce
<1> QED
  BY <1>1, <1>2 DEF OwnTrade

\* Once added, a trade stays so.
LEMMA AddedGrows ==
    ASSUME BookingTyped, HandedOverOnce, NEW t \in Booking!Threads, Moves(t), NEW bond, NEW book
    PROVE  Added(bond, book) \subseteq Added(bond, book)'
<1>1. booked \subseteq booked'
  BY MoveFrame
<1>2. ASSUME NEW v \in Booking!Threads, bookingPc'[v] \in NotAdded
      PROVE  (bookingPc[v] \in NotAdded /\ trade'[v] = trade[v]) \/ trade'[v] \notin booked
  <2>1. CASE v = t
    BY <1>2, <2>1, MoveTrades DEF NotAdded, Booking!Idle
  <2>2. CASE v # t
    BY <1>2, <2>2, MoveFrame
  <2> QED
    BY <2>1, <2>2
<1> QED
  BY <1>1, <1>2 DEF Added, Booking!BookedIn

\* A line of positions.txt, or a copy of a position, counts a trade.
Counts(quantity, tr) ==
    \E others \in SUBSET (Booking!BookedIn(tr.bond, tr.book) \ {tr}) :
        quantity = Booking!SignedSum(others \cup {tr})

\* AddTrade adds a trade that the copy does not count yet.
LEMMA AddTradeAddsUp ==
    ASSUME CountInv, NEW t \in Booking!Threads, AddsTrade(t)
    PROVE  /\ AddsUp(position[t], Booking!Bond(t))'
           /\ Counts(position[t][trade[t].book], trade[t])'
<1> DEFINE current == Booking!Current(Booking!Bond(t))
<1>1. /\ bookingPc[t] = "addTrade" /\ bookingPc' = [bookingPc EXCEPT ![t] = "onPosition"]
      /\ UNCHANGED <<booked, trade>>
      /\ trade[t] \in Booking!Trades /\ trade[t] \in booked
  BY DEF AddsTrade, Goes, CountInv, BookingTyped, HandedOverOnce, Booking!Idle
<1>2. current \in Booking!Positions /\ AddsUp(current, Booking!Bond(t))
  <2>1. CASE Booking!Bond(t) \in DOMAIN positionMap
    BY <2>1 DEF Booking!Current, Booking!ExistingData, CountInv, BookingTyped, PositionsAddUp
  <2>2. CASE Booking!Bond(t) \notin DOMAIN positionMap
    BY <2>2, ZeroIsSum DEF Booking!Current, Booking!ExistingData, Booking!NewPosition,
                           Booking!Positions, AddsUp
  <2> QED
    BY <2>1, <2>2
<1>3. position'[t] = Booking!UpdatePosition(current, trade[t])
  BY DEF AddsTrade, CountInv, BookingTyped
<1> HIDE DEF current
<1>4. Moves(t)
  BY DEF Moves
<1>5. \A book : Added(Booking!Bond(t), book) \subseteq Added(Booking!Bond(t), book)'
  <2>1. \A bond, book : Added(bond, book) \subseteq Added(bond, book)'
    BY <1>4, AddedGrows DEF CountInv
  <2>2. Booking!Bond(t)' = Booking!Bond(t)
    BY <1>1 DEF Booking!Bond
  <2> QED
    BY <2>1, <2>2
<1>6. trade[t] \in Added(Booking!Bond(t), trade[t].book)'
  <2>1. trade[t] \in Booking!BookedIn(Booking!Bond(t), trade[t].book)'
    BY <1>1 DEF Booking!BookedIn, Booking!Bond
  <2>2. \A v \in Booking!Threads : bookingPc'[v] \in NotAdded => trade'[v] # trade[t]
    BY <1>1 DEF CountInv, BookingTyped, OwnTrade, NotAdded, Booking!Idle
  <2> QED
    BY <2>1, <2>2 DEF Added
<1>7. PICK counted \in SUBSET Added(Booking!Bond(t), trade[t].book) :
         current[trade[t].book] = Booking!SignedSum(counted)
  BY <1>1, <1>2, BookedType DEF AddsUp, IsSumOf
<1>8. position'[t][trade[t].book] = Booking!SignedSum(counted \cup {trade[t]})
  <2>1. position'[t][trade[t].book] = current[trade[t].book] + Booking!Signed(trade[t])
    BY <1>1, <1>2, <1>3, BookedType DEF Booking!UpdatePosition, Booking!Positions
  <2>2. trade[t] \notin Added(Booking!Bond(t), trade[t].book)
    BY <1>1 DEF Added, NotAdded
  <2>3. counted \in SUBSET booked /\ counted \in SUBSET Booking!Trades
    BY DEF Added, Booking!BookedIn, CountInv, BookingTyped
  <2>4. IsFiniteSet(counted)
    BY <2>3, FS_Subset DEF CountInv, BookingTyped
  <2>5. Booking!SignedSum(counted \cup {trade[t]})
            = Booking!SignedSum(counted) + Booking!Signed(trade[t])
    BY <1>1, <2>2, <2>3, <2>4, SumWith
  <2> QED
    BY <1>7, <2>1, <2>5
<1>9. ASSUME NEW book \in Booking!Books
      PROVE  IsSumOf(position[t][book], Added(Booking!Bond(t), book))'
  <2>1. CASE book # trade[t].book
    <3>1. position'[t][book] = current[book]
      BY <1>2, <1>3, <2>1 DEF Booking!UpdatePosition, Booking!Positions
    <3>2. IsSumOf(current[book], Added(Booking!Bond(t), book))
      BY <1>2 DEF AddsUp
    <3> QED
      BY <1>5, <3>1, <3>2 DEF IsSumOf
  <2>2. CASE book = trade[t].book
    <3>1. counted \cup {trade[t]} \in SUBSET Added(Booking!Bond(t), book)'
      BY <1>1, <1>5, <1>6, <2>2
    <3> QED
      BY <1>8, <2>2, <3>1 DEF IsSumOf
  <2> QED
    BY <2>1, <2>2
<1>10. counted \in SUBSET (Booking!BookedIn(trade[t].bond, trade[t].book) \ {trade[t]})'
  <2>1. trade[t] \notin Added(Booking!Bond(t), trade[t].book)
    BY <1>1 DEF Added, NotAdded
  <2> QED
    BY <1>1, <2>1 DEF Added, Booking!BookedIn, Booking!Bond
<1> QED
  BY <1>1, <1>8, <1>9, <1>10 DEF AddsUp, Counts

LEMMA MoveAddsUp ==
    ASSUME CountInv, NEW t \in Booking!Threads, Moves(t)
    PROVE  PositionsAddUp'
<1> USE DEF CountInv
<1>1. ASSUME NEW bond \in DOMAIN positionMap'
      PROVE  AddsUp(positionMap[bond], bond)'
  <2>1. CASE bond \in DOMAIN positionMap /\ positionMap'[bond] = positionMap[bond]
    <3>1. AddsUp(positionMap[bond], bond)
      BY <2>1 DEF PositionsAddUp
    <3> QED
      BY <2>1, <3>1, AddedGrows, SumOfMore DEF AddsUp
  <2>2. CASE bond = Booking!Bond(t) /\ positionMap'[bond] = position[t] /\ bookingPc[t] \in Holding
    <3>1. AddsUp(position[t], bond)
      BY <2>2 DEF PositionsAddUp
    <3> QED
      BY <2>2, <3>1, AddedGrows, SumOfMore DEF AddsUp
  <2>3. positionMap' = positionMap \/ StoresPosition(t)
    BY DEF Moves, TakesTrade, AddsTrade, WritesLine, Passes
  <2> QED
    BY <1>1, <2>1, <2>2, <2>3 DEF StoresPosition
<1>2. ASSUME NEW v \in Booking!Threads, bookingPc'[v] \in Holding
      PROVE  AddsUp(position[v], Booking!Bond(v))'
  <2>1. CASE v = t /\ AddsTrade(t)
    BY <2>1, AddTradeAddsUp
  <2>2. CASE bookingPc[v] \in Holding /\ position'[v] = position[v] /\ trade'[v] = trade[v]
    <3>1. AddsUp(position[v], Booking!Bond(v))
      BY <2>2 DEF PositionsAddUp
    <3> QED
      BY <2>2, <3>1, AddedGrows, SumOfMore DEF AddsUp, Booking!Bond
  <2>3. CASE v = t /\ ~AddsTrade(t)
    <3>1. ~TakesTrade(t) /\ ~StoresPosition(t) /\ ~WritesLine(t)
      BY <1>2, <2>3 DEF TakesTrade, StoresPosition, WritesLine, Goes, BookingTyped, Holding
    <3>2. Passes(t) /\ bookingPc'[t] \notin Booking!Idle
      BY <1>2, <2>3, <3>1 DEF Moves, Holding, Booking!Idle
    <3> QED
      BY <1>2, <2>2, <2>3, <3>2 DEF Passes
  <2>4. CASE v # t
    BY <1>2, <2>2, <2>4, MoveFrame
  <2> QED
    BY <2>1, <2>3, <2>4
<1> QED
  BY <1>1, <1>2 DEF PositionsAddUp

\* A step of the composition leaves booking alone, or is a step of one of its threads.
LEMMA StepOfBooking ==
    ASSUME [SystemNext]_systemVars
    PROVE  UNCHANGED bookingOnly \/ \E t \in Booking!Threads : BookingStep(t)
<1>1. md \in Booking!Threads /\ "trades_thread" \in Booking!Threads
  BY DEF md, Booking!Threads
<1>2. CASE UNCHANGED systemVars
  BY <1>2 DEF systemVars
<1> QED
  BY <1>1, <1>2 DEF SystemNext, MarketFeed, EndOfFeed, MarketdataCall, ExecutionCall, BookOrder,
     BookingCall, PublishOrder, TradesFeed, BookingStep

LEMMA InitCount == SystemInit => CountInv
<1> SUFFICES ASSUME SystemInit PROVE CountInv
  OBVIOUS
<1>1. Booking!NewPosition \in Booking!Positions
  BY DEF Booking!NewPosition, Booking!Positions
<1>2. BookingTyped
  BY <1>1, FS_EmptySet DEF SystemInit, Booking!Init, BookingTyped, Booking!EmptyMap
<1>3. HandedOverOnce /\ OwnTrade
  BY DEF SystemInit, Booking!Init, HandedOverOnce, OwnTrade, Booking!Idle
<1>4. PositionsAddUp
  BY DEF SystemInit, Booking!Init, PositionsAddUp, Booking!EmptyMap, Holding
<1> QED
  BY <1>2, <1>3, <1>4 DEF CountInv

LEMMA NextCount == TypeOK /\ CountInv /\ [SystemNext]_systemVars => CountInv'
<1> SUFFICES ASSUME TypeOK, CountInv, [SystemNext]_systemVars PROVE CountInv'
  OBVIOUS
<1>1. CASE UNCHANGED bookingOnly
  <2>1. UNCHANGED <<rows, orders, booked, positionMap, bookingPc, trade, position>>
    BY <1>1 DEF bookingOnly
  <2>2. BookingTyped'
    BY <2>1 DEF CountInv, BookingTyped
  <2>3. HandedOverOnce' /\ OwnTrade'
    BY <2>1 DEF CountInv, HandedOverOnce, OwnTrade
  <2>4. \A bond, book : Added(bond, book)' = Added(bond, book)
    BY <2>1 DEF Added, Booking!BookedIn
  <2>5. PositionsAddUp'
    <3>1. \A bond \in DOMAIN positionMap' : AddsUp(positionMap[bond], bond)'
      BY <2>1, <2>4 DEF AddsUp, CountInv, PositionsAddUp
    <3>2. \A t \in Booking!Threads :
             bookingPc'[t] \in Holding => AddsUp(position[t], Booking!Bond(t))'
      BY <2>1, <2>4 DEF AddsUp, CountInv, PositionsAddUp, Booking!Bond
    <3> QED
      BY <3>1, <3>2 DEF PositionsAddUp
  <2> QED
    BY <2>2, <2>3, <2>5 DEF CountInv
<1>2. ASSUME NEW t \in Booking!Threads, BookingStep(t) PROVE CountInv'
  <2>1. Moves(t)
    BY <1>2, StepMoves DEF CountInv
  <2> QED
    BY <2>1, MoveType, MoveHandsOver, MoveOwns, MoveAddsUp DEF CountInv
<1> QED
  BY <1>1, <1>2, StepOfBooking

\* No position counts a trade twice, as in BondBooking, and here whatever the orders are
\* that marketdata_thread makes of its own feed.
THEOREM SystemCountsOnce == SystemSpec => []Booking!NoDoubleCount
<1>1. CountInv => Booking!NoDoubleCount
  BY DEF CountInv, PositionsAddUp, AddsUp, IsSumOf, Added, Booking!NoDoubleCount
<1> QED
  BY <1>1, InitCount, NextCount, SystemFollowsFile, PTL DEF SystemSpec

\* While marketdata_thread is in booking it waits to publish the order it handed over.
InHand ==
    bookingPc[md] \notin Booking!Idle =>
        pc = "publish" /\ trade[md].id = order /\ trade[md].bond = order.bond

\* Its own copy counts it from AddTrade on, whatever the map has.
InHandCounted ==
    bookingPc[md] \in Holding \cup {"persistPosition"} =>
        Counts(position[md][trade[md].book], trade[md])

\* Past the line of positions.txt, and back in BondExecutionService, the order is in it.
PublishesPositioned == pc = "publish" /\ bookingPc[md] \notin BeforeLine => Positioned(order)

LogPositioned == \A o \in Range(log) : Positioned(o)

\* The order in hand is on file before it is booked.
FilePositioned ==
    \A o \in Range(executionsFile) : Positioned(o) \/ (pc \in {"book", "publish"} /\ o = order)

PositionedInv ==
    InHand /\ InHandCounted /\ PublishesPositioned /\ LogPositioned /\ FilePositioned

\* What a line of positions.txt counts, it goes on counting.
LEMMA PositionedStays ==
    ASSUME positionsFile \subseteq positionsFile', booked \subseteq booked', NEW o, Positioned(o)
    PROVE  Positioned(o)'
<1>1. \A bond, book : Booking!BookedIn(bond, book) \subseteq Booking!BookedIn(bond, book)'
  BY DEF Booking!BookedIn
<1> QED
  BY <1>1 DEF Positioned

\* Only AddTrade changes the copy in hand; the other thread has a copy of its own.
LEMMA CountedStep ==
    ASSUME CountInv, InHandCounted, NEW t \in Booking!Threads, Moves(t)
    PROVE  InHandCounted'
<1> SUFFICES ASSUME bookingPc'[md] \in Holding \cup {"persistPosition"}
             PROVE  Counts(position[md][trade[md].book], trade[md])'
  BY DEF InHandCounted
<1>1. md \in Booking!Threads
  BY DEF md, Booking!Threads
<1>2. CASE t = md /\ AddsTrade(md)
  BY <1>1, <1>2, AddTradeAddsUp
<1>3. CASE /\ bookingPc[md] \in Holding \cup {"persistPosition"}
           /\ position'[md] = position[md] /\ trade'[md] = trade[md]
  <2>1. Counts(position[md][trade[md].book], trade[md])
    BY <1>3 DEF InHandCounted
  <2>2. PICK tr : tr = trade[md]
    OBVIOUS
  <2>3. PICK others \in SUBSET (Booking!BookedIn(tr.bond, tr.book) \ {tr}) :
           position[md][tr.book] = Booking!SignedSum(others \cup {tr})
    BY <2>1, <2>2 DEF Counts
  <2>4. Booking!BookedIn(tr.bond, tr.book) \subseteq Booking!BookedIn(tr.bond, tr.book)'
    <3>1. booked \subseteq booked'
      BY MoveFrame DEF CountInv
    <3> QED
      BY <3>1 DEF Booking!BookedIn
  <2>5. trade'[md] = tr /\ position'[md][tr.book] = Booking!SignedSum(others \cup {tr})
    BY <1>3, <2>2, <2>3
  <2>6. \E some \in SUBSET (Booking!BookedIn(tr.bond, tr.book)' \ {tr}) :
           position'[md][tr.book] = Booking!SignedSum(some \cup {tr})
    BY <2>4, <2>5
  <2> QED
    BY <2>5, <2>6 DEF Counts
<1>4. CASE t = md /\ ~AddsTrade(md)
  <2>1. ~TakesTrade(md) /\ ~WritesLine(md)
    BY <1>1, <1>4 DEF TakesTrade, WritesLine, Goes, CountInv, BookingTyped, Holding
  <2>2. bookingPc'[md] \notin Booking!Idle
    BY DEF Holding, Booking!Idle
  <2>3. CASE StoresPosition(md)
    BY <1>3, <2>3 DEF StoresPosition
  <2>4. CASE Passes(md)
    BY <1>3, <2>2, <2>4 DEF Passes
  <2> QED
    BY <1>4, <2>1, <2>3, <2>4 DEF Moves
<1>5. CASE t # md
  BY <1>1, <1>3, <1>5, MoveFrame DEF CountInv
<1> QED
  BY <1>2, <1>4, <1>5

\* It is the line of positions.txt that takes marketdata_thread past it.
LEMMA LineStep ==
    ASSUME CountInv, InHand, InHandCounted, PublishesPositioned, pc = "publish", order' = order,
           NEW t \in Booking!Threads, Moves(t), bookingPc'[md] \notin BeforeLine
    PROVE  Positioned(order)'
<1>1. md \in Booking!Threads /\ positionsFile \subseteq positionsFile' /\ booked \subseteq booked'
  BY MoveFrame DEF md, Booking!Threads, CountInv
<1>2. CASE bookingPc[md] \notin BeforeLine
  <2>1. Positioned(order)
    BY <1>2 DEF PublishesPositioned
  <2> QED
    BY <1>1, <2>1, PositionedStays
<1>3. CASE t = md /\ WritesLine(md)
  <2>1. /\ bookingPc[md] = "persistPosition"
        /\ Booking!PositionLine(md) \in positionsFile'
        /\ UNCHANGED <<booked, trade, position>>
    BY <1>3 DEF WritesLine
  <2>2. trade[md] \in booked /\ trade[md].id = order /\ trade[md].bond = order.bond
    BY <1>1, <2>1 DEF InHand, CountInv, HandedOverOnce, Booking!Idle
  <2>3. PICK others \in SUBSET (Booking!BookedIn(trade[md].bond, trade[md].book) \ {trade[md]}) :
           position[md][trade[md].book] = Booking!SignedSum(others \cup {trade[md]})
    BY <2>1 DEF InHandCounted, Counts
  <2>4. /\ Booking!PositionLine(md).bond = order.bond
        /\ Booking!PositionLine(md).position = position[md]
    BY <2>2 DEF Booking!PositionLine, Booking!Bond
  <2>5. \A bond, book : Booking!BookedIn(bond, book)' = Booking!BookedIn(bond, book)
    BY <2>1 DEF Booking!BookedIn
  <2> QED
    BY <2>1, <2>2, <2>3, <2>4, <2>5 DEF Positioned
<1>4. CASE t = md /\ ~WritesLine(md) /\ bookingPc[md] \in BeforeLine
  <2>1. Passes(md)
    BY <1>1, <1>4 DEF Moves, TakesTrade, AddsTrade, StoresPosition, Goes, CountInv, BookingTyped,
                      BeforeLine, NotAdded, Holding
  <2> QED
    BY <1>4, <2>1 DEF Passes, BeforeLine
<1>5. CASE t # md /\ bookingPc[md] \in BeforeLine
  BY <1>1, <1>5, MoveFrame DEF CountInv
<1> QED
  BY <1>2, <1>3, <1>4, <1>5

LEMMA InitPositioned == SystemInit => PositionedInv
BY DEF SystemInit, Init, Booking!Init, PositionedInv, InHand, InHandCounted,
       PublishesPositioned, LogPositioned, FilePositioned, Booking!Idle, Booking!Threads, md,
       Holding, Range

\* A step of booking, on either thread.
LEMMA BookingPositioned ==
    ASSUME CountInv, PositionedInv, UNCHANGED <<pc, order, log, executionsFile>>,
           NEW t \in Booking!Threads, Moves(t), ~(t = md /\ TakesTrade(md))
    PROVE  PositionedInv'
<1> USE DEF PositionedInv
<1>1. /\ md \in Booking!Threads
      /\ positionsFile \subseteq positionsFile' /\ booked \subseteq booked'
  BY MoveFrame DEF md, Booking!Threads, CountInv
<1>2. \A o : Positioned(o) => Positioned(o)'
  BY <1>1, PositionedStays
<1>3. InHand'
  <2>1. bookingPc'[md] \notin Booking!Idle =>
           bookingPc[md] \notin Booking!Idle /\ trade'[md] = trade[md]
    <3>1. CASE t = md
      BY <3>1 DEF Moves, AddsTrade, StoresPosition, WritesLine, Passes, Holding, Booking!Idle
    <3>2. CASE t # md
      BY <1>1, <3>2, MoveFrame DEF CountInv
    <3> QED
      BY <3>1, <3>2
  <2> QED
    BY <2>1 DEF InHand
<1>4. InHandCounted'
  BY CountedStep
<1>5. PublishesPositioned'
  <2> SUFFICES ASSUME pc' = "publish", bookingPc'[md] \notin BeforeLine
               PROVE  Positioned(order)'
    BY DEF PublishesPositioned
  <2> QED
    BY LineStep
<1>6. LogPositioned' /\ FilePositioned'
  BY <1>2 DEF LogPositioned, FilePositioned
<1> QED
  BY <1>3, <1>4, <1>5, <1>6

\* BondTradeBookingService is handed the order that waits to be published.
LEMMA HandOverPositioned ==
    ASSUME CountInv, PositionedInv, BookOrder PROVE PositionedInv'
<1> USE DEF PositionedInv
<1>1. /\ md \in Booking!Threads /\ DOMAIN bookingPc = Booking!Threads
      /\ DOMAIN trade = Booking!Threads
  BY DEF md, Booking!Threads, CountInv, BookingTyped
<1>2. /\ pc = "book" /\ pc' = "publish" /\ UNCHANGED <<order, log, executionsFile>>
      /\ orders' = orders \ {BookingOrder(order)}
  BY DEF BookOrder, BookTrade, After, services
<1>3. PICK given \in orders :
        /\ orders' = orders \ {given}
        /\ Booking!HandOver(md, Booking!TradeOf(given, trading_books[current_book_idx + 1]))
  BY DEF BookOrder, Booking!BookExecution
<1>4. given = BookingOrder(order)
  BY <1>2, <1>3
<1>5. /\ trade'[md].id = order /\ trade'[md].bond = order.bond
      /\ bookingPc'[md] = "bookTrade"
      /\ positionsFile' = positionsFile /\ booked \subseteq booked'
  BY <1>1, <1>3, <1>4 DEF Booking!HandOver, Booking!TradeOf, Booking!Goto, Booking!files,
                          BookingOrder
<1>6. \A o : Positioned(o) => Positioned(o)'
  BY <1>5, PositionedStays
<1>7. InHand' /\ InHandCounted' /\ PublishesPositioned'
  BY <1>2, <1>5 DEF InHand, InHandCounted, PublishesPositioned, Holding, BeforeLine, NotAdded
<1>8. LogPositioned' /\ FilePositioned'
  BY <1>2, <1>6 DEF LogPositioned, FilePositioned
<1> QED
  BY <1>7, <1>8

\* Steps of execution while booking stands: only Publish, once BookTrade has returned,
\* gives the log an order or is done with one, and only PersistData files one.
LEMMA ExecutionPositioned ==
    ASSUME PositionedInv, UNCHANGED <<trade, position, booked, positionsFile>>,
           bookingPc'[md] = bookingPc[md] \/ bookingPc'[md] = "stopped",
           bookingPc[md] \in Booking!Idle \/ (pc' = pc /\ order' = order),
           pc' = "publish" => pc = "publish" /\ order' = order /\ bookingPc'[md] = bookingPc[md],
           \A o \in Range(log') :
              o \in Range(log) \/ (pc = "publish" /\ bookingPc[md] = "read" /\ o = order),
           \A o \in Range(executionsFile') :
              o \in Range(executionsFile) \/ (pc' = "book" /\ o = order'),
           pc \in {"book", "publish"} =>
              \/ pc' = pc /\ order' = order
              \/ pc = "publish" /\ bookingPc[md] = "read"
    PROVE  PositionedInv'
<1> USE DEF PositionedInv
<1>1. \A o : Positioned(o) => Positioned(o)'
  BY PositionedStays
<1>2. pc = "publish" /\ bookingPc[md] = "read" => Positioned(order)
  BY DEF PublishesPositioned, BeforeLine, NotAdded, Holding
<1>3. bookingPc'[md] \in Booking!Idle \/ (bookingPc'[md] = bookingPc[md] /\ pc' = pc /\ order' = order)
  BY DEF Booking!Idle
<1>4. InHand' /\ InHandCounted'
  BY <1>3 DEF InHand, InHandCounted, Holding, Booking!Idle, Counts, Booking!BookedIn
<1>5. PublishesPositioned'
  BY <1>1 DEF PublishesPositioned
<1>6. LogPositioned' /\ FilePositioned'
  BY <1>1, <1>2 DEF LogPositioned, FilePositioned
<1> QED
  BY <1>4, <1>5, <1>6

LEMMA AppendRange ==
    ASSUME NEW S, NEW seq \in Seq(S), NEW x, NEW y \in Range(Append(seq, x))
    PROVE  y \in Range(seq) \/ y = x
BY DEF Range

LEMMA NextPositioned ==
    TypeOK /\ CountInv /\ PositionedInv /\ [SystemNext]_systemVars => PositionedInv'
<1> SUFFICES ASSUME TypeOK, CountInv, PositionedInv, [SystemNext]_systemVars
             PROVE  PositionedInv'
  OBVIOUS
<1>1. /\ md \in Booking!Threads /\ "trades_thread" \in Booking!Threads /\ md # "trades_thread"
      /\ DOMAIN bookingPc = Booking!Threads
  BY DEF md, Booking!Threads, CountInv, BookingTyped
<1>2. bookingPc[md] \in Booking!Idle \/ pc = "publish"
  BY DEF PositionedInv, InHand
<1>3. CASE MarketFeed
  BY <1>2, <1>3, ExecutionPositioned DEF MarketFeed, OnMessage, LogDies, services, bookingOnly
<1>4. CASE EndOfFeed
  <2>1. /\ bookingPc'[md] = "stopped"
        /\ UNCHANGED <<trade, position, booked, positionsFile>>
    BY <1>1, <1>4 DEF EndOfFeed, Booking!StopReading, Booking!Goto, Booking!feeds,
                      Booking!files, Booking!locals
  <2>2. pc = "read" /\ pc' = "stopped" /\ UNCHANGED <<order, log, executionsFile>>
    BY <1>4 DEF EndOfFeed, StopReading, services
  <2> QED
    BY <1>2, <2>1, <2>2, ExecutionPositioned
<1>5. CASE ExecutionCall
  <2>1. UNCHANGED <<bookingPc, trade, position, booked, positionsFile>>
    BY <1>5 DEF ExecutionCall, bookingOnly
  <2>2. /\ pc \in {"aggress", "algoexec", "execute", "persist"}
        /\ pc' \in {"algoexec", "execute", "persist", "book", "read"}
        /\ log' = log
    BY <1>5 DEF ExecutionCall, AggressBook, OnMessageAlgo, ExecuteOrder, PersistData, After
  <2>3. \/ executionsFile' = executionsFile
        \/ executionsFile' = Append(executionsFile, order) /\ pc' = "book" /\ order' = order
    BY <1>5 DEF ExecutionCall, AggressBook, OnMessageAlgo, ExecuteOrder, PersistData, After
  <2>4. \A o \in Range(executionsFile') :
          o \in Range(executionsFile) \/ (pc' = "book" /\ o = order')
    BY <2>3, AppendRange DEF TypeOK
  <2> QED
    BY <1>2, <2>1, <2>2, <2>4, ExecutionPositioned
<1>6. CASE BookOrder
  BY <1>6, HandOverPositioned
<1>7. CASE PublishOrder
  <2>1. /\ bookingPc[md] = "read" /\ pc = "publish" /\ pc' \in {"read", "stopped"}
        /\ UNCHANGED <<order, executionsFile>>
        /\ log' = log \/ log' = Append(log, order)
    BY <1>7 DEF PublishOrder, Publish, After, services
  <2>2. \A o \in Range(log') : o \in Range(log) \/ o = order
    BY <2>1, AppendRange DEF TypeOK
  <2>3. /\ bookingPc'[md] = bookingPc[md] \/ bookingPc'[md] = "stopped"
        /\ UNCHANGED <<trade, position, booked, positionsFile>>
    BY <1>1, <1>7 DEF PublishOrder, bookingOnly, Booking!StopReading, Booking!Goto,
                      Booking!feeds, Booking!files, Booking!locals
  <2> QED
    BY <2>1, <2>2, <2>3, ExecutionPositioned DEF Booking!Idle
<1>8. ASSUME NEW t \in Booking!Threads, BookingStep(t), UNCHANGED executionOnly,
             ~(t = md /\ bookingPc[md] = "read")
      PROVE  PositionedInv'
  <2>1. Moves(t) /\ ~(t = md /\ TakesTrade(md))
    BY <1>8, StepMoves DEF CountInv, TakesTrade
  <2>2. UNCHANGED <<pc, order, log, executionsFile>>
    BY <1>8 DEF executionOnly, services
  <2> QED
    BY <2>1, <2>2, BookingPositioned
<1>9. CASE BookingCall(md) \/ BookingCall("trades_thread")
  <2>1. BookingCall(md) => bookingPc[md] # "read"
    BY <1>1, BookingPlaces
  <2> QED
    BY <1>1, <1>8, <1>9, <2>1 DEF BookingCall, BookingStep
<1>10. CASE TradesFeed
  BY <1>1, <1>8, <1>10 DEF TradesFeed, BookingStep
<1>11. CASE UNCHANGED systemVars
  <2>1. UNCHANGED <<bookingPc, trade, position, booked, positionsFile, pc, order, log,
                    executionsFile>>
    BY <1>11 DEF systemVars, executionOnly, bookingOnly, services
  <2> QED
    BY <2>1, ExecutionPositioned
<1> QED
  BY <1>3, <1>4, <1>5, <1>6, <1>7, <1>9, <1>10, <1>11 DEF SystemNext, MarketdataCall

LEMMA InvMeansPositioned == PositionedInv => PositionedBeforePublished
BY DEF PositionedInv, LogPositioned, FilePositioned, PositionedBeforePublished

\* Whatever trades_thread does to the positions meanwhile, and whenever the log dies: an
\* order that the log has received is counted by a line of positions.txt, and so is every
\* order of executions.txt once marketdata_thread is done with it.
THEOREM PositionsBehindPublished == SystemSpec => []PositionedBeforePublished
BY InitCount, NextCount, InitPositioned, NextPositioned, InvMeansPositioned, SystemFollowsFile,
   PTL DEF SystemSpec
=============================================================================
