----------------------------- MODULE BondBooking -----------------------------
(***************************************************************************)
(* Trade booking, positions and risk: BondTradeBookingService,             *)
(* BondPositionService, BondRiskService and the services that persist      *)
(* positions and risk to files.                                            *)
(*                                                                         *)
(* Two threads of main.cpp drive these services and no lock protects them. *)
(* trades_thread books a row of the trades feed; marketdata_thread books   *)
(* the execution orders its own services make.  A service calls its        *)
(* listeners synchronously, so one message is one call chain on the thread *)
(* that read it:                                                           *)
(*                                                                         *)
(*   OnMessage(trade) -> AddTrade -> OnMessage(position)                   *)
(*       -> [positions.txt] -> AddPosition -> OnMessage(risk)              *)
(*       -> [risk.txt] -> GetBucketedRisk -> OnMessageBucket -> [risk.txt] *)
(*                                                                         *)
(* pc[t] is the next access thread t makes to state it shares.  Where two  *)
(* accesses overlap and one writes, the C++ program has a data race, with  *)
(* the outcomes of Find, Copies, LostInsert, MixedUpdate, GarbledLine and  *)
(* Crash.  AccessesOverlap = FALSE leaves them out.                        *)
(***************************************************************************)
EXTENDS Integers, Sequences, FiniteSets, FiniteSetsExt, ServiceMap

CONSTANTS
    Bonds,              \* product ids
    trading_books,      \* the books, in round-robin order
    Sectors,            \* bucketed sectors
    bond2bucketmap,     \* the sector of each bond
    GetProducts,        \* the bonds of each sector, in order
    PV01map,            \* the PV01 of each bond
    TradeRows,          \* trades the trades feed may deliver
    ExecutionOrders,    \* orders the market data chain may hand over
    AccessesOverlap     \* FALSE: as if every container and file were atomic

Books == Range(trading_books)
Sides == {"BUY", "SELL"}

\* A trade made from an execution order: buying on the bid, selling otherwise.
TradeOf(order, book) ==
    [id |-> order.id, bond |-> order.bond, book |-> book,
     side |-> IF order.side = "BID" THEN "BUY" ELSE "SELL",
     quantity |-> order.quantity]

Trades == TradeRows \cup {TradeOf(order, book) : order \in ExecutionOrders, book \in Books}

(***************************************************************************)
(* Ids are random strings of the provider and of GenOrderId: taken to be   *)
(* distinct.  tradinguniverse.hpp lists each bond in one sector, the one   *)
(* bond2bucketmap gives, and gives it a PV01.                              *)
(***************************************************************************)
ASSUME BooksAssumption ==
    trading_books \in Seq(Range(trading_books)) /\ Len(trading_books) > 0

ASSUME UniverseAssumption ==
    /\ bond2bucketmap \in [Bonds -> Sectors]
    /\ GetProducts \in [Sectors -> Seq(Bonds)]
    /\ \A sector \in Sectors :
          Range(GetProducts[sector]) = {bond \in Bonds : bond2bucketmap[bond] = sector}
    /\ PV01map \in [Bonds -> Int]
    /\ Bonds \cap Sectors = {}

ASSUME TradeAssumption ==
    /\ \A row \in TradeRows :
          row.bond \in Bonds /\ row.book \in Books /\ row.side \in Sides /\ row.quantity \in Nat
    /\ \A order \in ExecutionOrders :
          order.bond \in Bonds /\ order.side \in {"BID", "OFFER"} /\ order.quantity \in Nat
    /\ \A a, b \in TradeRows \cup ExecutionOrders : a.id = b.id => a = b

ASSUME OverlapAssumption == AccessesOverlap \in BOOLEAN

Threads == {"trades_thread", "marketdata_thread"}

VARIABLES
    rows,               \* rows still to come on the trades feed
    orders,             \* orders the market data chain has still to make
    booked,             \* history: the trades handed to BookTrade or OnMessage
    current_book_idx,   \* BondTradeBookingService::current_book_idx
    tradeMap,           \* the map of BondTradeBookingService
    positionMap,        \* the map of BondPositionService
    riskMap,            \* the map of BondRiskService: bond -> quantity
    positionsFile,      \* the lines written to positions.txt
    riskFile,           \* the last readable line of each product in risk.txt
    pc,                 \* the next shared access of each thread
    trade,              \* the trade a thread's call chain is about
    position,           \* AddTrade's local position
    bucket,             \* GetBucketedRisk's local vectors: bond -> quantity
    cursor,             \* GetBucketedRisk's place in sector.GetProducts()
    crashed             \* a data race has brought the process down

services == <<tradeMap, positionMap, riskMap>>
files    == <<positionsFile, riskFile>>
feeds    == <<rows, orders, booked, current_book_idx>>
locals   == <<trade, position, bucket, cursor>>
vars     == <<feeds, services, files, pc, locals, crashed>>

-----------------------------------------------------------------------------
(* Positions and risk as values.                                           *)

Positions == [Books -> Int]

\* A book without an entry in Position::positions counts and prints as 0.
NewPosition == [book \in Books |-> 0]

Signed_SideIgnored(tr) == tr.quantity                               \* mutant
Signed(tr) == IF tr.side = "BUY" THEN tr.quantity ELSE -tr.quantity

UpdatePosition_FirstBook(pos, tr) ==                                \* mutant
    [pos EXCEPT ![trading_books[1]] = @ + Signed(tr)]
UpdatePosition_Assigned(pos, tr) == [pos EXCEPT ![tr.book] = Signed(tr)]  \* mutant
UpdatePosition(pos, tr) == [pos EXCEPT ![tr.book] = @ + Signed(tr)]

GetAggregatePosition(pos) == SumFunction(pos)

\* The weighted average is kept as its numerator: quantity * pv01 of a bond.
BondRisk(bond, quantity) == [weighted |-> quantity * PV01map[bond], quantity |-> quantity]

BucketedRisk_Unguarded(quantities) ==                               \* mutant
    [weighted |-> SumFunction([bond \in DOMAIN quantities |-> quantities[bond] * PV01map[bond]]),
     quantity |-> SumFunction(quantities)]
BucketedRisk(quantities) ==
    LET total == SumFunction(quantities)
    IN [weighted |-> IF total = 0 THEN 0
                     ELSE SumFunction([bond \in DOMAIN quantities |->
                                          quantities[bond] * PV01map[bond]]),
        quantity |-> total]

NoTrade == [id |-> "none"]

-----------------------------------------------------------------------------
(* Control.                                                                *)

Idle == {"read", "stopped"}

InsertSteps == {"bookTrade", "insertPosition", "insertRisk"}
FileSteps   == {"persistPosition", "persistRisk", "persistBucket"}

Labels == Idle \cup InsertSteps \cup FileSteps
               \cup {"addTrade", "onPosition", "updatePosition",
                     "onRisk", "updateRisk", "bucketRisk", "onBucket"}

Goto(t, label) == pc' = [pc EXCEPT ![t] = label]

Bond(t)   == trade[t].bond
Sector(t) == bond2bucketmap[Bond(t)]

\* The object a step accesses.
Object(label) ==
    CASE label = "bookTrade" -> "tradeMap"
      [] label \in {"addTrade", "onPosition", "insertPosition", "updatePosition"} -> "positionMap"
      [] label \in {"onRisk", "insertRisk", "updateRisk", "bucketRisk", "onBucket"} -> "riskMap"
      [] label = "persistPosition" -> "positionsFile"
      [] label \in {"persistRisk", "persistBucket"} -> "riskFile"
      [] OTHER -> "none"

\* The product GetBucketedRisk's loop is at.
Product(t) == GetProducts[Sector(t)][cursor[t]]

(***************************************************************************)
(* A data race: t and u are about to access one object, and one writes it. *)
(* An insert or a line written races with every access of its container;   *)
(* an update races with a copy or an update of the same bond's Position.   *)
(* A PV01 is one word of quantity and fields rewritten with equal bytes,   *)
(* so assigning it shows readers the old quantity or the new one.          *)
(***************************************************************************)
DataRace(t, u) ==
    /\ AccessesOverlap
    /\ t # u
    /\ Object(pc[t]) = Object(pc[u]) /\ Object(pc[t]) # "none"
    /\ \/ {pc[t], pc[u]} \cap (InsertSteps \cup FileSteps) # {}
       \/ /\ pc[t] = "updatePosition" /\ pc[u] \in {"addTrade", "updatePosition"}
          /\ Bond(t) = Bond(u)

\* Another thread is in the middle of inserting into the map t looks into.
UnderInsert(t) == \E u \in Threads : DataRace(t, u) /\ pc[u] \in InsertSteps

(***************************************************************************)
(* What map.find answers thread t: the truth, or, while another thread     *)
(* relinks the nodes of the map, possibly "not there".                     *)
(***************************************************************************)
Find(t, map, key) == {ExistingData(map, key)} \cup (IF UnderInsert(t) THEN {FALSE} ELSE {})

\* A std::map copied while it is assigned: each book old, new, or not there yet.
Torn(old, new) ==
    {[book \in Books |-> IF book \in fresh THEN new[book]
                         ELSE IF book \in cleared THEN 0 ELSE old[book]] :
        fresh \in SUBSET Books, cleared \in SUBSET Books}

\* What copying positionMap[Bond(t)] can give thread t.
Copies(t) ==
    {GetData(positionMap, Bond(t))}
        \cup UNION {Torn(GetData(positionMap, Bond(t)), position[u]) :
                       u \in {v \in Threads : DataRace(v, t) /\ pc[v] = "updatePosition"}}

-----------------------------------------------------------------------------
Init ==
    /\ rows = TradeRows
    /\ orders = ExecutionOrders
    /\ booked = {}
    /\ current_book_idx = 0
    /\ tradeMap = EmptyMap
    /\ positionMap = EmptyMap
    /\ riskMap = EmptyMap
    /\ positionsFile = {}
    /\ riskFile = EmptyMap
    /\ pc = [t \in Threads |-> "read"]
    /\ trade = [t \in Threads |-> NoTrade]
    /\ position = [t \in Threads |-> NewPosition]
    /\ bucket = [t \in Threads |-> EmptyMap]
    /\ cursor = [t \in Threads |-> 1]
    /\ crashed = FALSE

(* Feeds.                                                                  *)

HandOver(t, tr) ==
    /\ trade' = [trade EXCEPT ![t] = tr]
    /\ booked' = booked \cup {tr}
    /\ Goto(t, "bookTrade")
    /\ UNCHANGED <<services, files, position, bucket, cursor, crashed>>

\* trades_thread reads the next row and hands it to OnMessage.
ReadTrade(t) ==
    /\ t = "trades_thread" /\ pc[t] = "read"
    /\ \E row \in rows :
          /\ rows' = rows \ {row}
          /\ HandOver(t, row)
    /\ UNCHANGED <<orders, current_book_idx>>

NextBook_NoWrap(i) == i + 1                                         \* mutant
NextBook(i) == (i + 1) % Len(trading_books)

\* marketdata_thread books an execution order on the next book in turn.
BookExecution(t) ==
    /\ t = "marketdata_thread" /\ pc[t] = "read"
    /\ \E order \in orders :
          /\ orders' = orders \ {order}
          /\ HandOver(t, TradeOf(order, trading_books[current_book_idx + 1]))
    /\ current_book_idx' = NextBook(current_book_idx)
    /\ UNCHANGED rows

\* End of file or a lost connection ends the read loop, and with it the thread.
StopReading(t) ==
    /\ pc[t] = "read"
    /\ Goto(t, "stopped")
    /\ UNCHANGED <<feeds, services, files, locals, crashed>>

(* Trade booking.                                                          *)

BookTrade(t) ==
    /\ pc[t] = "bookTrade"
    /\ tradeMap' = AddData(tradeMap, trade[t].id, trade[t])
    /\ Goto(t, "addTrade")
    /\ UNCHANGED <<feeds, positionMap, riskMap, files, locals, crashed>>

(* Positions.                                                              *)

\* AddTrade looks the bond up, copies its position and adds the trade to the copy.
AddTrade(t) ==
    /\ pc[t] = "addTrade"
    /\ \E found \in Find(t, positionMap, Bond(t)) :
       \E current \in IF found THEN Copies(t) ELSE {NewPosition} :
          position' = [position EXCEPT ![t] = UpdatePosition(current, trade[t])]
    /\ Goto(t, "onPosition")
    /\ UNCHANGED <<feeds, services, files, trade, bucket, cursor, crashed>>

OnPosition(t) ==
    /\ pc[t] = "onPosition"
    /\ \E found \in Find(t, positionMap, Bond(t)) :
          Goto(t, IF found THEN "updatePosition" ELSE "insertPosition")
    /\ UNCHANGED <<feeds, services, files, locals, crashed>>

\* main.cpp adds the historical listener before the risk listener.
FirstListener_Risk == "onRisk"                                      \* mutant
FirstListener == "persistPosition"

InsertPosition(t) ==
    /\ pc[t] = "insertPosition"
    /\ positionMap' = AddData(positionMap, Bond(t), position[t])
    /\ Goto(t, FirstListener)
    /\ UNCHANGED <<feeds, tradeMap, riskMap, files, locals, crashed>>

\* UpdateData looks the key up once more before it assigns.
UpdateExistingPosition(t) ==
    /\ pc[t] = "updatePosition"
    /\ \E found \in Find(t, positionMap, Bond(t)) :
          positionMap' = IF found THEN UpdateData(positionMap, Bond(t), position[t])
                         ELSE positionMap
    /\ Goto(t, FirstListener)
    /\ UNCHANGED <<feeds, tradeMap, riskMap, files, locals, crashed>>

PositionLine(t) == [bond |-> Bond(t), position |-> position[t], whole |-> TRUE]

PersistPosition(t) ==
    /\ pc[t] = "persistPosition"
    /\ positionsFile' = positionsFile \cup {PositionLine(t)}
    /\ Goto(t, "onRisk")
    /\ UNCHANGED <<feeds, services, riskFile, locals, crashed>>

(* Risk.                                                                   *)

RiskQuantity_LastTrade(t) == Signed(trade[t])                       \* mutant
RiskQuantity_OneBook(t) == position[t][trade[t].book]               \* mutant
RiskQuantity(t) == GetAggregatePosition(position[t])

\* AddPosition sets the quantity of a PV01 of its own; OnMessage then looks up.
OnRisk(t) ==
    /\ pc[t] = "onRisk"
    /\ \E found \in Find(t, riskMap, Bond(t)) :
          Goto(t, IF found THEN "updateRisk" ELSE "insertRisk")
    /\ UNCHANGED <<feeds, services, files, locals, crashed>>

InsertRisk(t) ==
    /\ pc[t] = "insertRisk"
    /\ riskMap' = AddData(riskMap, Bond(t), RiskQuantity(t))
    /\ Goto(t, "persistRisk")
    /\ UNCHANGED <<feeds, tradeMap, positionMap, files, locals, crashed>>

UpdateRisk(t) ==
    /\ pc[t] = "updateRisk"
    /\ \E found \in Find(t, riskMap, Bond(t)) :
          riskMap' = IF found THEN UpdateData(riskMap, Bond(t), RiskQuantity(t)) ELSE riskMap
    /\ Goto(t, "persistRisk")
    /\ UNCHANGED <<feeds, tradeMap, positionMap, files, locals, crashed>>

\* The file keeps every line; the last one of a product is what counts.
WriteLine(file, product, line) ==
    [p \in DOMAIN file \cup {product} |-> IF p = product THEN line ELSE file[p]]

WriteRisk_FirstOnly(t) ==                                           \* mutant
    LET product == IF pc[t] = "persistRisk" THEN Bond(t) ELSE Sector(t)
    IN IF ExistingData(riskFile, product) THEN riskFile
       ELSE WriteLine(riskFile, product,
                      IF pc[t] = "persistRisk" THEN BondRisk(Bond(t), RiskQuantity(t))
                      ELSE BucketedRisk(bucket[t]))
WriteRisk(t) ==
    IF pc[t] = "persistRisk"
    THEN WriteLine(riskFile, Bond(t), BondRisk(Bond(t), RiskQuantity(t)))
    ELSE WriteLine(riskFile, Sector(t), BucketedRisk(bucket[t]))

PersistRisk(t) ==
    /\ pc[t] = "persistRisk"
    /\ riskFile' = WriteRisk(t)
    /\ Goto(t, "bucketRisk")
    /\ UNCHANGED <<feeds, services, positionsFile, locals, crashed>>

MoreProducts_ButLast(t) == cursor[t] < Len(GetProducts[Sector(t)])  \* mutant
MoreProducts(t) == cursor[t] <= Len(GetProducts[Sector(t)])

\* One turn of the loop over the sector's products, absent ones are skipped.
GetBucketedRisk(t) ==
    /\ pc[t] = "bucketRisk"
    /\ IF MoreProducts(t)
       THEN /\ \E found \in Find(t, riskMap, Product(t)) :
                  bucket' = IF found
                            THEN [bucket EXCEPT ![t] = WriteLine(@, Product(t), riskMap[Product(t)])]
                            ELSE bucket
            /\ cursor' = [cursor EXCEPT ![t] = @ + 1]
            /\ UNCHANGED pc
       ELSE /\ Goto(t, "onBucket")
            /\ UNCHANGED <<bucket, cursor>>
    /\ UNCHANGED <<feeds, services, files, trade, position, crashed>>

\* newbucket is looked up after the bond's risk was stored, and only chooses between
\* two listener methods that do the same.
OnMessageBucket(t) ==
    /\ pc[t] = "onBucket"
    /\ Goto(t, "persistBucket")
    /\ UNCHANGED <<feeds, services, files, locals, crashed>>

\* The last call of the chain: the thread returns to its read loop.
Return(ts) ==
    /\ trade' = [t \in Threads |-> IF t \in ts THEN NoTrade ELSE trade[t]]
    /\ position' = [t \in Threads |-> IF t \in ts THEN NewPosition ELSE position[t]]
    /\ bucket' = [t \in Threads |-> IF t \in ts THEN EmptyMap ELSE bucket[t]]
    /\ cursor' = [t \in Threads |-> IF t \in ts THEN 1 ELSE cursor[t]]

PersistBucket(t) ==
    /\ pc[t] = "persistBucket"
    /\ riskFile' = WriteRisk(t)
    /\ Goto(t, "read")
    /\ Return({t})
    /\ UNCHANGED <<feeds, services, positionsFile, crashed>>

Chain(t) ==
    \/ BookTrade(t)
    \/ AddTrade(t) \/ OnPosition(t) \/ InsertPosition(t) \/ UpdateExistingPosition(t)
    \/ PersistPosition(t)
    \/ OnRisk(t) \/ InsertRisk(t) \/ UpdateRisk(t) \/ PersistRisk(t)
    \/ GetBucketedRisk(t) \/ OnMessageBucket(t) \/ PersistBucket(t)

Step(t) == ~crashed /\ (ReadTrade(t) \/ BookExecution(t) \/ StopReading(t) \/ Chain(t))

-----------------------------------------------------------------------------
(* Two writes that overlap, and the crash any data race may cause.         *)

Both(t, u, labelT, labelU) == pc' = [pc EXCEPT ![t] = labelT, ![u] = labelU]

\* Two nodes linked into one unordered_map at once: only u's stays reachable.
LostInsert(t, u) ==
    /\ DataRace(t, u) /\ pc[t] = pc[u] /\ pc[t] \in InsertSteps
    /\ \/ /\ pc[t] = "bookTrade"
          /\ tradeMap' = AddData(tradeMap, trade[u].id, trade[u])
          /\ Both(t, u, "addTrade", "addTrade")
          /\ UNCHANGED <<positionMap, riskMap>>
       \/ /\ pc[t] = "insertPosition"
          /\ positionMap' = AddData(positionMap, Bond(u), position[u])
          /\ Both(t, u, FirstListener, FirstListener)
          /\ UNCHANGED <<tradeMap, riskMap>>
       \/ /\ pc[t] = "insertRisk"
          /\ riskMap' = AddData(riskMap, Bond(u), RiskQuantity(u))
          /\ Both(t, u, "persistRisk", "persistRisk")
          /\ UNCHANGED <<tradeMap, positionMap>>
    /\ UNCHANGED <<feeds, files, locals, crashed>>

\* Two assignments to one Position: its books come from either.
MixedUpdate(t, u) ==
    /\ DataRace(t, u) /\ pc[t] = "updatePosition" /\ pc[u] = "updatePosition"
    /\ \E mixed \in Torn(position[t], position[u]) :
          positionMap' = UpdateData(positionMap, Bond(t), mixed)
    /\ Both(t, u, FirstListener, FirstListener)
    /\ UNCHANGED <<feeds, tradeMap, riskMap, files, locals, crashed>>

AfterLine(label) == CASE label = "persistPosition" -> "onRisk"
                      [] label = "persistRisk" -> "bucketRisk"
                      [] label = "persistBucket" -> "read"

\* Two insertions into one fstream: t's line is unreadable, u's may be.
GarbledLine(t, u) ==
    /\ DataRace(t, u) /\ {pc[t], pc[u]} \subseteq FileSteps
    /\ \E whole \in BOOLEAN :
          \/ /\ pc[t] = "persistPosition"
             /\ positionsFile' = positionsFile \cup {[PositionLine(t) EXCEPT !.whole = FALSE],
                                                     [PositionLine(u) EXCEPT !.whole = whole]}
             /\ UNCHANGED riskFile
          \/ /\ pc[t] # "persistPosition"
             /\ riskFile' = IF whole THEN WriteRisk(u) ELSE riskFile
             /\ UNCHANGED positionsFile
    /\ Both(t, u, AfterLine(pc[t]), AfterLine(pc[u]))
    /\ Return({v \in {t, u} : pc[v] = "persistBucket"})
    /\ UNCHANGED <<feeds, services, crashed>>

Crash(t, u) ==
    /\ DataRace(t, u)
    /\ crashed' = TRUE
    /\ UNCHANGED <<feeds, services, files, pc, locals>>

Race(t, u) == ~crashed /\ (LostInsert(t, u) \/ MixedUpdate(t, u) \/ GarbledLine(t, u) \/ Crash(t, u))

-----------------------------------------------------------------------------
\* main joins its threads and returns, or the process is gone.
Terminated == crashed \/ \A t \in Threads : pc[t] = "stopped"

Terminating == Terminated /\ UNCHANGED vars

Next == (\E t \in Threads : Step(t)) \/ (\E t, u \in Threads : Race(t, u)) \/ Terminating

\* The operating system runs every thread that is in the middle of a call.
Fairness == \A t \in Threads : WF_vars(~crashed /\ Chain(t))

Spec == Init /\ [][Next]_vars /\ Fairness

(***************************************************************************)
(* The same program when the feeds never overlap: a message arrives on one *)
(* only after the other thread's call chain has returned; a feed may end   *)
(* at any time.  This holds when one of the two providers is not running,  *)
(* and it is what the absence of locks takes for granted.                  *)
(***************************************************************************)
OthersIdle(t) == \A u \in Threads \ {t} : pc[u] \in Idle

SerialStep(t) == Step(t) /\ (OthersIdle(t) \/ StopReading(t))

SerialNext == (\E t \in Threads : SerialStep(t)) \/ Terminating

SerialSpec == Init /\ [][SerialNext]_vars /\ Fairness

-----------------------------------------------------------------------------
(* Properties.                                                             *)

\* Every variable holds what its C++ counterpart can hold.
TypeOK ==
    /\ rows \subseteq TradeRows /\ orders \subseteq ExecutionOrders
    /\ booked \subseteq Trades
    /\ current_book_idx \in 0 .. Len(trading_books) - 1
    /\ DOMAIN tradeMap \subseteq {tr.id : tr \in Trades}
    /\ \A id \in DOMAIN tradeMap : tradeMap[id] \in Trades
    /\ DOMAIN positionMap \subseteq Bonds
    /\ \A bond \in DOMAIN positionMap : positionMap[bond] \in Positions
    /\ DOMAIN riskMap \subseteq Bonds
    /\ \A line \in positionsFile : line.bond \in Bonds /\ line.position \in Positions
    /\ DOMAIN riskFile \subseteq Bonds \cup Sectors
    /\ pc \in [Threads -> Labels]
    /\ trade \in [Threads -> Trades \cup {NoTrade}]
    /\ \A t \in Threads : pc[t] \notin Idle => trade[t] \in Trades
    /\ position \in [Threads -> Positions]
    /\ cursor \in [Threads -> Nat \ {0}]
    /\ DOMAIN bucket = Threads /\ \A t \in Threads : DOMAIN bucket[t] \subseteq Bonds
    /\ crashed \in BOOLEAN

Quiescent == ~crashed /\ \A t \in Threads : pc[t] \in Idle

\* A line of positions.txt accounts for the quantity.
Accounted(bond, quantity) ==
    \E line \in positionsFile :
        line.bond = bond /\ GetAggregatePosition(line.position) = quantity

\* The steps of a call chain that come after its line in positions.txt.
AfterPositionLine == {"onRisk", "insertRisk", "updateRisk", "persistRisk",
                      "bucketRisk", "onBucket", "persistBucket"}

\* Write-ahead: a position reaches positions.txt before the risk service, so the
\* quantity a thread carries through AddPosition is on file whatever happens next.
PersistedBeforeRisk ==
    \A t \in Threads : pc[t] \in AfterPositionLine => Accounted(Bond(t), RiskQuantity(t))

\* Whatever the threads do to each other, a quantity in the risk service is the
\* aggregate of a position of that bond that went to positions.txt before it.
RiskFromPersistedPosition ==
    \A bond \in DOMAIN riskMap : Accounted(bond, riskMap[bond])

SignedSum(trades) == MapThenSumSet(Signed, trades)

BookedIn(bond, book) == {tr \in booked : tr.bond = bond /\ tr.book = book}

\* However the threads interleave and tear their copies, a position never counts
\* a trade twice, nor one of another bond or book: each cell is the signed sum of
\* some of the trades handed over for it.
NoDoubleCount ==
    \A bond \in DOMAIN positionMap, book \in Books :
        \E counted \in SUBSET BookedIn(bond, book) :
            positionMap[bond][book] = SignedSum(counted)

\* Between messages every booked trade, and nothing else, is in the positions.
PositionsMatchTrades ==
    Quiescent =>
        \A bond \in Bonds, book \in Books :
            (IF ExistingData(positionMap, bond) THEN positionMap[bond][book] ELSE 0)
                = SignedSum({tr \in Range(tradeMap) : tr.bond = bond /\ tr.book = book})

\* Between messages the risk service holds the aggregate of every current position.
RiskTracksPosition ==
    Quiescent =>
        /\ DOMAIN riskMap = DOMAIN positionMap
        /\ \A bond \in DOMAIN riskMap :
               riskMap[bond] = GetAggregatePosition(positionMap[bond])

InSector(sector) == {bond \in DOMAIN positionMap : bond2bucketmap[bond] = sector}

\* Between messages the last lines of risk.txt are those of the current positions:
\* the line of a bond, and the line of a sector, which adds up those of its bonds,
\* or shows no risk at all where long and short positions cancel out.
RiskFileCurrent ==
    Quiescent =>
        /\ \A bond \in DOMAIN positionMap :
              /\ ExistingData(riskFile, bond)
              /\ riskFile[bond] = BondRisk(bond, GetAggregatePosition(positionMap[bond]))
        /\ \A sector \in Sectors : InSector(sector) # {} =>
              /\ ExistingData(riskFile, sector)
              /\ LET sum(part) ==
                        SumFunction([bond \in InSector(sector) |-> riskFile[bond][part]])
                 IN /\ riskFile[sector].quantity = sum("quantity")
                    /\ riskFile[sector].weighted =
                          IF sum("quantity") = 0 THEN 0 ELSE sum("weighted")

\* The last line of a product counts each of these trades once, and nothing else.
CountedIn(product, trades) ==
    /\ ExistingData(riskFile, product)
    /\ riskFile[product].quantity = SignedSum(trades)

\* Each trade handed over makes its way into risk.txt, and none drops out by the way:
\* the lines of its bond and of its sector come to count it, together with every other
\* trade handed over for them by then.
TradeReachesRisk ==
    \A tr \in Trades :
        LET sector == bond2bucketmap[tr.bond]
        IN tr \in booked ~>
              /\ CountedIn(tr.bond, {b \in booked : b.bond = tr.bond})
              /\ CountedIn(sector, {b \in booked : bond2bucketmap[b.bond] = sector})

\* The trades a thread has taken but whose position it has not stored yet.
InFlight ==
    {trade[t] : t \in {u \in Threads :
        pc[u] \in {"bookTrade", "addTrade", "onPosition", "insertPosition", "updatePosition"}}}

\* The position the service would hand out for a bond.
Current(bond) == IF ExistingData(positionMap, bond) THEN positionMap[bond] ELSE NewPosition

\* Booking and positions together implement the ledger: each trade moves its own
\* cell once, in one step, and nothing else does.
Ledger == INSTANCE PositionLedger WITH
    ledger <- [bond \in Bonds |-> Current(bond)],
    counted <- booked \ InFlight

ImplementsLedger == Ledger!Spec

-----------------------------------------------------------------------------
(* The inductive invariant of SerialSpec, in named parts.                  *)

OneChain == \A t, u \in Threads : t = u \/ pc[t] \in Idle \/ pc[u] \in Idle

\* A trade is handed over once.
HandedOverOnce ==
    /\ \A tr \in booked, next \in rows \cup orders : tr.id # next.id
    /\ \A t \in Threads : pc[t] \notin Idle => trade[t] \in booked

\* What AddTrade and OnMessage found out is still true when they act on it.
NoStaleRead ==
    \A t \in Threads :
        /\ pc[t] \in {"onPosition", "insertPosition", "updatePosition"} =>
              position[t] = UpdatePosition(Current(Bond(t)), trade[t])
        /\ pc[t] = "insertPosition" => ~ExistingData(positionMap, Bond(t))
        /\ pc[t] = "updatePosition" => ExistingData(positionMap, Bond(t))
        /\ pc[t] = "insertRisk" => ~ExistingData(riskMap, Bond(t))
        /\ pc[t] = "updateRisk" => ExistingData(riskMap, Bond(t))

RiskBehind == {"persistPosition", "onRisk", "insertRisk", "updateRisk"}

\* The risk of a bond is behind its position only while a thread is bringing it there.
RiskFollows ==
    /\ \A t \in Threads : pc[t] \in RiskBehind =>
          ExistingData(positionMap, Bond(t)) /\ positionMap[Bond(t)] = position[t]
    /\ \A bond \in Bonds :
          (\A t \in Threads : pc[t] \in RiskBehind => Bond(t) # bond) =>
              /\ ExistingData(riskMap, bond) <=> ExistingData(positionMap, bond)
              /\ ExistingData(riskMap, bond) =>
                    riskMap[bond] = GetAggregatePosition(positionMap[bond])

\* When the feeds do not overlap, every check the code makes before it acts is
\* still true when it acts, and the risk map follows the position map.
SerialInv == OneChain /\ HandedOverOnce /\ NoStaleRead /\ RiskFollows
=============================================================================
