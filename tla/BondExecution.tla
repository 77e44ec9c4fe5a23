---------------------------- MODULE BondExecution ----------------------------
(***************************************************************************)
(* From order books to executed orders: BondMarketDataService,             *)
(* BondAlgoExecutionService, BondExecutionService, the service that        *)
(* persists executions, and the connector that publishes them to the       *)
(* execution log.  All of it runs on marketdata_thread, as one chain of    *)
(* calls for each order book read from the feed:                           *)
(*                                                                         *)
(*   OnMessage(orderbook) -> AggressBook -> OnMessage(algoexec)            *)
(*       -> ExecuteOrder -> [executions.txt] -> BookTrade                  *)
(*       -> Publish to the socket of the execution log                     *)
(*                                                                         *)
(* What booking a trade does to positions and risk is in BondBooking.      *)
(*                                                                         *)
(* The log may die at any time.  A write to its socket then still succeeds *)
(* for a while, and later throws; the exception unwinds the whole chain to *)
(* SocketReadConnector::Read, which ends the thread.                       *)
(***************************************************************************)
EXTENDS Integers, Sequences, SequencesExt, ServiceMap, BondNotation

CONSTANTS
    MarketRows,     \* the rows the feed may deliver: a bond, and levels of prices in notation
    Depth,          \* the number of levels of a row
    MaxOrderBooks,  \* bound: how many rows the feed delivers
    trading_books   \* the books executions are spread over, in order

ASSUME DepthAssumption == Depth \in Nat \ {0}

ASSUME MarketRowsAssumption ==
    \A row \in MarketRows :
        /\ row.levels \in Seq(Range(row.levels)) /\ Len(row.levels) = Depth
        /\ \A level \in Range(row.levels) :
              /\ {level.bid.z, level.offer.z} \subseteq Digits
              /\ level.quantity \in Nat

ASSUME BoundAssumption == MaxOrderBooks \in Nat

\* No book is listed twice.
ASSUME TradingBooksAssumption ==
    /\ trading_books \in Seq(Range(trading_books)) /\ Len(trading_books) > 0
    /\ IsInjective(trading_books)

VARIABLES
    unread,           \* how many order books the feed has still to deliver
    marketMap,        \* the map of BondMarketDataService: bond -> order book
    side,             \* BondAlgoExecutionService::side
    algoMap,          \* the map of BondAlgoExecutionService: order id -> order
    executionMap,     \* the map of BondExecutionService: bond -> order
    executionsFile,   \* the orders in executions.txt
    current_book_idx, \* BondTradeBookingService::current_book_idx
    trades,           \* history: the trades booked, in order
    log,              \* the orders the execution log received
    link,             \* the socket to it: "up", or "down" once it has died
    pc,               \* the next call marketdata_thread makes
    orderbook,        \* the order book its chain of calls is about
    order             \* the execution order its chain of calls is about

services == <<marketMap, side, algoMap, executionMap, executionsFile>>
booking  == <<current_book_idx, trades>>
vars     == <<unread, services, booking, log, link, pc, orderbook, order>>

-----------------------------------------------------------------------------
(* Order books and orders as values.  Prices are in 512ths, see            *)
(* BondNotation.                                                           *)

Order(price, quantity) == [price |-> price, quantity |-> quantity]

\* Both sides of a level have the row's one quantity.
ProcessData(row) ==
    [bond |-> row.bond,
     bidStack |-> [i \in 1 .. Depth |->
                      Order(bond2dec(row.levels[i].bid), row.levels[i].quantity)],
     offerStack |-> [i \in 1 .. Depth |->
                      Order(bond2dec(row.levels[i].offer), row.levels[i].quantity)]]

OrderBooks == {ProcessData(row) : row \in MarketRows}

Bonds == {book.bond : book \in OrderBooks}

GetTopSpread(book) == book.offerStack[1].price - book.bidStack[1].price

\* The top of the stack an order on side s trades against.
TopAgainst_Bottom(book, s) ==                                       \* mutant
    IF s = "OFFER" THEN book.bidStack[Depth] ELSE book.offerStack[Depth]
TopAgainst(book, s) == IF s = "OFFER" THEN book.bidStack[1] ELSE book.offerStack[1]

GetTopAgainstPrice(book, s) == TopAgainst(book, s).price
GetTopAgainstQuantity(book, s) == TopAgainst(book, s).quantity

Opposite_Same(s) == s                                               \* mutant
Opposite(s) == IF s = "OFFER" THEN "BID" ELSE "OFFER"

\* 1/128
MaxSpread == 4

Tight_Strict(book) == GetTopSpread(book) < MaxSpread                \* mutant
Tight(book) == GetTopSpread(book) <= MaxSpread

\* Ids are random strings, taken to be distinct: here the number of the order book.
NewOrder(book, s, id) ==
    [id |-> id, bond |-> book.bond, side |-> s,
     price |-> GetTopAgainstPrice(book, s), quantity |-> GetTopAgainstQuantity(book, s)]

Orders == {NewOrder(book, s, id) :
               book \in OrderBooks, s \in {"BID", "OFFER"}, id \in 1 .. MaxOrderBooks}

None == [id |-> 0]

TradeOf(o, book) ==
    [order |-> o, book |-> book, side |-> IF o.side = "BID" THEN "BUY" ELSE "SELL"]

Trades == [order : Orders, book : Range(trading_books), side : {"BUY", "SELL"}]

-----------------------------------------------------------------------------
Init ==
    /\ unread = MaxOrderBooks
    /\ marketMap = EmptyMap
    /\ side = "BID"
    /\ algoMap = EmptyMap
    /\ executionMap = EmptyMap
    /\ executionsFile = <<>>
    /\ current_book_idx = 0
    /\ trades = <<>>
    /\ log = <<>>
    /\ link = "up"
    /\ pc = "read"
    /\ orderbook = None
    /\ order = None

\* A new bond is added, a known one updated: either way its entry is this book.
OnMessage ==
    /\ pc = "read" /\ unread > 0
    /\ unread' = unread - 1
    /\ \E book \in OrderBooks :
          /\ orderbook' = book
          /\ marketMap' = IF ExistingData(marketMap, book.bond)
                          THEN UpdateData(marketMap, book.bond, book)
                          ELSE AddData(marketMap, book.bond, book)
    /\ pc' = "aggress"
    /\ UNCHANGED <<side, algoMap, executionMap, executionsFile, booking, log, link, order>>

\* End of file, or the provider is gone.
StopReading ==
    /\ pc = "read"
    /\ pc' = "stopped"
    /\ UNCHANGED <<unread, services, booking, log, link, orderbook, order>>

AggressBook_Proceeds ==                                             \* mutant
    /\ pc = "aggress"
    /\ pc' = "algoexec"
    /\ IF Tight(orderbook)
       THEN /\ side' = Opposite(side)
            /\ order' = NewOrder(orderbook, side', MaxOrderBooks - unread)
       ELSE UNCHANGED <<side, order>>
    /\ UNCHANGED <<unread, marketMap, algoMap, executionMap, executionsFile,
                   booking, log, link, orderbook>>
\* The side is switched before it is used.
AggressBook ==
    /\ pc = "aggress"
    /\ \/ /\ Tight(orderbook)
          /\ side' = Opposite(side)
          /\ order' = NewOrder(orderbook, side', MaxOrderBooks - unread)
          /\ pc' = "algoexec"
       \/ /\ ~Tight(orderbook)
          /\ pc' = "read"
          /\ UNCHANGED <<side, order>>
    /\ UNCHANGED <<unread, marketMap, algoMap, executionMap, executionsFile,
                   booking, log, link, orderbook>>

OnMessageAlgo ==
    /\ pc = "algoexec"
    /\ algoMap' = AddData(algoMap, order.id, order)
    /\ pc' = "execute"
    /\ UNCHANGED <<unread, marketMap, side, executionMap, executionsFile,
                   booking, log, link, orderbook, order>>

\* What follows a call: the historical listener, the trade booking listener (in
\* the order main.cpp adds them), then the connector.
After_PublishFirst ==                                               \* mutant
    [execute |-> "publish", publish |-> "persist", persist |-> "book", book |-> "read"]
After_NotPublished ==                                               \* mutant
    [execute |-> "persist", persist |-> "book", book |-> "read", publish |-> "read"]
After == [execute |-> "persist", persist |-> "book", book |-> "publish", publish |-> "read"]

\* The map is keyed by bond and nothing updates it.
ExecuteOrder ==
    /\ pc = "execute"
    /\ executionMap' = AddData(executionMap, order.bond, order)
    /\ pc' = After.execute
    /\ UNCHANGED <<unread, marketMap, side, algoMap, executionsFile,
                   booking, log, link, orderbook, order>>

PersistData ==
    /\ pc = "persist"
    /\ executionsFile' = Append(executionsFile, order)
    /\ pc' = After.persist
    /\ UNCHANGED <<unread, marketMap, side, algoMap, executionMap,
                   booking, log, link, orderbook, order>>

NextBook(i) == (i + 1) % Len(trading_books)

BookTrade ==
    /\ pc = "book"
    /\ trades' = Append(trades, TradeOf(order, trading_books[current_book_idx + 1]))
    /\ current_book_idx' = NextBook(current_book_idx)
    /\ pc' = After.book
    /\ UNCHANGED <<unread, services, log, link, orderbook, order>>

\* The line reaches the log, is swallowed by a dead socket, or the write throws.
Publish ==
    /\ pc = "publish"
    /\ \/ link = "up" /\ log' = Append(log, order) /\ pc' = After.publish
       \/ link = "down" /\ pc' \in {After.publish, "stopped"} /\ UNCHANGED log
    /\ UNCHANGED <<unread, services, booking, link, orderbook, order>>

LogDies ==
    /\ link = "up"
    /\ link' = "down"
    /\ UNCHANGED <<unread, services, booking, log, pc, orderbook, order>>

Chain == AggressBook \/ OnMessageAlgo \/ ExecuteOrder \/ PersistData \/ BookTrade \/ Publish

Terminating == pc = "stopped" /\ UNCHANGED vars

Next == OnMessage \/ StopReading \/ Chain \/ LogDies \/ Terminating

\* The operating system runs a thread that is in the middle of a call.
Spec == Init /\ [][Next]_vars /\ WF_vars(Chain)

-----------------------------------------------------------------------------
(* Properties.                                                             *)

Calls == {"aggress", "algoexec", "execute", "persist", "book", "publish"}

\* Every variable holds what its C++ counterpart can hold.
TypeOK ==
    /\ unread \in 0 .. MaxOrderBooks
    /\ DOMAIN marketMap \subseteq Bonds
    /\ \A bond \in DOMAIN marketMap : marketMap[bond] \in OrderBooks
    /\ side \in {"BID", "OFFER"}
    /\ DOMAIN algoMap \subseteq 1 .. MaxOrderBooks
    /\ \A id \in DOMAIN algoMap : algoMap[id] \in Orders
    /\ DOMAIN executionMap \subseteq Bonds
    /\ \A bond \in DOMAIN executionMap : executionMap[bond] \in Orders
    /\ executionsFile \in Seq(Orders)
    /\ current_book_idx \in 0 .. Len(trading_books) - 1
    /\ trades \in Seq(Trades)
    /\ log \in Seq(Orders)
    /\ link \in {"up", "down"}
    /\ pc \in Calls \cup {"read", "stopped"}
    /\ orderbook \in OrderBooks \cup {None}
    /\ order \in Orders \cup {None}
    /\ pc \in Calls => orderbook \in OrderBooks /\ unread < MaxOrderBooks
    /\ pc \in Calls \ {"aggress"} => order \in Orders

BookedOrders == [i \in DOMAIN trades |-> trades[i].order]

\* An order the market's log has seen is already a trade of ours, and an order that
\* is a trade is already on file, whatever happens to the log: what is known outside
\* is a prefix of what is booked, which is a prefix of what is persisted.
WriteAhead ==
    /\ IsPrefix(log, BookedOrders)
    /\ IsPrefix(BookedOrders, executionsFile)
    /\ Len(executionsFile) <= Len(BookedOrders) + 1

\* Orders of one bond in executions.txt.
ExecutedOn(bond) == {executionsFile[i] : i \in {j \in DOMAIN executionsFile :
                                                  executionsFile[j].bond = bond}}

\* Between order books the services' maps agree with the file: the algo service
\* knows every order, the execution service the first order of each bond.
MapsFollowFile ==
    pc = "read" =>
        /\ Range(algoMap) = Range(executionsFile)
        /\ \A bond \in Bonds :
              /\ ExistingData(executionMap, bond) <=> ExecutedOn(bond) # {}
              /\ ExistingData(executionMap, bond) =>
                    \A o \in ExecutedOn(bond) : executionMap[bond].id <= o.id

TradesIn(book, s) == {i \in DOMAIN trades : trades[i].book = book /\ trades[i].side = s}

\* The side alternates from order to order and the book rotates over an odd number
\* of books, so no book piles up buys or sells: it is never two ahead on one side.
BooksStayBalanced ==
    Len(trading_books) % 2 = 1 =>
        \A book \in Range(trading_books) :
            Cardinality(TradesIn(book, "BUY")) - Cardinality(TradesIn(book, "SELL")) \in -1 .. 1

\* 256ths, as the feed writes them.
Ticks(n) == 256 * n.whole + 8 * n.xy + (IF n.z = Plus THEN 4 ELSE n.z)

\* The row whose order book is being handled, if it is the nth.
Current(n) == {row \in MarketRows : unread = MaxOrderBooks - n /\ orderbook = ProcessData(row)}

\* A row whose first level is two ticks wide or less ends as a trade for the whole
\* quantity of that level, at the price the row has on the other side of it.
TightBookTraded ==
    \A n \in 1 .. MaxOrderBooks :
        (pc = "aggress" /\ \E row \in Current(n) :
            Ticks(row.levels[1].offer) - Ticks(row.levels[1].bid) <= 2)
        ~> (\E row \in Current(n), trade \in Range(trades) :
               /\ trade.order.id = n /\ trade.order.bond = row.bond
               /\ trade.order.quantity = row.levels[1].quantity
               /\ dec2bond(trade.order.price) =
                     (IF trade.side = "BUY" THEN row.levels[1].offer ELSE row.levels[1].bid))

\* The log receives the lines of executions.txt in order and without a gap, until
\* the connection is lost.
Outbound == INSTANCE OutboundFeed WITH
    Data <- Orders, written <- executionsFile, received <- log, lost <- (link = "down")

ImplementsOutbound == Outbound!Spec
=============================================================================
