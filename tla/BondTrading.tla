----------------------------- MODULE BondTrading -----------------------------
(***************************************************************************)
(* BondExecution and BondBooking composed: the market data thread from an  *)
(* order book to the execution log, and in the middle of its chain of      *)
(* calls, when BondExecutionService calls the listener of trade booking,   *)
(* the whole chain of booking, positions and risk, which trades_thread     *)
(* runs at the same time for the rows of its own feed.                     *)
(*                                                                         *)
(* The two modules share current_book_idx.  The booking chain of either    *)
(* thread has its place in bookingPc; while that of marketdata_thread has  *)
(* not returned, BondExecution stands at its call of Publish.  Containers  *)
(* and files are taken to be atomic here: the outcomes of their races are  *)
(* in BondBooking.                                                         *)
(***************************************************************************)
EXTENDS BondExecution

CONSTANTS
    Sectors, bond2bucketmap, GetProducts, PV01map, TradeRows,   \* see BondBooking
    MaxRacing   \* bound: how many order books come beside a trade of the other feed

(***************************************************************************)
(* What BondBooking assumes of its trades.  Ids are random strings of the  *)
(* provider and of GenOrderId: taken to be distinct.                       *)
(***************************************************************************)
ASSUME TradeRowsAssumption ==
    /\ \A row \in TradeRows :
          /\ row.bond \in Bonds /\ row.book \in Range(trading_books)
          /\ row.side \in {"BUY", "SELL"} /\ row.quantity \in Nat
          /\ row.id \notin Orders
    /\ \A a, b \in TradeRows : a.id = b.id => a = b

VARIABLES
    rows, orders, booked, tradeMap, positionMap, riskMap, positionsFile, riskFile,
    bookingPc, trade, position, bucket, cursor, crashed

\* An execution order as trade booking sees it.
BookingOrder(o) == [id |-> o, bond |-> o.bond, side |-> o.side, quantity |-> o.quantity]

Booking == INSTANCE BondBooking WITH
    pc <- bookingPc,
    ExecutionOrders <- {BookingOrder(o) : o \in Orders},
    AccessesOverlap <- FALSE

\* What only BondBooking has.
bookingOnly ==
    <<rows, orders, booked, tradeMap, positionMap, riskMap, positionsFile, riskFile,
      bookingPc, trade, position, bucket, cursor, crashed>>

\* What only BondExecution has.
executionOnly ==
    <<unread, services, trades, log, link, pc, orderbook, order>>

md == "marketdata_thread"

SystemInit == Init /\ Booking!Init

\* An order book arrives, or the log dies.
MarketFeed ==
    /\ \/ OnMessage /\ (rows = TradeRows \/ MaxOrderBooks - unread < MaxRacing)
       \/ LogDies
    /\ UNCHANGED bookingOnly

\* The calls of marketdata_thread before booking.
ExecutionCall ==
    /\ AggressBook \/ OnMessageAlgo \/ ExecuteOrder \/ PersistData
    /\ UNCHANGED bookingOnly

\* BondTradeBookingServiceListener hands the execution over to BookTrade.
BookOrder ==
    /\ BookTrade
    /\ orders' = orders \ {BookingOrder(order)}
    /\ Booking!BookExecution(md)

\* BookTrade has returned before the connector publishes; an exception of the
\* write ends the thread.
PublishOrder_Async ==                                               \* mutant
    /\ Publish
    /\ UNCHANGED bookingOnly
PublishOrder_Locked ==                                              \* mutant
    /\ bookingPc[md] = "read" /\ bookingPc["trades_thread"] = "stopped"
    /\ Publish
    /\ \/ pc' # "stopped" /\ UNCHANGED bookingOnly
       \/ pc' = "stopped" /\ Booking!StopReading(md)
PublishOrder ==
    /\ bookingPc[md] = "read"
    /\ Publish
    /\ \/ pc' # "stopped" /\ UNCHANGED bookingOnly
       \/ pc' = "stopped" /\ Booking!StopReading(md)

EndOfFeed_NoJoin ==                                                 \* mutant
    /\ StopReading
    /\ bookingPc' = [t \in Booking!Threads |-> "stopped"]
    /\ UNCHANGED <<rows, orders, booked, tradeMap, positionMap, riskMap, positionsFile,
                   riskFile, trade, position, bucket, cursor, crashed>>
EndOfFeed == StopReading /\ Booking!StopReading(md)

\* A call of the booking chain, on either thread.
BookingCall(t) == Booking!Chain(t) /\ UNCHANGED executionOnly

\* trades_thread reads its feed.
TradesFeed ==
    /\ \/ Booking!ReadTrade("trades_thread") /\ MaxOrderBooks - unread <= MaxRacing
       \/ Booking!StopReading("trades_thread")
    /\ UNCHANGED executionOnly

MarketdataCall == ExecutionCall \/ BookOrder \/ BookingCall(md) \/ PublishOrder

systemVars == <<executionOnly, current_book_idx, bookingOnly>>

SystemDone == pc = "stopped" /\ Booking!Terminated

SystemNext ==
    \/ MarketFeed \/ EndOfFeed \/ MarketdataCall
    \/ TradesFeed \/ BookingCall("trades_thread")
    \/ SystemDone /\ UNCHANGED systemVars

\* The operating system runs a thread that is in the middle of a call.
SystemSpec ==
    /\ SystemInit /\ [][SystemNext]_systemVars
    /\ WF_systemVars(MarketdataCall) /\ WF_systemVars(BookingCall("trades_thread"))

-----------------------------------------------------------------------------
(* Properties.                                                             *)

\* A line of positions.txt counts the trade made of an order.
Positioned(o) ==
    \E line \in positionsFile, tr \in booked :
        /\ tr.id = o /\ line.bond = o.bond
        /\ \E others \in SUBSET (Booking!BookedIn(tr.bond, tr.book) \ {tr}) :
              line.position[tr.book] = Booking!SignedSum(others \cup {tr})

\* An order that the execution log has received is counted by a line of
\* positions.txt, and so are all orders of executions.txt once marketdata_thread is
\* done with them: whenever the log dies, and whatever trades_thread does to the
\* positions meanwhile.
PositionedBeforePublished ==
    /\ \A o \in Range(log) : Positioned(o)
    /\ pc \in {"read", "stopped"} => \A o \in Range(executionsFile) : Positioned(o)

\* Seen from the market data side, booking is a call that always returns.
ImplementsExecution == Spec

\* Seen from booking, executions are orders that come one after the other.
ImplementsBooking == Booking!Spec
=============================================================================
