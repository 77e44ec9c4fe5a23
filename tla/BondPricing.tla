----------------------------- MODULE BondPricing -----------------------------
(***************************************************************************)
(* From prices to two-way streams: BondPricingService,                     *)
(* BondAlgoStreamingService, BondStreamingService, the service that        *)
(* persists streams and the connector that publishes them, together with   *)
(* the GUI (module BondGUI).  All of it runs on pricing_thread, as one     *)
(* chain of calls for each price read:                                     *)
(*                                                                         *)
(*   OnMessage(price) -> GUI -> CreateStream or UpdateStream               *)
(*       -> OnMessage(stream) -> [streaming.txt]                           *)
(*       -> Publish to the socket of the streaming log                     *)
(*                                                                         *)
(* As in BondExecution, the log may die, and a write to its socket then    *)
(* throws sooner or later and ends the thread.                             *)
(***************************************************************************)
EXTENDS Integers, Sequences, SequencesExt, ServiceMap, BondNotation

CONSTANTS
    Quotes,     \* what a row of the feed may hold: bond, mid and spread
    MaxPrices,  \* bound: how many rows the feed delivers
    throttle,   \* of the GUI
    max_count   \* of the GUI

(***************************************************************************)
(* mid and spread are in bond notation.                                    *)
(***************************************************************************)
ASSUME QuotesAssumption ==
    \A quote \in Quotes :
        {quote.mid, quote.spread} \subseteq [whole : Nat, xy : 0 .. 31, z : Digits]

ASSUME BoundAssumption == MaxPrices \in Nat

ASSUME ThrottleAssumption == throttle \in Nat /\ max_count \in Nat \ {0}

VARIABLES
    unread,             \* how many rows the feed has still to deliver
    pricingMap,         \* the map of BondPricingService: bond -> price
    visible_quantity,   \* BondAlgoStreamingService::visible_quantity
    algoMap,            \* the map of BondAlgoStreamingService: bond -> stream
    streamMap,          \* the map of BondStreamingService: bond -> stream
    streamingFile,      \* the streams in streaming.txt
    log,                \* the streams the streaming log received
    link,               \* the socket to it: "up", or "down" once it has died
    pc,                 \* the next call pricing_thread makes
    price,              \* the price its chain of calls is about
    isNew,              \* listeners get ProcessAdd, not ProcessUpdate
    stream,             \* the stream its chain of calls is about
    guiMap, counter, wait, elapsed, guiFile, firstPage, pageAge, handled

Bonds  == {quote.bond : quote \in Quotes}

\* n, the number of the row, is history: it tells rows with equal bytes apart.
Prices == {[n |-> n, bond |-> quote.bond,
            mid |-> bond2dec(quote.mid), spread |-> bond2dec(quote.spread)] :
               n \in 1 .. MaxPrices, quote \in Quotes}

GUI == INSTANCE BondGUI

services == <<pricingMap, visible_quantity, algoMap, streamMap, streamingFile>>
locals   == <<price, isNew, stream>>
gui      == <<guiMap, counter, wait, elapsed, guiFile, firstPage, pageAge, handled>>
vars     == <<unread, services, log, link, pc, locals, gui>>

-----------------------------------------------------------------------------
(* Streams as values.  A spread is in 256ths, so half of it in 512ths is whole. *)

Bid_FullSpread(p) == p.mid - p.spread                               \* mutant
Bid(p)   == p.mid - (p.spread \div 2)
Offer(p) == p.mid + (p.spread \div 2)

NewStream(p, quantity) ==
    [n |-> p.n, bond |-> p.bond, bid |-> Bid(p), offer |-> Offer(p),
     visible |-> quantity, hidden |-> 2 * quantity]

Small == 1000000
Large == 2000000

GetQuantity_Doubled(q) == 2 * q                                     \* mutant
GetQuantity(q) == IF q = Large THEN Small ELSE Large

Streams == {NewStream(p, quantity) : p \in Prices, quantity \in {Small, Large}}

None == [n |-> 0]

\* A message of a bond whose key the service does not hold is an addition.
IsNew_AfterAdd(bond) == FALSE                                       \* mutant
IsNew(bond) == ~ExistingData(pricingMap, bond)

-----------------------------------------------------------------------------
Init ==
    /\ unread = MaxPrices
    /\ pricingMap = EmptyMap
    /\ visible_quantity = Large
    /\ algoMap = EmptyMap
    /\ streamMap = EmptyMap
    /\ streamingFile = <<>>
    /\ log = <<>>
    /\ link = "up"
    /\ pc = "read"
    /\ price = None
    /\ isNew = FALSE
    /\ stream = None
    /\ GUI!Init

AddOrUpdate(map, key, data) ==
    IF ExistingData(map, key) THEN UpdateData(map, key, data) ELSE AddData(map, key, data)

OnMessage ==
    /\ pc = "read" /\ unread > 0
    /\ unread' = unread - 1
    /\ \E p \in Prices :
          /\ p.n = MaxPrices - unread'
          /\ price' = p
          /\ isNew' = IsNew(p.bond)
          /\ pricingMap' = AddOrUpdate(pricingMap, p.bond, p)
    /\ pc' = "gui"
    /\ UNCHANGED <<visible_quantity, algoMap, streamMap, streamingFile, log, link, stream, gui>>

\* End of file, or the provider is gone.
StopReading ==
    /\ pc = "read"
    /\ pc' = "stopped"
    /\ UNCHANGED <<unread, services, log, link, locals, gui>>

\* main.cpp adds the GUI listener before the streaming listener.
ShowPrice ==
    /\ pc = "gui"
    /\ GUI!OnMessage(price)
    /\ pc' = IF isNew THEN "createStream" ELSE "updateStream"
    /\ UNCHANGED <<unread, services, log, link, locals>>

MakeStream ==
    /\ visible_quantity' = GetQuantity(visible_quantity)
    /\ stream' = NewStream(price, visible_quantity')

CreateStream ==
    /\ pc = "createStream"
    /\ MakeStream
    /\ algoMap' = AddOrUpdate(algoMap, price.bond, stream')
    /\ pc' = "stream"
    /\ UNCHANGED <<unread, pricingMap, streamMap, streamingFile, log, link, price, isNew, gui>>

\* GetData throws for a bond without a stream, and nothing catches that exception.
UpdateStream ==
    /\ pc = "updateStream"
    /\ MakeStream
    /\ IF ExistingData(algoMap, price.bond)
       THEN algoMap' = UpdateData(algoMap, price.bond, stream') /\ pc' = "stream"
       ELSE UNCHANGED algoMap /\ pc' = "aborted"
    /\ UNCHANGED <<unread, pricingMap, streamMap, streamingFile, log, link, price, isNew, gui>>

\* What follows a call: the historical listener, then the connector.
After_NotPersisted == [stream |-> "publish", persist |-> "publish", publish |-> "read"]  \* mutant
After == [stream |-> "persist", persist |-> "publish", publish |-> "read"]

\* Every stream is handed over as an addition, so the map keeps the first of a bond.
OnMessageStream ==
    /\ pc = "stream"
    /\ streamMap' = AddData(streamMap, stream.bond, stream)
    /\ pc' = After.stream
    /\ UNCHANGED <<unread, pricingMap, visible_quantity, algoMap, streamingFile, log, link, locals, gui>>

PersistData ==
    /\ pc = "persist"
    /\ streamingFile' = Append(streamingFile, stream)
    /\ pc' = After.persist
    /\ UNCHANGED <<unread, pricingMap, visible_quantity, algoMap, streamMap, log, link, locals, gui>>

\* The line reaches the log, is swallowed by a dead socket, or the write throws.
Publish ==
    /\ pc = "publish"
    /\ \/ link = "up" /\ log' = Append(log, stream) /\ pc' = After.publish
       \/ link = "down" /\ pc' \in {After.publish, "stopped"} /\ UNCHANGED log
    /\ UNCHANGED <<unread, services, link, locals, gui>>

LogDies ==
    /\ link = "up"
    /\ link' = "down"
    /\ UNCHANGED <<unread, services, log, pc, locals, gui>>

\* Time only matters to the GUI, which looks at it while it handles a price.
Tick ==
    /\ GUI!Tick
    /\ UNCHANGED <<unread, services, log, link, pc, locals>>

Chain == ShowPrice \/ CreateStream \/ UpdateStream \/ OnMessageStream \/ PersistData \/ Publish

Next == OnMessage \/ StopReading \/ Chain \/ LogDies \/ Tick

\* The operating system runs a thread that is in the middle of a call.
Spec == Init /\ [][Next]_vars /\ WF_vars(Chain)

-----------------------------------------------------------------------------
(* Properties.                                                             *)

Calls == {"gui", "createStream", "updateStream", "stream", "persist", "publish"}

\* Every variable holds what its C++ counterpart can hold.
TypeOK ==
    /\ unread \in 0 .. MaxPrices
    /\ DOMAIN pricingMap \subseteq Bonds
    /\ \A bond \in DOMAIN pricingMap : pricingMap[bond] \in Prices
    /\ visible_quantity \in {Small, Large}
    /\ DOMAIN algoMap \subseteq Bonds
    /\ \A bond \in DOMAIN algoMap : algoMap[bond] \in Streams
    /\ DOMAIN streamMap \subseteq Bonds
    /\ \A bond \in DOMAIN streamMap : streamMap[bond] \in Streams
    /\ streamingFile \in Seq(Streams)
    /\ log \in Seq(Streams)
    /\ link \in {"up", "down"}
    /\ pc \in Calls \cup {"read", "stopped", "aborted"}
    /\ pc \in Calls => price \in Prices
    /\ pc \in {"stream", "persist", "publish"} => stream \in Streams
    /\ isNew \in BOOLEAN
    /\ GUI!TypeOK

\* The pricing map and the stream map never disagree about which bonds are known,
\* so UpdateStream never asks for a stream that is not there.
NeverAborted == pc # "aborted"

\* Between prices, the streams are those of the current prices: the algo service
\* holds, and the last line of each bond in the file shows, the bond's mid halfway
\* between bid and offer, and the bond's spread between them.
StreamsFollowPrices ==
    pc = "read" =>
        /\ DOMAIN algoMap = DOMAIN pricingMap
        /\ \A bond \in DOMAIN pricingMap :
            LET lines == {line \in Range(streamingFile) : line.bond = bond}
            IN /\ \E line \in lines :
                     line = algoMap[bond] /\ \A other \in lines : other.n <= line.n
               /\ algoMap[bond].bid + algoMap[bond].offer = 2 * pricingMap[bond].mid
               /\ algoMap[bond].offer - algoMap[bond].bid = pricingMap[bond].spread

\* A page of the GUI has no holes: its lines are prices received one after the other.
GuiPageContiguous ==
    \A i \in 1 .. Len(guiFile) - 1 : guiFile[i + 1].n = guiFile[i].n + 1

\* The GUI shows the feed's prices as the feed wrote them: what it reads from bond
\* notation it prints in bond notation without the loss of a tick.
GuiShowsFeed ==
    \A line \in Range(guiFile) : \E quote \in Quotes :
        line.bond = quote.bond /\ line.mid = quote.mid /\ line.spread = quote.spread

\* The log receives the lines of streaming.txt in order and without a gap, until
\* the connection is lost.
Outbound == INSTANCE OutboundFeed WITH
    Data <- Streams, written <- streamingFile, received <- log, lost <- (link = "down")

ImplementsOutbound == Outbound!Spec
=============================================================================
