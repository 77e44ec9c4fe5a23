------------------------- MODULE BondPricing_proofs -------------------------
(***************************************************************************)
(* Theorems about BondPricing, for any rows of the feed, any throttle and  *)
(* any size of the page; and about BondNotation, which they rest on.       *)
(***************************************************************************)
EXTENDS BondPricing, TLAPS

-----------------------------------------------------------------------------
(* Bond notation: printing and reading, for every price there is.          *)

\* dec2bond takes a price apart into its digits, negative prices included.
LEMMA DigitsOfPrice ==
    ASSUME NEW p \in Int
    PROVE  /\ p \div 512 \in Int
           /\ (p % 512) \div 16 \in 0 .. 31
           /\ (p % 16) \div OneTick \in 0 .. 7
           /\ p = 512 * (p \div 512) + 16 * ((p % 512) \div 16) + (p % 16)
           /\ p % 16 = OneTick * ((p % 16) \div OneTick) + (p % OneTick)
           /\ p % OneTick \in {0, 1}
<1>1. p = 512 * (p \div 512) + (p % 512) /\ p % 512 \in 0 .. 511
  OBVIOUS
<1>2. p % 512 = 16 * ((p % 512) \div 16) + ((p % 512) % 16) /\ (p % 512) \div 16 \in 0 .. 31
  BY <1>1
<1>3. (p % 512) % 16 = p % 16
  BY <1>1
<1>4. p % 16 = 2 * ((p % 16) \div 2) + ((p % 16) % 2) /\ (p % 16) \div 2 \in 0 .. 7
  OBVIOUS
<1>5. (p % 16) % 2 = p % 2 /\ p % 2 \in {0, 1}
  OBVIOUS
<1> QED
  BY <1>1, <1>2, <1>3, <1>4, <1>5 DEF OneTick

\* Reading back what dec2bond printed gives the price, cut off at the tick.
THEOREM PrintAndRead ==
    ASSUME NEW p \in Int
    PROVE  bond2dec(dec2bond(p)) = p - (p % OneTick)
<1> DEFINE z == (p % 16) \div OneTick
<1>1. CASE z = 4
  BY <1>1, DigitsOfPrice DEF bond2dec, dec2bond, OneTick, Plus
<1>2. CASE z # 4
  <2>1. z # Plus
    BY DigitsOfPrice DEF Plus
  <2>2. bond2dec(dec2bond(p)) = 512 * (p \div 512) + 16 * ((p % 512) \div 16) + OneTick * z
    BY <1>2, <2>1 DEF bond2dec, dec2bond, OneTick, Plus
  <2>3. ASSUME NEW w \in Int, NEW x \in Int, NEW d \in Int, NEW rest \in Int,
               NEW left \in Int, p = 512 * w + 16 * x + left, left = OneTick * d + rest
        PROVE  512 * w + 16 * x + OneTick * d = p - rest
    BY <2>3 DEF OneTick
  <2>4. z \in Int /\ p % 16 \in Int /\ (p % 512) \div 16 \in Int /\ p % OneTick \in Int
    BY DEF OneTick
  <2> QED
    BY <2>2, <2>3, <2>4, DigitsOfPrice
<1> QED
  BY <1>1, <1>2

\* Every canonical notation is what dec2bond prints for the price it stands for.
THEOREM ReadAndPrint ==
    ASSUME NEW whole \in Int, NEW xy \in 0 .. 31, NEW z \in Digits
    PROVE  dec2bond(bond2dec([whole |-> whole, xy |-> xy, z |-> z]))
              = [whole |-> whole, xy |-> xy, z |-> z]
<1> DEFINE digit == IF z = Plus THEN 4 ELSE z
           p == 512 * whole + 16 * xy + 2 * digit
<1>1. digit \in 0 .. 7
  BY DEF Digits, Plus
<1>2. bond2dec([whole |-> whole, xy |-> xy, z |-> z]) = p
  BY DEF bond2dec, OneTick, Digits
<1>3. p \div 512 = whole /\ (p % 512) \div 16 = xy /\ (p % 16) \div OneTick = digit
  <2> HIDE DEF digit
  <2> QED
    BY <1>1 DEF OneTick
<1>4. (IF digit = 4 THEN Plus ELSE digit) = z
  BY DEF Digits, Plus
<1> QED
  BY <1>2, <1>3, <1>4 DEF dec2bond

-----------------------------------------------------------------------------
(* Prices and maps.                                                        *)

\* What is in a price: both its numbers are whole ticks, and in bond notation they
\* are what the feed wrote.
LEMMA PriceValues ==
    ASSUME NEW p \in Prices
    PROVE  /\ p.n \in 1 .. MaxPrices /\ p.bond \in Bonds
           /\ p.mid \in Int /\ p.spread \in Int
           /\ 2 * (p.spread \div 2) = p.spread
           /\ \E quote \in Quotes : /\ p.bond = quote.bond
                                    /\ dec2bond(p.mid) = quote.mid
                                    /\ dec2bond(p.spread) = quote.spread
<1>1. PICK n \in 1 .. MaxPrices, quote \in Quotes :
         p = [n |-> n, bond |-> quote.bond,
              mid |-> bond2dec(quote.mid), spread |-> bond2dec(quote.spread)]
  BY DEF Prices
<1>2. ASSUME NEW note \in [whole : Nat, xy : 0 .. 31, z : Digits]
      PROVE  /\ bond2dec(note) \in Int
             /\ 2 * (bond2dec(note) \div 2) = bond2dec(note)
             /\ dec2bond(bond2dec(note)) = note
  <2>1. note = [whole |-> note.whole, xy |-> note.xy, z |-> note.z]
    OBVIOUS
  <2>2. dec2bond(bond2dec(note)) = note
    BY <2>1, ReadAndPrint
  <2> DEFINE ticks == IF note.z = Plus THEN 4 ELSE note.z
  <2>3. ticks \in Int /\ note.whole \in Int /\ note.xy \in Int
    BY DEF Digits, Plus
  <2>4. bond2dec(note) = 2 * (256 * note.whole + 8 * note.xy + ticks)
    BY <2>3 DEF bond2dec, OneTick
  <2> HIDE DEF ticks
  <2>5. ASSUME NEW k \in Int PROVE 2 * k \in Int /\ 2 * ((2 * k) \div 2) = 2 * k
    OBVIOUS
  <2>6. 256 * note.whole + 8 * note.xy + ticks \in Int
    BY <2>3
  <2> QED
    BY <2>2, <2>4, <2>5, <2>6
<1>3. /\ quote.mid \in [whole : Nat, xy : 0 .. 31, z : Digits]
      /\ quote.spread \in [whole : Nat, xy : 0 .. 31, z : Digits]
  BY QuotesAssumption
<1>4. p.n = n /\ p.bond = quote.bond /\ p.mid = bond2dec(quote.mid)
      /\ p.spread = bond2dec(quote.spread)
  BY <1>1
<1> QED
  BY <1>2, <1>3, <1>4 DEF Bonds

\* A stream lies around the mid of its price, as wide as its spread.
LEMMA StreamAroundMid ==
    ASSUME NEW p \in Prices, NEW quantity \in {Small, Large}
    PROVE  /\ NewStream(p, quantity) \in Streams
           /\ NewStream(p, quantity).n = p.n
           /\ NewStream(p, quantity).bond = p.bond
           /\ NewStream(p, quantity).bid + NewStream(p, quantity).offer = 2 * p.mid
           /\ NewStream(p, quantity).offer - NewStream(p, quantity).bid = p.spread
<1>1. NewStream(p, quantity) \in Streams
  BY DEF Streams
<1>2. p.mid \in Int /\ p.spread \div 2 \in Int /\ 2 * (p.spread \div 2) = p.spread
  BY PriceValues
<1> QED
  BY <1>1, <1>2 DEF NewStream, Bid, Offer

-----------------------------------------------------------------------------
(* Type correctness.                                                       *)

LEMMA InitType == Init => TypeOK
<1> SUFFICES ASSUME Init PROVE TypeOK
  OBVIOUS
<1>1. DOMAIN pricingMap = {} /\ DOMAIN algoMap = {} /\ DOMAIN streamMap = {}
  BY DEF Init, EmptyMap
<1>2. GUI!TypeOK
  <2>1. guiFile \in Seq({GUI!Line(p) : p \in Prices}) /\ DOMAIN guiMap = {}
    BY DEF Init, GUI!Init, EmptyMap, GUI!EmptyMap
  <2>2. /\ counter = 0 /\ wait = FALSE /\ elapsed \in 0 .. throttle
        /\ firstPage = TRUE /\ pageAge = 0 /\ handled = 0
    BY DEF Init, GUI!Init
  <2>3. counter \in 0 .. max_count /\ pageAge \in 0 .. throttle
    BY <2>2, ThrottleAssumption
  <2> QED
    BY <2>1, <2>2, <2>3 DEF GUI!TypeOK
<1>3. /\ unread \in 0 .. MaxPrices
      /\ streamingFile \in Seq(Streams) /\ log \in Seq(Streams)
  BY BoundAssumption DEF Init
<1> QED
  BY <1>1, <1>2, <1>3 DEF Init, TypeOK, Calls

\* The GUI's variables keep their types, as its page never outgrows max_count.
LEMMA NextPage == TypeOK /\ [Next]_vars => GUI!TypeOK'
<1> SUFFICES ASSUME TypeOK, [Next]_vars PROVE GUI!TypeOK'
  OBVIOUS
<1> DEFINE Lines == {GUI!Line(p) : p \in Prices}
<1>0. /\ guiFile \in Seq(Lines) /\ counter \in 0 .. max_count /\ wait \in BOOLEAN
      /\ elapsed \in 0 .. throttle /\ pageAge \in 0 .. throttle
      /\ firstPage \in BOOLEAN /\ handled \in {0, 1}
      /\ max_count \in Nat /\ max_count > 0 /\ throttle \in Nat
  BY ThrottleAssumption DEF TypeOK, GUI!TypeOK
<1>1. CASE ShowPrice
  <2>1. price \in Prices /\ GUI!OnMessage(price)
    BY <1>1 DEF ShowPrice, TypeOK, Calls
  <2>2. /\ DOMAIN guiMap' \subseteq {q.bond : q \in Prices}
        /\ \A bond \in DOMAIN guiMap' : guiMap'[bond] \in Prices
    BY <2>1 DEF GUI!OnMessage, GUI!AddData, TypeOK, GUI!TypeOK
  <2>3. handled' \in {0, 1}
    BY <1>0, <2>1 DEF GUI!OnMessage
  <2>4. CASE GUI!Show(price)
    <3>1. /\ guiFile' = Append(guiFile, GUI!Line(price)) /\ GUI!Line(price) \in Lines
          /\ counter' = counter + 1 /\ counter < max_count
          /\ UNCHANGED <<wait, elapsed, firstPage, pageAge>>
      BY <2>1, <2>4 DEF GUI!Show, GUI!Room
    <3> HIDE DEF Lines
    <3>2. guiFile' \in Seq(Lines)
      BY <1>0, <3>1
    <3>3. counter' \in 0 .. max_count
      BY <1>0, <3>1
    <3> QED
      BY <1>0, <2>2, <2>3, <3>1, <3>2, <3>3 DEF GUI!TypeOK, Lines
  <2>5. CASE GUI!ClearFile
    <3>1. guiFile' = <<>> /\ wait' = FALSE /\ elapsed' = 0 /\ counter' = 0
          /\ firstPage' = FALSE /\ pageAge' = 0
      BY <2>5 DEF GUI!ClearFile, GUI!ElapsedAfterClear, GUI!CounterAfterClear
    <3>2. guiFile' \in Seq(Lines)
      BY <3>1
    <3>3. counter' \in 0 .. max_count /\ elapsed' \in 0 .. throttle /\ pageAge' \in 0 .. throttle
      BY <1>0, <3>1
    <3> QED
      BY <2>2, <2>3, <3>1, <3>2, <3>3 DEF GUI!TypeOK
  <2>6. CASE GUI!KeepWaiting \/ GUI!StartWaiting
    BY <1>0, <2>2, <2>3, <2>6 DEF GUI!KeepWaiting, GUI!StartWaiting, GUI!TypeOK
  <2> QED
    BY <2>1, <2>4, <2>5, <2>6 DEF GUI!OnMessage
<1>2. CASE Tick
  <2>1. /\ elapsed' = GUI!UpToThrottle(elapsed) /\ pageAge' = GUI!UpToThrottle(pageAge)
        /\ UNCHANGED <<guiMap, counter, wait, guiFile, firstPage, handled>>
    BY <1>2 DEF Tick, GUI!Tick
  <2>2. elapsed' \in 0 .. throttle /\ pageAge' \in 0 .. throttle
    BY <1>0, <2>1 DEF GUI!UpToThrottle
  <2> QED
    BY <1>0, <2>1, <2>2 DEF TypeOK, GUI!TypeOK
<1>3. CASE UNCHANGED gui
  BY <1>3 DEF gui, TypeOK, GUI!TypeOK
<1> QED
  BY <1>1, <1>2, <1>3 DEF Next, Chain, OnMessage, StopReading, CreateStream, UpdateStream,
     OnMessageStream, PersistData, Publish, LogDies, vars

\* A new entry keeps the type of a map.
LEMMA EntryType ==
    ASSUME NEW map, NEW Data, NEW key \in Bonds, NEW data \in Data,
           DOMAIN map \subseteq Bonds, \A k \in DOMAIN map : map[k] \in Data
    PROVE  /\ DOMAIN AddOrUpdate(map, key, data) \subseteq Bonds
           /\ \A k \in DOMAIN AddOrUpdate(map, key, data) :
                 AddOrUpdate(map, key, data)[k] \in Data
BY DEF AddOrUpdate, ExistingData, AddData, UpdateData

LEMMA NextType == TypeOK /\ [Next]_vars => TypeOK'
<1> SUFFICES ASSUME TypeOK, [Next]_vars PROVE TypeOK'
  OBVIOUS
<1> USE DEF Calls
<1>0. GUI!TypeOK'
  BY NextPage
<1>1. CASE OnMessage
  <2>1. PICK p \in Prices : price' = p /\ pricingMap' = AddOrUpdate(pricingMap, p.bond, p)
                            /\ isNew' = IsNew(p.bond)
    BY <1>1 DEF OnMessage
  <2>2. /\ DOMAIN pricingMap' \subseteq Bonds
        /\ \A bond \in DOMAIN pricingMap' : pricingMap'[bond] \in Prices
    BY <2>1, PriceValues, EntryType DEF TypeOK
  <2>3. unread' \in 0 .. MaxPrices
    BY <1>1, BoundAssumption DEF OnMessage, TypeOK
  <2> QED
    BY <1>0, <1>1, <2>1, <2>2, <2>3 DEF OnMessage, TypeOK, IsNew, ExistingData
<1>2. CASE StopReading
  BY <1>0, <1>2 DEF StopReading, TypeOK, services, locals
<1>3. CASE ShowPrice
  BY <1>0, <1>3 DEF ShowPrice, TypeOK, services, locals
<1>4. CASE CreateStream \/ UpdateStream
  <2>1. /\ price \in Prices /\ price' = price /\ pc \in {"createStream", "updateStream"}
        /\ visible_quantity' \in {Small, Large}
        /\ stream' = NewStream(price, visible_quantity')
    BY <1>4 DEF CreateStream, UpdateStream, MakeStream, GetQuantity, TypeOK
  <2>2. stream' \in Streams /\ price.bond \in Bonds
    BY <2>1, StreamAroundMid, PriceValues
  <2>3. \/ algoMap' = AddOrUpdate(algoMap, price.bond, stream') /\ pc' = "stream"
        \/ algoMap' = algoMap /\ pc' = "aborted"
    BY <1>4 DEF CreateStream, UpdateStream, AddOrUpdate
  <2>4. /\ DOMAIN algoMap' \subseteq Bonds
        /\ \A bond \in DOMAIN algoMap' : algoMap'[bond] \in Streams
    BY <2>2, <2>3, EntryType DEF TypeOK
  <2> QED
    BY <1>0, <1>4, <2>1, <2>2, <2>3, <2>4 DEF CreateStream, UpdateStream, TypeOK
<1>5. CASE OnMessageStream
  <2>1. stream \in Streams /\ stream.bond \in Bonds
    <3>1. stream \in Streams
      BY <1>5 DEF OnMessageStream, TypeOK
    <3>2. PICK p \in Prices, quantity \in {Small, Large} : stream = NewStream(p, quantity)
      BY <3>1 DEF Streams
    <3> QED
      BY <3>1, <3>2, StreamAroundMid, PriceValues
  <2>2. /\ DOMAIN streamMap' \subseteq Bonds
        /\ \A bond \in DOMAIN streamMap' : streamMap'[bond] \in Streams
    BY <1>5, <2>1 DEF OnMessageStream, AddData, TypeOK
  <2> QED
    BY <1>0, <1>5, <2>1, <2>2 DEF OnMessageStream, After, TypeOK, locals
<1>6. CASE PersistData
  <2>1. stream \in Streams /\ streamingFile' \in Seq(Streams)
    BY <1>6 DEF PersistData, TypeOK
  <2> QED
    BY <1>0, <1>6, <2>1 DEF PersistData, After, TypeOK, locals
<1>7. CASE Publish
  <2>1. stream \in Streams /\ log' \in Seq(Streams)
    BY <1>7 DEF Publish, TypeOK
  <2> QED
    BY <1>0, <1>7, <2>1 DEF Publish, After, TypeOK, services, locals
<1>8. CASE LogDies
  BY <1>0, <1>8 DEF LogDies, TypeOK, services, locals
<1>9. CASE Tick
  BY <1>0, <1>9 DEF Tick, TypeOK, services, locals
<1>10. CASE UNCHANGED vars
  BY <1>0, <1>10 DEF vars, TypeOK, services, locals
<1> QED
  BY <1>1, <1>2, <1>3, <1>4, <1>5, <1>6, <1>7, <1>8, <1>9, <1>10 DEF Next, Chain

\* Every variable keeps its type, for any rows and any page of the GUI.
THEOREM TypeCorrect == Spec => []TypeOK
BY InitType, NextType, PTL DEF Spec

\* A line of the GUI has the mid and the spread of a row, digit for digit.
LEMMA LinesAreQuotes == TypeOK => GuiShowsFeed
<1> SUFFICES ASSUME TypeOK, NEW line \in Range(guiFile)
             PROVE  \E quote \in Quotes : /\ line.bond = quote.bond
                                          /\ line.mid = quote.mid /\ line.spread = quote.spread
  BY DEF GuiShowsFeed
<1>1. guiFile \in Seq({GUI!Line(p) : p \in Prices})
  BY DEF TypeOK, GUI!TypeOK
<1>2. PICK p \in Prices : line = GUI!Line(p)
  BY <1>1 DEF Range
<1>3. /\ p = [n |-> p.n, bond |-> p.bond, mid |-> p.mid, spread |-> p.spread]
  BY DEF Prices
<1>4. GUI!Line(p) = [p EXCEPT !.mid = dec2bond(p.mid), !.spread = dec2bond(p.spread)]
  BY DEF GUI!Line, dec2bond, GUI!dec2bond, OneTick, GUI!OneTick, Plus, GUI!Plus
<1>5. /\ line.bond = p.bond
      /\ line.mid = dec2bond(p.mid)
      /\ line.spread = dec2bond(p.spread)
  BY <1>2, <1>3, <1>4
<1> QED
  BY <1>5, PriceValues

\* What the GUI shows is what the feed wrote: reading bond notation and printing it
\* again loses nothing, for every price there is.
THEOREM ScreenShowsFeed == Spec => []GuiShowsFeed
BY TypeCorrect, LinesAreQuotes, PTL

-----------------------------------------------------------------------------
(* Streams and prices.                                                     *)

\* The row whose price is in hand, or was last.
CurrentRow == MaxPrices - unread

\* The price in hand is that of the current row, and the pricing service has it.
PriceInHand ==
    pc \in Calls =>
        /\ price.n = CurrentRow
        /\ price.bond \in DOMAIN pricingMap
        /\ pricingMap[price.bond] = price

\* The stream in hand is that of the price, and the algo service has it.
StreamInHand ==
    pc \in {"stream", "persist", "publish"} =>
        /\ price.bond \in DOMAIN algoMap
        /\ algoMap[price.bond] = stream
        /\ stream.n = price.n
        /\ stream.bond = price.bond

\* A bond with a price has a stream, but for one that is being added.
BondsAgree ==
    /\ pc = "createStream" => isNew
    /\ pc = "updateStream" => ~isNew
    /\ DOMAIN algoMap =
           IF pc \in {"gui", "createStream"} /\ isNew
           THEN DOMAIN pricingMap \ {price.bond} ELSE DOMAIN pricingMap
    /\ pc \in {"gui", "createStream"} /\ isNew => price.bond \in DOMAIN pricingMap

\* The bond whose stream is not yet that of its price.
Repricing == IF pc \in {"gui", "createStream", "updateStream"} THEN {price.bond} ELSE {}

Centred(s, p) == s.bid + s.offer = 2 * p.mid /\ s.offer - s.bid = p.spread

StreamsCentred ==
    \A bond \in DOMAIN algoMap \ Repricing : Centred(algoMap[bond], pricingMap[bond])

\* The lines of the file are older than the price in hand until its own is written.
LinesOlder ==
    \A i \in DOMAIN streamingFile :
        /\ streamingFile[i].n <= CurrentRow
        /\ pc \in Calls \ {"publish"} => streamingFile[i].n < CurrentRow

\* The bond whose stream is not yet on file.
Unfiled == IF pc \in {"stream", "persist"} THEN {price.bond} ELSE {}

\* The last line of a bond shows its stream.
LastLine(bond) ==
    \E i \in DOMAIN streamingFile :
        /\ streamingFile[i] = algoMap[bond]
        /\ \A j \in DOMAIN streamingFile :
              streamingFile[j].bond = bond => streamingFile[j].n <= streamingFile[i].n

LinesShowStreams ==
    \A bond \in DOMAIN algoMap \ Unfiled : algoMap[bond].bond = bond /\ LastLine(bond)

ChainInv ==
    /\ PriceInHand
    /\ StreamInHand
    /\ BondsAgree
    /\ StreamsCentred
    /\ LinesOlder
    /\ LinesShowStreams
    /\ NeverAborted

LEMMA InitChain == Init => ChainInv
<1> SUFFICES ASSUME Init PROVE ChainInv
  OBVIOUS
<1>1. /\ DOMAIN pricingMap = {} /\ DOMAIN algoMap = {} /\ DOMAIN streamingFile = {}
      /\ pc = "read"
  BY DEF Init, EmptyMap
<1> QED
  BY <1>1 DEF ChainInv, PriceInHand, StreamInHand, BondsAgree, StreamsCentred, LinesOlder,
              LinesShowStreams, LastLine, NeverAborted, Calls, Repricing, Unfiled

\* What the provers need of the types.
LEMMA ChainTypes ==
    ASSUME TypeOK
    PROVE  /\ unread \in Int /\ MaxPrices \in Int /\ CurrentRow \in Int
           /\ streamingFile \in Seq(Streams)
           /\ \A i \in DOMAIN streamingFile : streamingFile[i].n \in Int
<1>1. unread \in Int /\ MaxPrices \in Int /\ streamingFile \in Seq(Streams)
  BY BoundAssumption DEF TypeOK
<1>2. ASSUME NEW i \in DOMAIN streamingFile PROVE streamingFile[i].n \in Int
  <2>1. streamingFile[i] \in Streams
    BY <1>1
  <2>2. PICK p \in Prices, quantity \in {Small, Large} : streamingFile[i] = NewStream(p, quantity)
    BY <2>1 DEF Streams
  <2> QED
    BY <2>2, StreamAroundMid, PriceValues
<1> QED
  BY <1>1, <1>2 DEF CurrentRow

LEMMA NextChain == TypeOK /\ ChainInv /\ [Next]_vars => ChainInv'
<1> SUFFICES ASSUME TypeOK, ChainInv, [Next]_vars PROVE ChainInv'
  OBVIOUS
<1> USE DEF ChainInv, Calls
<1>0. /\ unread \in Int /\ MaxPrices \in Int /\ CurrentRow \in Int
      /\ streamingFile \in Seq(Streams)
      /\ \A i \in DOMAIN streamingFile : streamingFile[i].n \in Int
  BY ChainTypes
\* Steps that change no map of a price or a stream, and not the file.
<1>1. ASSUME UNCHANGED <<unread, pricingMap, algoMap, streamingFile, price, isNew, stream>>,
             \/ pc' = pc
             \/ pc = "gui" /\ pc' = IF isNew THEN "createStream" ELSE "updateStream"
             \/ pc = "stream" /\ pc' = "persist"
             \/ pc = "publish" /\ pc' \in {"read", "stopped"}
             \/ pc = "read" /\ pc' = "stopped"
      PROVE  ChainInv'
  <2>1. CurrentRow' = CurrentRow /\ \A bond : LastLine(bond)' = LastLine(bond)
    BY <1>1 DEF CurrentRow, LastLine
  <2>2. PriceInHand' /\ StreamInHand' /\ BondsAgree' /\ NeverAborted'
    BY <1>1, <2>1 DEF PriceInHand, StreamInHand, BondsAgree, NeverAborted
  <2>3. StreamsCentred' /\ LinesOlder'
    BY <1>1, <2>1 DEF StreamsCentred, Centred, Repricing, LinesOlder
  <2>4. LinesShowStreams'
    BY <1>1, <2>1 DEF LinesShowStreams, Unfiled
  <2> QED
    BY <2>2, <2>3, <2>4
<1>2. CASE OnMessage
  <2>1. PICK p \in Prices :
           /\ p.n = MaxPrices - unread' /\ price' = p /\ isNew' = IsNew(p.bond)
           /\ pricingMap' = AddOrUpdate(pricingMap, p.bond, p)
    BY <1>2 DEF OnMessage
  <2>2. /\ pc = "read" /\ pc' = "gui" /\ unread' = unread - 1
        /\ UNCHANGED <<algoMap, streamingFile, stream>>
    BY <1>2 DEF OnMessage
  <2>3. CurrentRow' = CurrentRow + 1 /\ p.n = CurrentRow'
    BY <1>0, <2>1, <2>2 DEF CurrentRow
  <2>4. /\ DOMAIN pricingMap' = DOMAIN pricingMap \cup {p.bond}
        /\ pricingMap'[p.bond] = p
        /\ \A bond \in DOMAIN pricingMap \ {p.bond} : pricingMap'[bond] = pricingMap[bond]
    BY <2>1 DEF AddOrUpdate, ExistingData, AddData, UpdateData
  <2>5. DOMAIN algoMap = DOMAIN pricingMap /\ (isNew' <=> p.bond \notin DOMAIN pricingMap)
    BY <2>1, <2>2 DEF BondsAgree, IsNew, ExistingData
  <2>6. PriceInHand' /\ StreamInHand' /\ NeverAborted'
    BY <2>1, <2>2, <2>3, <2>4 DEF PriceInHand, StreamInHand, NeverAborted
  <2>7. BondsAgree'
    BY <2>1, <2>2, <2>4, <2>5 DEF BondsAgree
  <2>8. StreamsCentred'
    BY <2>1, <2>2, <2>4, <2>5 DEF StreamsCentred, Centred, Repricing
  <2>9. LinesOlder'
    BY <1>0, <2>2, <2>3 DEF LinesOlder
  <2>10. LinesShowStreams'
    BY <2>2 DEF LinesShowStreams, LastLine, Unfiled
  <2> QED
    BY <2>6, <2>7, <2>8, <2>9, <2>10
<1>3. CASE StopReading
  BY <1>1, <1>3 DEF StopReading, services, locals
<1>4. CASE ShowPrice
  BY <1>1, <1>4 DEF ShowPrice, services, locals
<1>5. CASE CreateStream \/ UpdateStream
  <2>1. /\ pc \in {"createStream", "updateStream"}
        /\ UNCHANGED <<unread, pricingMap, streamingFile, price, isNew>>
        /\ visible_quantity' \in {Small, Large}
        /\ stream' = NewStream(price, visible_quantity')
    BY <1>5 DEF CreateStream, UpdateStream, MakeStream, GetQuantity
  <2>2. /\ price \in Prices /\ price.n = CurrentRow /\ price.bond \in DOMAIN pricingMap
        /\ pricingMap[price.bond] = price
    BY <2>1 DEF TypeOK, PriceInHand
  <2>3. /\ stream'.n = price.n /\ stream'.bond = price.bond
        /\ Centred(stream', price)
    BY <2>1, <2>2, StreamAroundMid DEF Centred
  <2>4. pc = "updateStream" => price.bond \in DOMAIN algoMap
    BY <2>2 DEF BondsAgree
  <2>5. algoMap' = AddOrUpdate(algoMap, price.bond, stream') /\ pc' = "stream"
    BY <1>5, <2>4 DEF CreateStream, UpdateStream, AddOrUpdate, ExistingData
  <2>6. /\ DOMAIN algoMap' = DOMAIN algoMap \cup {price.bond}
        /\ algoMap'[price.bond] = stream'
        /\ \A bond \in DOMAIN algoMap \ {price.bond} : algoMap'[bond] = algoMap[bond]
    BY <2>5 DEF AddOrUpdate, ExistingData, AddData, UpdateData
  <2>7. DOMAIN algoMap' = DOMAIN pricingMap
    BY <2>1, <2>2, <2>6 DEF BondsAgree
  <2>8. CurrentRow' = CurrentRow
    BY <2>1 DEF CurrentRow
  <2>9. PriceInHand' /\ StreamInHand' /\ BondsAgree' /\ NeverAborted'
    BY <2>1, <2>2, <2>3, <2>5, <2>6, <2>7, <2>8
       DEF PriceInHand, StreamInHand, BondsAgree, NeverAborted
  <2>10. StreamsCentred'
    BY <2>1, <2>2, <2>3, <2>5, <2>6 DEF StreamsCentred, Centred, Repricing
  <2>11. LinesOlder'
    BY <2>1, <2>5, <2>8 DEF LinesOlder
  <2>12. LinesShowStreams'
    BY <2>1, <2>5, <2>6 DEF LinesShowStreams, LastLine, Unfiled
  <2> QED
    BY <2>9, <2>10, <2>11, <2>12
<1>6. CASE OnMessageStream
  BY <1>1, <1>6 DEF OnMessageStream, After, locals
<1>7. CASE PersistData
  <2> DEFINE last == Len(streamingFile) + 1
  <2>1. /\ pc = "persist" /\ pc' = "publish" /\ streamingFile' = Append(streamingFile, stream)
        /\ UNCHANGED <<unread, pricingMap, algoMap, price, isNew, stream>>
    BY <1>7 DEF PersistData, After, locals
  <2>2. /\ price.n = CurrentRow /\ price.bond \in DOMAIN algoMap
        /\ algoMap[price.bond] = stream /\ stream.n = price.n /\ stream.bond = price.bond
    BY <2>1 DEF PriceInHand, StreamInHand
  <2>3. /\ DOMAIN streamingFile = 1 .. Len(streamingFile) /\ Len(streamingFile) \in Nat
        /\ DOMAIN streamingFile' = DOMAIN streamingFile \cup {last}
        /\ streamingFile'[last] = stream
        /\ \A i \in DOMAIN streamingFile : streamingFile'[i] = streamingFile[i]
    <3>1. stream \in Streams
      BY <2>1 DEF TypeOK
    <3> QED
      BY <1>0, <2>1, <3>1
  <2>4. CurrentRow' = CurrentRow
    BY <2>1 DEF CurrentRow
  <2>5. PriceInHand' /\ StreamInHand' /\ BondsAgree' /\ NeverAborted'
    BY <2>1, <2>2, <2>4 DEF PriceInHand, StreamInHand, BondsAgree, NeverAborted
  <2>6. StreamsCentred'
    BY <2>1 DEF StreamsCentred, Centred, Repricing
  <2>7. LinesOlder'
    BY <1>0, <2>1, <2>2, <2>3, <2>4 DEF LinesOlder
  <2>8. \A i \in DOMAIN streamingFile : streamingFile[i].n < stream.n
    BY <2>1, <2>2 DEF LinesOlder
  <2>9. ASSUME NEW bond \in DOMAIN algoMap
        PROVE  algoMap[bond].bond = bond /\ LastLine(bond)'
    <3>1. CASE bond = price.bond
      BY <1>0, <2>1, <2>2, <2>3, <2>8, <3>1 DEF LastLine
    <3>2. CASE bond # price.bond
      <4>1. algoMap[bond].bond = bond /\ LastLine(bond)
        BY <2>1, <3>2 DEF LinesShowStreams, Unfiled
      <4> QED
        BY <2>1, <2>2, <2>3, <3>2, <4>1 DEF LastLine
    <3> QED
      BY <3>1, <3>2
  <2>10. LinesShowStreams'
    BY <2>1, <2>9 DEF LinesShowStreams
  <2> QED
    BY <2>5, <2>6, <2>7, <2>10
<1>8. CASE Publish
  BY <1>1, <1>8 DEF Publish, After, services, locals
<1>9. CASE LogDies \/ Tick \/ UNCHANGED vars
  BY <1>1, <1>9 DEF LogDies, Tick, vars, services, locals
<1> QED
  BY <1>2, <1>3, <1>4, <1>5, <1>6, <1>7, <1>8, <1>9 DEF Next, Chain

LEMMA ChainAlways == Spec => [](TypeOK /\ ChainInv)
BY TypeCorrect, InitChain, NextChain, PTL DEF Spec

\* UpdateStream never throws: a bond the pricing service knows has a stream, whatever
\* the order in which the bonds come.
THEOREM StreamNeverMissing == Spec => []NeverAborted
BY ChainAlways, PTL DEF ChainInv

LEMMA ChainInvMeans == TypeOK /\ ChainInv => StreamsFollowPrices
<1> SUFFICES ASSUME TypeOK, ChainInv, pc = "read"
             PROVE  /\ DOMAIN algoMap = DOMAIN pricingMap
                    /\ \A bond \in DOMAIN pricingMap :
                        LET lines == {line \in Range(streamingFile) : line.bond = bond}
                        IN /\ \E line \in lines :
                                 line = algoMap[bond] /\ \A other \in lines : other.n <= line.n
                           /\ algoMap[bond].bid + algoMap[bond].offer = 2 * pricingMap[bond].mid
                           /\ algoMap[bond].offer - algoMap[bond].bid = pricingMap[bond].spread
  BY DEF StreamsFollowPrices
<1>1. DOMAIN algoMap = DOMAIN pricingMap
  BY DEF ChainInv, BondsAgree
<1>2. ASSUME NEW bond \in DOMAIN pricingMap
      PROVE  Centred(algoMap[bond], pricingMap[bond])
  BY <1>1 DEF ChainInv, StreamsCentred, Repricing
<1>3. ASSUME NEW bond \in DOMAIN pricingMap,
             NEW lines, lines = {line \in Range(streamingFile) : line.bond = bond}
      PROVE  \E line \in lines :
                line = algoMap[bond] /\ \A other \in lines : other.n <= line.n
  <2>1. algoMap[bond].bond = bond /\ LastLine(bond)
    BY <1>1 DEF ChainInv, LinesShowStreams, Unfiled
  <2>2. Range(streamingFile) = {streamingFile[i] : i \in DOMAIN streamingFile}
    BY DEF Range
  <2> QED
    BY <1>3, <2>1, <2>2 DEF LastLine
<1> QED
  BY <1>1, <1>2, <1>3 DEF Centred

\* Between prices each bond's stream is that of its price, in the algo service and in
\* the last line of the bond in the file: for any feed, and wherever the log died.
THEOREM StreamsAgreeWithPrices == Spec => []StreamsFollowPrices
BY ChainAlways, ChainInvMeans, PTL

-----------------------------------------------------------------------------
(* The page of the GUI.                                                    *)

\* Of a page with room, the last line shows the last price the GUI handled.
LastHandled == IF pc = "gui" THEN CurrentRow - 1 ELSE CurrentRow

PageUpToDate ==
    guiFile # <<>> /\ counter < max_count => guiFile[Len(guiFile)].n = LastHandled

PageInv == PageUpToDate /\ GuiPageContiguous

LEMMA InitPage == Init => PageInv
BY DEF Init, GUI!Init, PageInv, PageUpToDate, GuiPageContiguous

LEMMA NextPageInv == TypeOK /\ ChainInv /\ PageInv /\ [Next]_vars => PageInv'
<1> SUFFICES ASSUME TypeOK, ChainInv, PageInv, [Next]_vars PROVE PageInv'
  OBVIOUS
<1> USE DEF PageInv
<1> DEFINE Lines == {GUI!Line(p) : p \in Prices}
<1>0. /\ guiFile \in Seq(Lines) /\ max_count \in Nat /\ unread \in Int /\ MaxPrices \in Int
  BY ThrottleAssumption, BoundAssumption
     DEF GUI!TypeOK, TypeOK
\* Steps that leave the page alone and hand over no price.
<1>1. ASSUME UNCHANGED <<guiFile, counter, unread>>, pc # "gui", pc' # "gui"
      PROVE  PageInv'
  BY <1>1 DEF PageUpToDate, GuiPageContiguous, LastHandled, CurrentRow
<1>2. CASE OnMessage
  <2>1. UNCHANGED <<guiFile, counter>> /\ pc = "read" /\ pc' = "gui" /\ unread' = unread - 1
    BY <1>2 DEF OnMessage, gui
  <2> QED
    BY <1>0, <2>1 DEF PageUpToDate, GuiPageContiguous, LastHandled, CurrentRow
<1>3. CASE StopReading
  BY <1>1, <1>3 DEF StopReading, gui
<1>4. CASE ShowPrice
  <2>1. /\ pc = "gui" /\ pc' # "gui" /\ unread' = unread /\ GUI!OnMessage(price)
    BY <1>4 DEF ShowPrice
  <2>2. price \in Prices /\ price.n = CurrentRow /\ price.n \in Int
    <3>1. price \in Prices /\ price.n = CurrentRow
      BY <2>1 DEF TypeOK, ChainInv, PriceInHand, Calls
    <3> QED
      BY <3>1, PriceValues
  <2>3. CASE GUI!Show(price)
    <3>1. /\ guiFile' = Append(guiFile, GUI!Line(price)) /\ counter < max_count
          /\ GUI!Line(price) \in Lines
      BY <2>2, <2>3 DEF GUI!Show, GUI!Room
    <3> DEFINE shown == GUI!Line(price)
    <3>2. shown.n = CurrentRow
      <4>1. price = [n |-> price.n, bond |-> price.bond, mid |-> price.mid, spread |-> price.spread]
        BY <2>2 DEF Prices
      <4> QED
        BY <2>2, <4>1 DEF GUI!Line
    <3> HIDE DEF Lines, shown
    <3>3. /\ Len(guiFile') = Len(guiFile) + 1 /\ Len(guiFile) \in Nat
          /\ guiFile'[Len(guiFile) + 1] = shown
          /\ \A i \in 1 .. Len(guiFile) : guiFile'[i] = guiFile[i]
      BY <1>0, <3>1 DEF shown
    <3>4. CurrentRow' = CurrentRow /\ LastHandled' = CurrentRow /\ LastHandled = CurrentRow - 1
          /\ CurrentRow \in Int
      BY <1>0, <2>1 DEF CurrentRow, LastHandled
    <3>5. PageUpToDate'
      BY <3>2, <3>3, <3>4 DEF PageUpToDate
    <3>6. ASSUME NEW i \in 1 .. Len(guiFile') - 1
          PROVE  guiFile'[i + 1].n = guiFile'[i].n + 1
      <4>1. CASE i = Len(guiFile)
        <5>1. guiFile # <<>> /\ i \in 1 .. Len(guiFile)
          BY <3>3, <3>6, <4>1
        <5>2. guiFile[Len(guiFile)].n = CurrentRow - 1
          BY <3>1, <3>4, <5>1 DEF PageUpToDate
        <5> QED
          BY <3>2, <3>3, <3>4, <4>1, <5>1, <5>2
      <4>2. CASE i < Len(guiFile)
        <5>1. i \in 1 .. Len(guiFile) - 1 /\ i \in 1 .. Len(guiFile) /\ i + 1 \in 1 .. Len(guiFile)
          BY <3>3, <3>6, <4>2
        <5> QED
          BY <3>3, <5>1 DEF GuiPageContiguous
      <4> QED
        BY <3>3, <3>6, <4>1, <4>2
    <3> QED
      BY <3>5, <3>6 DEF GuiPageContiguous
  <2>4. CASE GUI!ClearFile
    BY <2>4 DEF GUI!ClearFile, PageUpToDate, GuiPageContiguous
  <2>5. CASE GUI!KeepWaiting \/ GUI!StartWaiting
    <3>1. UNCHANGED <<guiFile, counter>> /\ ~(counter < max_count)
      BY <2>5 DEF GUI!KeepWaiting, GUI!StartWaiting, GUI!Room
    <3> QED
      BY <3>1 DEF PageUpToDate, GuiPageContiguous
  <2> QED
    BY <2>1, <2>3, <2>4, <2>5 DEF GUI!OnMessage
<1>5. CASE CreateStream
  BY <1>1, <1>5 DEF CreateStream, gui
<1>6. CASE UpdateStream
  BY <1>1, <1>6 DEF UpdateStream, gui
<1>7. CASE OnMessageStream
  BY <1>1, <1>7 DEF OnMessageStream, After, gui
<1>8. CASE PersistData
  BY <1>1, <1>8 DEF PersistData, After, gui
<1>9. CASE Publish
  BY <1>1, <1>9 DEF Publish, After, gui
<1>10. CASE LogDies \/ Tick \/ UNCHANGED vars
  BY <1>10 DEF LogDies, Tick, GUI!Tick, vars, gui, PageUpToDate, GuiPageContiguous,
               LastHandled, CurrentRow
<1> QED
  BY <1>2, <1>3, <1>4, <1>5, <1>6, <1>7, <1>8, <1>9, <1>10 DEF Next, Chain

\* A page of the GUI has no holes: prices are dropped between pages only, for any
\* throttle, any size of the page, and any pace of the feed.
THEOREM PagesContiguous == Spec => []GuiPageContiguous
BY TypeCorrect, ChainAlways, InitPage, NextPageInv, PTL DEF Spec, PageInv

-----------------------------------------------------------------------------
(* The outbound feed.                                                      *)

\* As long as the log lives it has every line but the one about to be published.
LogFollows ==
    link = "up" => streamingFile = IF pc = "publish" THEN Append(log, stream) ELSE log

LEMMA InitLog == Init => LogFollows
BY DEF Init, LogFollows

LEMMA NextLog == TypeOK /\ LogFollows /\ [Next]_vars => LogFollows'
<1> SUFFICES ASSUME TypeOK, LogFollows, [Next]_vars PROVE LogFollows'
  OBVIOUS
<1> USE DEF LogFollows
<1>1. CASE PersistData
  BY <1>1 DEF PersistData, After, locals
<1>2. CASE Publish
  BY <1>2 DEF Publish, After, services
<1>3. CASE OnMessage \/ StopReading \/ ShowPrice
  BY <1>3 DEF OnMessage, StopReading, ShowPrice, services
<1>4. CASE CreateStream \/ UpdateStream \/ OnMessageStream
  BY <1>4 DEF CreateStream, UpdateStream, OnMessageStream, After
<1>5. CASE LogDies \/ Tick \/ UNCHANGED vars
  BY <1>5 DEF LogDies, Tick, vars, services, locals
<1> QED
  BY <1>1, <1>2, <1>3, <1>4, <1>5 DEF Next, Chain

LEMMA OutboundStep == TypeOK /\ LogFollows /\ [Next]_vars => [Outbound!Next]_(Outbound!vars)
<1> SUFFICES ASSUME TypeOK, LogFollows, [Next]_vars PROVE [Outbound!Next]_(Outbound!vars)
  OBVIOUS
<1>1. CASE PersistData
  <2>1. /\ pc = "persist" /\ stream \in Streams /\ streamingFile' = Append(streamingFile, stream)
        /\ UNCHANGED <<log, link>>
    BY <1>1 DEF PersistData, TypeOK
  <2>2. link = "down" \/ log = streamingFile
    BY <2>1 DEF TypeOK, LogFollows
  <2> QED
    BY <2>1, <2>2 DEF Outbound!Next, Outbound!Write
<1>2. CASE Publish /\ link = "up"
  <2>1. /\ pc = "publish" /\ stream \in Streams /\ log \in Seq(Streams)
        /\ log' = Append(log, stream) /\ UNCHANGED <<streamingFile, link>>
    BY <1>2 DEF Publish, TypeOK, services
  <2>2. streamingFile = Append(log, stream)
    BY <1>2, <2>1 DEF LogFollows
  <2>3. Len(log) < Len(streamingFile) /\ streamingFile[Len(log) + 1] = stream
    BY <2>1, <2>2
  <2> QED
    BY <1>2, <2>1, <2>3 DEF Outbound!Next, Outbound!Deliver
<1>3. CASE LogDies
  BY <1>3 DEF LogDies, services, Outbound!Next, Outbound!Lose
<1>4. ASSUME UNCHANGED <<streamingFile, log, link>> PROVE UNCHANGED Outbound!vars
  BY <1>4 DEF Outbound!vars
<1>5. CASE Publish /\ link # "up"
  BY <1>4, <1>5 DEF Publish, services
<1>6. CASE OnMessage \/ StopReading \/ ShowPrice \/ CreateStream \/ UpdateStream
           \/ OnMessageStream \/ Tick \/ UNCHANGED vars
  BY <1>4, <1>6 DEF OnMessage, StopReading, ShowPrice, CreateStream, UpdateStream,
                    OnMessageStream, Tick, vars, services
<1> QED
  BY <1>1, <1>2, <1>3, <1>5, <1>6 DEF Next, Chain

\* Streaming implements the outbound feed, as execution does: the streaming log
\* receives the lines of streaming.txt in order and without a gap, until it dies.
THEOREM StreamingRefinement == Spec => ImplementsOutbound
<1>1. Init => Outbound!Init
  BY DEF Init, Outbound!Init
<1> QED
  BY <1>1, TypeCorrect, InitLog, NextLog, OutboundStep, PTL
     DEF Spec, ImplementsOutbound, Outbound!Spec
=============================================================================
