# A verification of the bond trading system

This directory specifies the bond trading system of this repository in TLA+,
model-checks the specifications with TLC on small instances, and proves the most
important properties for every instance with TLAPS. Everything is derived from the
C++ under `src/`. `PROJECT.json` maps each definition to the lines it models.

    tlc -workers 2 -config MCBondBooking.cfg MCBondBooking.tla     # a run
    tlapm BondBooking_proofs.tla                                   # the proofs of a module

## 1. The system

Seven processes talk over TCP on one machine (`src/setup.sh`):

    bondinquiryprovider    --+                            +--> executions.txt, positions.txt, risk.txt,
    bondmarketdataprovider --+                            |    streaming.txt, allinquiries.txt, gui.txt
    bondtradebookingprovider-+--> tradingsystem (main.cpp)+--> bondexecutionlog
    bondpricingprovider    --+                            +--> bondstreaminglog

A provider listens, accepts one connection, and writes its file to it line by line, with a
pause (`refresh_rate_ms`) after each line. The trading system has one read thread per
provider. A thread loops in `SocketReadConnector::Read`: it takes a line off the socket,
makes an object of it, and calls `OnMessage` of a service. A service stores the object in a
map and calls its listeners, which call further services, and so on: one line of input is
one synchronous chain of calls, ending in files (`FilePublishConnector`) and in the sockets
of the two logs (`SocketPublishConnector`). There are no queues and **no locks**.

### Components

| component | state | operations | called by | calls |
|---|---|---|---|---|
| service map, `soa.hpp` | `unordered_map` from key to data | `ExistingData`, `AddData` (insert: keeps an old entry), `UpdateData`, `GetData` (throws if absent) | every service | |
| trade booking | trades by id; `current_book_idx` | `OnMessage(trade)`, `BookTrade(order)`, `GetCurrentBook` | `trades_thread` **and** `marketdata_thread` | positions |
| positions | `Position` by bond | `AddTrade`, `OnMessage` | trade booking, on both threads | positions.txt, then risk |
| risk | `PV01` by bond | `AddPosition`, `OnMessage`, `GetBucketedRisk`, `OnMessageBucket` | positions, on both threads | risk.txt, twice |
| market data | order book by bond | `OnMessage` | `marketdata_thread` | execution algorithm |
| execution algorithm | orders by id; `side` | `AggressBook`, `OnMessage` | market data | execution |
| execution | orders by bond | `ExecuteOrder`, `OnMessage` | execution algorithm | executions.txt, trade booking, execution log |
| pricing | prices by bond | `OnMessage` | `pricing_thread` | GUI, streaming algorithm |
| GUI | prices; `counter`, `wait`, `wait_start` | `OnMessage`, `ClearFile` | pricing | gui.txt |
| streaming algorithm | streams by bond; `visible_quantity` | `CreateStream`, `UpdateStream`, `OnMessage` | pricing | streaming |
| streaming | streams by bond | `OnMessage` | streaming algorithm | streaming.txt, streaming log |
| inquiries | inquiries by id | `OnMessage`, `SendQuote`, its listener on itself | `inquiry_thread`, and itself | allinquiries.txt |
| connectors | socket, read buffer (local), file | `ReadSocket`, `Read`, `Publish`, `ClearFile` | threads and services | |
| providers, logs | their socket | send lines; print what arrives | the operator | |
| `main.cpp` | the order of constructors and of listeners; four threads | launch, join | the operator | everything |
| bond notation | | `dec2bond`, `bond2dec` | connectors, GUI | |

### What is hard here

* **Two threads, no lock.** `trades_thread` and `marketdata_thread` both run trade booking,
  positions, risk and two of the files. The code looks a key up and acts on the answer
  later, copies a `Position`, changes the copy and stores it back, and inserts into hash
  maps another thread may be reading.
* **Orders that nothing states.** That a position is on file before risk uses it, that an
  execution is on file before it is a trade and a trade before the market hears of it, and
  that an inquiry's stages are on file in order, all follow only from the order of the
  `AddListener` calls in `main.cpp`.
* **Reentrancy.** The inquiry service listens to itself: `OnMessage` calls `OnMessage`.
* **Partial failure.** A write to the socket of a dead log throws through the whole chain
  of calls and ends the thread, after files and maps were changed.
* **A clock nobody watches.** The GUI looks at the time only while it handles a price.
* **A stream read as lines.** `ReadSocket` drops whatever its buffer holds after the first
  newline.
* **Seven processes launched by hand.** Constructors block; a refused connection is not
  retried; whoever is lost on the way leaves others waiting, and a thread that has ended
  leaves a provider writing into a connection nobody reads.
* **Arithmetic in 32nds, 256ths and halves of them.**

`PROJECT.json` lists each of these as a hazard, at its line, with the properties that would
catch it going wrong. For each component, what makes it correct:

* booking and positions: each trade counts exactly once, in its own bond and book
  (`PositionLedger`); what is in risk came from a position on file; risk and risk.txt follow
  the positions;
* execution: every tight book is traded; log behind trades behind file; file and log agree;
* pricing: a stream is that of the current price; the GUI shows a run of the feed;
* booking within execution: what the market has heard of is a position on file;
* inquiries: received, quoted, done, once each, in order, on file;
* connectors: lines arrive once and in order; the thread ends when the provider does;
* logs: every byte is printed once and in order;
* start: nothing is read while a log is still to come; no file is truncated by a system that
  cannot run; once each log is connected, or its accept has failed, everything ends, whoever is
  lost on the way. A system that still waits in `accept` waits as long as no log comes.

## 2. The modules

| module | models | is refined from / composed of |
|---|---|---|
| `ServiceMap` | `soa.hpp`: a service's map | used by all services |
| `PositionLedger` | abstract: what booking and positions promise | |
| `BondUniverse` | the tables of `tradinguniverse.hpp` | constants for the small instances of the next two |
| `BondBooking` | trade booking, positions, risk, their two files, both threads | implements `PositionLedger` |
| `OutboundFeed` | abstract: a file, and a log that receives its lines | |
| `BondNotation` | `dec2bond` and `bond2dec` | operators, used by the next four |
| `BondExecution` | market data, execution algorithm, execution, booking's rotation, the log | implements `OutboundFeed` |
| `BondTrading` | the market data thread from order book to log, with booking inside its chain of calls and the trades thread beside it | `BondExecution` and `BondBooking` composed; implements both |
| `BondGUI` | the GUI, its throttle and page | |
| `BondPricing` | pricing, streaming algorithm, streaming, the log; composed with `BondGUI` | implements `OutboundFeed` |
| `InquiryDesk` | abstract: the life of an inquiry | |
| `BondInquiry` | the inquiry service and its nested calls | implements `InquiryDesk` |
| `LineChannel` | abstract: a channel for lines, lossy or not | |
| `SocketRead` | a writer of lines, TCP, and who reads them: the read connector or a trading log | implements `LineChannel` |
| `Startup` | the seven processes from launch to end, and the loss of any of them | |
| `BondBooking_proofs` | theorems about `BondBooking`, with the feeds racing and one at a time | |
| `BondExecution_proofs` | theorems about `BondExecution`, alone and within `BondTrading`, and about `BondTrading` as a whole | |
| `BondGUI_proofs`, `BondInquiry_proofs`, `SocketRead_proofs`, `Startup_proofs` | theorems about the modules of these names | |
| `BondPricing_proofs` | theorems about `BondPricing` and `BondNotation` | |
| `SetSums` | lemmas about sums over finite sets, for the two modules that add up trades | |
| `MC*` | small instances | |

### How the modules stand for the code

A service's map is a function from keys to data. A chain of calls is a program counter
(`pc`), each label one call or, in `BondBooking`, one access to shared state; locals of
the C++ functions are variables of the module for as long as the chain lives. `BondInquiry`
needs a stack of frames instead, as its calls nest. The order of listeners is an operator
(`After`, `FirstListener`, `Listeners`), so that the properties can be seen to rest on it.
Definitions marked `\* mutant` are wrong variants of the definition they stand before;
nothing uses them, and each property fails when one of them takes its place.

**`BondBooking`.** Between two labels a thread touches nothing shared, so the interleaving
of labels is the interleaving of the program. Where accesses of two threads overlap, C++
leaves the outcome open; the module lists what a build can produce:

* `Find`: a lookup during another thread's insert may miss a key that is there;
* `Copies`, `Torn`: a `Position` copied while it is assigned has each book old, new or absent;
* `LostInsert`: of two nodes linked into one bucket at once only one stays;
* `MixedUpdate`: of two assignments to one `Position` each book comes from either;
* `GarbledLine`: two lines written into one file stream, of which one or both are unreadable;
* `Crash`: the process dies.

`AccessesOverlap = FALSE` leaves these out, as if every container and file were atomic. That
still is a concurrent program, and still wrong (section 3). `SerialSpec` is the program when
a feed delivers only while the other thread is between messages, which is what the pauses of
the providers are meant to achieve. Ids are random strings of ten characters and are taken to
be distinct. The weighted average of a bucket is kept as its numerator and its quantity.
The quantity in the bonds' PV01 is one word, so its races only show the old value or the new.

**`BondExecution`, `BondPricing`.** The log at the other end of the socket may die at any
step, or never have been accepted, which is a log that dies before the first step. A write after
that may still succeed, into a kernel buffer, or throw; the exception goes up to `Read`, which
ends the thread. A row of the market data feed has `Depth` levels of
prices in notation, and an order book has two stacks of orders, as `ProcessData` fills them.
Prices are handled in 512ths: bids and offers of streams are half of a 256th apart, and a double
holds such numbers exactly. Files and logs show them with six decimals (`to_string`), which cuts
512ths off but tells them apart, so a line stands for its exact price. What a tight book is, `TightBookTraded` says in terms of the
row's notation, and the code in terms of doubles.

**`BondTrading`.** `BondExecution` is extended and `BondBooking` is an instance; they share
`current_book_idx`. `BookTrade` of the one and `BookExecution` of the other are one step,
`BookOrder`; from then on `marketdata_thread` is within booking, at `bookingPc`, and
`PublishOrder` waits until it has returned. `trades_thread` runs the same services for its own
row. Containers are atomic here (`AccessesOverlap = FALSE`); their races are in `BondBooking`.
`ImplementsExecution` and `ImplementsBooking` say that each module, which abstracts from the
other, is a true account of its part: that booking is a call that returns, and that
executions are orders that come one at a time. What holds
of either module then holds of its part of the composition.

**`BondGUI`.** `steady_clock` is the time since `wait_start`, capped at the throttle, beyond
which nothing depends on it. `wait_start` is not initialised, so its distance is arbitrary
at first.

**`BondInquiry`.** A frame is a call of `OnMessage`; the same inquiry is passed by reference,
so the inner call's change of state is seen by the outer one's later listeners. A row may have
any text as its state; `string2inquiry` takes what it does not know for RECEIVED.

**`SocketRead`.** Bytes are numbered within their line. A read takes any prefix of the wire up
to `MaxRead`. A buffer whose first line is the tail of a line is a misread: either it parses,
as some other object, or an exception nobody catches ends the process. `paced` tells whether
the provider's sleep outlasts the handling of its line. `role` tells who reads: the log
prints its whole buffer as a C string, which runs on behind a buffer that the last read
has filled (`full`, `Overrun`).

**`Startup`.** `patient` tells whether whoever launches waits until the last process listens;
`mayFail` whether anything may fail. A provider fails at start or on the way, a log while it is
connected, an `accept` with or without a log in front of it (`AcceptFails`: the constructor
catches that, and main goes on with a socket that is not connected), the trading system when a
port is taken (`BindFails`) or a line does not parse (`Abort`). A log that is lost, or was never
accepted, ends the thread that writes to it (`Throw`). A provider may send all it has before
anyone reads, if it fits into the buffers of its connection (`FinishBuffered`): trades and
inquiries do (3 kB), market data may not (876 kB), so nothing says that it will.

## 3. The runs

Deadlock is checked everywhere except in `Startup`, where the system may indeed stop for
good (`startup_order`) and at the end has nothing left to do.

| run | question | answer |
|---|---|---|
| `racing_feeds` | what survives two threads without a lock? | a risk quantity always comes from a position on file (`RiskFromPersistedPosition`); nothing is counted twice or in the wrong cell (`NoDoubleCount`) |
| `serial_feeds` | and when the feeds do not overlap? | booking implements the ledger, risk and risk.txt follow the positions; every trade comes to be counted, once, in the lines of its bond and of its sector (`TradeReachesRisk`); `SerialInv` is the inductive invariant of the proof |
| `lost_trade` *(violation)* | is the ledger implemented in general? | no: two threads in `AddTrade` for one bond both read the old position, and the second to store it erases the trade of the first, even with atomic containers |
| `order_books` | is every tight order book executed, and who knows when, with another thread in the middle of booking? | yes; log is a prefix of trades, trades of the file; what the log has is a position on file (`PositionedBeforePublished`); buys and sells stay balanced in each book; file and log implement `OutboundFeed`; the composition implements both of its parts |
| `prices` | do streams, GUI and log follow the feed? | yes; no map is read where it has no key; GUI and feed agree digit by digit through notation, arithmetic and pages |
| `gui_pages` | does the page turn, in time and with the right lines? | the counter is the length of the page, pages turn as long as prices come, never too soon from the second page on |
| `gui_throttle` *(violation)* | the first page too? | no: `wait_start` is the clock's epoch until the file is first cleared |
| `inquiries` | does the service that listens to itself terminate and tell the truth? | nested calls are one stage further each; the file implements `InquiryDesk` |
| `socket_bytes` | what arrives of what is sent? | with a paced provider everything, once, in order; otherwise lines are lost or misread, but never repeated or late; a log loses nothing (`LogLosesNothing`); either reader ends after its writer, and none ends its process but a connector whose provider is ahead of it (`ReaderEnds`) |
| `socket_all_data` *(violation)* | is what arrives at once all read? | no, though the connector then reports that it has "sucessfully read all the data" |
| `startup` | is anything read too early; does everyone end, whoever is lost? | no feed is read while a log is still to come: a log that is missing then is one whose `accept` has failed (`FeedsAfterLogs`); a second system aborts before it truncates the first one's files (`FilesKept`); once no log is to come the system ends, whatever providers and logs do (`EndsOnceLogsSettle`); no provider is left blocked (`NoProviderLeft`); launched with care and without failures, all end well |
| `startup_order` *(violation)* | does the documented order of launching suffice? | no, even if nothing fails (`Starts` asks only that): a log that is launched in its turn, but too early, is refused and gives up, and `accept` waits for ever |

### Bounds, and why they are enough

* `racing_feeds`: one row and two orders, on two bonds of one sector and two books. Both
  threads meet in every pair of labels, on the same bond and on different ones, with a key
  that is new and one that is known, and `trades_thread` can race with each of the two
  messages of the other. A third concurrent message per thread would repeat these pairs: a
  thread is back in its initial local state between messages. `lost_trade` needs one row
  and one order.
* `serial_feeds`: the seven bonds, three sectors and three books of `tradinguniverse.hpp`; four
  rows and three orders on four of the bonds, with a bond back at quantity zero, and a sector
  whose bonds cancel out. Quantities are distinct powers of two wherever two must not be
  confused.
* `order_books`: four order books out of three rows (tight by exactly 1/128, wide by one tick
  more, locked) of two levels (`Depth`), three trading books: both sides, and the rotation once
  round and on. The row of the trades feed comes before, after or at any point of the chains of
  at most `MaxRacing` = 2 order books: on its bond and on another one, on one that is new to
  the maps and one that is known. All four come where the row does not.
* `prices`: five rows, two bonds, two lines a page, throttle one: two pages and the dropped
  prices between them; the quotes have a plus in the mid or in the spread, and the largest
  number of 32nds and 256ths.
* `gui_pages`: three lines a page, throttle three. The feed is unbounded: the state space is
  finite as it is.
* `inquiries`: two received, and one in each other state that the connector parses.
* `socket_bytes`: five lines of three bytes, reads of up to seven: a read may take part of a
  line, exactly one, or two and part of a third.
* `startup`: the processes are those of the system. Up to `MaxFailures` = 2 things go wrong,
  besides what fails because something else has: any two of the providers, the logs, the
  accepts and the trading system. A feed's thread depends on its provider, on one log and on
  the trading system: two failures meet in every pair of these.

### Fairness

Weak fairness is assumed of a thread that is in the middle of a call (`WF(Chain)`): the
operating system schedules it, and its steps neither block nor wait for another thread. The
clock goes on (`WF(Tick)` in `BondGUI`). In `Startup` every process that can take a step
takes one, and the launcher goes on. Bytes on the wire arrive (`WF(Reader)`). **No**
fairness is assumed of feeds: a provider may stop sending at any time, so `PagesTurn` is
conditional on prices coming, and `TightBookTraded` and `TradeReachesRisk` begin with a
message that was read. `BondTrading` has one fairness condition per thread, `MarketdataCall` and
`BookingCall("trades_thread")`: that booking returns to a `Publish` that waits for it is
a consequence, which `ImplementsExecution` checks. In `Startup`, failures have none, and neither
has `Throw`: a lost log need not be noticed; nor has `FinishBuffered`.

### Where the code and its documents disagree

Four disagreements have a run each: `lost_trade` (the position service "gets trades and
transforms it into positions"), `gui_throttle`, `socket_all_data`, `startup_order`. Others
are plain to see in the code, and the modules follow the code:

* `src/README.md:87` says the algorithm starts by buying. `bondalgoexecutionservice.hpp:114`
  switches the side before it uses it, so it starts with an OFFER, which is booked as a sale.
* `src/README.md:88` says quantities of 100000 and 200000; `bondalgostreamingservice.hpp:142`
  uses ten times that.
* `src/README.md:89` describes an inquiry that is DONE at the end. The inquiry in the map stays
  RECEIVED: `bondinquiryservice.hpp:124` changes a copy, and only line 101 stores. The file has
  all the stages, and no one reads the map after the quote.
* `setup.sh:73` launches with `macoslaunch` on Linux too; nothing calls `linuxlaunch`.
* `bondriskservice.hpp:123` computes `newbucket` after the bond's risk was stored, by bond:
  it is always false. Both listener methods it chooses between do the same.
* Under racing feeds, the risk of a bond may stay that of an older position
  (`bondriskservice.hpp:77`): two threads may call the risk service in the opposite order of
  their updates of the position. It is why `RiskTracksPosition` is a property of
  `SerialSpec` only.

## 4. What is proved

The theorems hold for every value of the constants that satisfies the `ASSUME`s of the modules,
which TLC evaluates on every run:

* there is at least one trading book, and none is listed twice (`trading_books` is TRSY1 to
  TRSY3 in `bondtradebookingservice.hpp`);
* every bond has one sector and a PV01, and the products of a sector are its bonds, as the two
  tables of `tradinguniverse.hpp` agree;
* ids of trades and orders are distinct, and a row of the trades feed names a known bond and
  book, one of two sides and a quantity (`TradeAssumption` where booking is by itself,
  `TradeRowsAssumption` where its orders are those of execution);
* the price feed writes prices in canonical bond notation: whole number, 32nds below 32, and a
  digit below 8 or `+`;
* the throttle is a natural number, and a page has at least one line;
* the bounds, lengths of lines and sizes of reads are natural numbers, the latter two positive.

No theorem depends on how large a bound is, so each holds of feeds of any length.

| theorem | says | argument |
|---|---|---|
| **`BondBooking_proofs`** | | |
| `TypeCorrect` | `Spec => []TypeOK` | inductive as it stands; one step per action, races included |
| `WriteAhead` | `Spec => [](PersistedBeforeRisk /\ RiskFromPersistedPosition)` | `WriteAheadInv`: the two together, and `TypeOK`, are inductive. What a thread carries past its line in positions.txt is on file, lines are never taken away, and `riskMap` is only given what a thread carries |
| `CountedOnce` | `Spec => []NoDoubleCount`, races included | `CountInv`. The cells alone are not inductive: a thread's copy may hold a trade the map does not. So map and copies both add up trades that some thread has already added (`PositionsAddUp`), and no two threads are about one trade (`OwnTrade`). A torn copy takes each book from one of two such positions, and adding the thread's own trade adds one that neither counts |
| `SerialInvariant` | `SerialSpec => [](TypeOK /\ SerialInv)` | `SerialInv` is `OneChain` (at most one thread is within a message), `HandedOverOnce`, `NoStaleRead` (what a lookup found still holds when it is acted upon) and `RiskFollows` (only the bond in hand may be behind). Each race needs two busy threads, so `OneChain` excludes it (`NoRace`) |
| `SerialRisk` | `SerialSpec => []RiskTracksPosition` | from `RiskFollows` |
| `SerialRefinement` | `SerialSpec => ImplementsLedger` | storing the position is the step that counts the trade, and by `NoStaleRead` adds it to the current position; all others stutter |
| `SerialPositions` | `SerialSpec => []PositionsMatchTrades` | `MatchInv`: the ledger adds up the trades stored so far (`LedgerAddsUp`), and `tradeMap` has all that were handed over but the one in hand (`TradesStored`) |
| `SerialRiskFile` | `SerialSpec => []RiskFileCurrent` | `BucketFollows` ties the loop of `GetBucketedRisk` to the products it has passed, and `LinesFollow` says which line may be behind, and in front of which step |
| `OneFeedIsSerial` | with one feed empty, every behaviour of `Spec` is one of `SerialSpec` | the thread without messages never leaves `Idle`; so the serial theorems hold of the two-threaded program whenever only one feed delivers |
| **`BondExecution_proofs`** | | |
| `TypeCorrect` | `Spec => []TypeOK` | inductive as it stands |
| `LogBehindTradesBehindFile` | `Spec => []WriteAhead` | `Follows`, by the place in the chain: the file has one line more than there are trades exactly while the order waits to be booked, and a log that is up has all trades but the one about to be published |
| `ExecutionRefinement` | `Spec => ImplementsOutbound` | from the same invariant: persisting is `Write`, publishing `Deliver`, dying `Lose` |
| `MapsAgreeWithFile` | `Spec => []MapsFollowFile` | `MapInv`: the maps have the orders on file and the one under way; ids grow (`IdsGrow`), so the first order of a bond is the one with the least id |
| `BooksBalanced` | `Spec => []BooksStayBalanced` | `BalanceInv`: which books are one trade ahead, and on which side, is a function of the place in the rotation and the next side (`BooksInTurn`). Without it the bound is not inductive; with an even number of books it is false |
| `ExecutionWithin` | the composition `BondTrading` is, fairness aside, `BondExecution` seen from the market data side | the steps of booking leave execution's variables alone, `current_book_idx` included |
| `SystemFollowsFile` | so the invariants above hold of `SystemSpec` | from `ExecutionWithin` |
| `NeverBlocked` | `BookOrder` never waits: an order about to be booked is one booking expects, and `marketdata_thread` is in no call of booking | `Expected`: the orders still to come, and the one in hand until it is booked, are in `orders`, and booking is under way only while execution stands before `Publish` |
| `BookingWithin` | and, fairness aside, `BondBooking` seen from booking | `BookOrder` is a `BookExecution`; nothing crashes, as accesses are atomic |
| `SystemRefinement` | `SystemSpec => ImplementsOutbound` | the steps of the refinement above, and `ExecutionWithin` |
| `SystemCountsOnce` | `SystemSpec => []Booking!NoDoubleCount` | `CountInv`, as in `BondBooking_proofs`, for trades made of the orders of execution: an order is handed over once because execution makes one order an order book (`HandedOverOnce`) |
| `PositionsBehindPublished` | `SystemSpec => []PositionedBeforePublished` | `PositionedInv`, see below |
| **`BondGUI_proofs`** | | |
| `PageCounted` | `Spec => []PageMatchesCounter` | inductive with `TypeOK` |
| `ClearingThrottled` | `Spec => ClearsThrottled` | after the first page `wait_start` is the time of the last clearing: `~firstPage => pageAge = elapsed` |
| **`BondPricing_proofs`** | | |
| `PrintAndRead` | printing a price and reading it back cuts it off at the tick | division with remainder by 512, 16 and 2 |
| `ReadAndPrint` | reading a notation and printing it gives it back | the same |
| `TypeCorrect` | `Spec => []TypeOK` | inductive as it stands, the GUI's part included: its page never outgrows `max_count` |
| `ScreenShowsFeed` | `Spec => []GuiShowsFeed` | `TypeOK` and `ReadAndPrint`, for every price there is |
| `StreamNeverMissing` | `Spec => []NeverAborted` | `ChainInv`; in it `BondsAgree`: the two maps have the same bonds except while a new one is on its way from one to the other |
| `StreamsAgreeWithPrices` | `Spec => []StreamsFollowPrices` | the rest of `ChainInv`: what is in hand is in the maps, all streams but the one in hand are centred on their prices (a spread is of whole ticks, so half of it is exact), and a bond's last line shows its stream, as lines are numbered by row (`LinesOlder`) |
| `PagesContiguous` | `Spec => []GuiPageContiguous` | `PageUpToDate`: as long as the page has room, its last line is the last price the GUI handled; prices are dropped on a full page only |
| `StreamingRefinement` | `Spec => ImplementsOutbound` | as for execution (`LogFollows`) |
| **`BondInquiry_proofs`** | | |
| `TypeCorrect`, `Advances` | `TypeOK`, `ReentryAdvances` always hold | `IInv`, both together: each call switched on its inquiry's state, all but the innermost wait in their last listener (`Calls`), what `SendQuote` looks up is what it was called about (`Stored`), and nothing is known of an inquiry before it is read (`Fresh`) |
| `DeskLives` | `Spec => Desk!Lives`: `ImplementsDesk` without its fairness | `FileFollows` ties the innermost call to its inquiry's last line on file: the stage before until `PersistData`, its own from then on. Persisting is `Arrive`, `SendQuote` or `Finish` by the stage it is in; all else stutters |
| **`SocketRead_proofs`** | | |
| `TypeCorrect` | `Spec => []TypeOK` | inductive as it stands |
| `LogIsComplete` | `Spec => []LogLosesNothing` | `BytesInPlace`: the bytes of buffer and wire follow each other, up to the last one written; `PrintedInOrder`: a log has printed all before them |
| `ChannelOrdered` | `Spec => Channel!Ordered`: `ImplementsChannel` without its fairness | `HandledInOrder`: the last line handled lies before what is in the buffer, and of a paced writer at most one line is under way |
| **`Startup_proofs`** | | |
| `LogsBeforeFeeds` | `Spec => []FeedsAfterLogs` | `IInv`: main is past a log's connector only if that log was connected, or its `accept` has failed (`LogsMet`); a log that was connected remains one that was, and a failed `accept` is final, and a feed has a thread only once main is past both (`ThreadsLate`) |
| `FilesUntouched` | `Spec => []FilesKept` | `AbortedEarly`: what aborts on the way does so at the port of a log, in front of the files |

`SerialInv` is needed because `ImplementsLedger` and `RiskTracksPosition` say nothing about
the time between a lookup and its use, and that is where they can go wrong: `lost_trade`
breaks exactly `NoStaleRead`. The other inductive invariants have the same use: a property
speaks of the time between messages, or of two ends of a chain of calls, and its invariant of
every step between.

**Why an order on the log is a position on file.** `PositionedBeforePublished` relates the log to
a file that two threads write, so no step of either thread shows it by itself. The argument has
three parts:

1. A step of booking, whichever thread takes it, is one of five moves (`Moves`): it takes a
   trade, adds it to a copy, stores the copy, writes it to positions.txt, or does nothing to
   positions. `StepMoves` proves it action by action; what follows speaks of moves only.
2. `CountInv`: `positionMap` and the threads' copies are sums of distinct trades, and the two
   threads are never about the same one. So when `AddTrade` of `marketdata_thread` adds its trade
   to a copy, what was in the copy does not count that trade yet, whatever `trades_thread` has
   stored in the meantime, and the new copy counts it once (`AddTradeAddsUp`).
3. `PositionedInv` carries this along the chain: the trade in hand is that of the order in hand
   (`InHand`), from `AddTrade` to the line of positions.txt the thread's own copy counts it
   (`InHandCounted`), after the line the order is positioned (`PublishesPositioned`), and so are
   the orders that the log has and those on file that the thread is done with (`LogPositioned`,
   `FilePositioned`). The copy matters, not the map: `trades_thread` may well overwrite the
   position in the map before the line is written, and `lost_trade` shows that the trade may
   then be in no position of the map. It is in a line of the file.

**How sums are handled.** `SignedSum` is a fold, which the community modules define by a
recursive function over subsets. The library's induction theorems take an operator as a
parameter, which the provers cannot instantiate, so what the fold returns is derived from
least counterexamples (`LeastSubset`, from the well-foundedness of the naturals): there is such
a function, there is only one, and the sum does not depend on which element is taken first
(`SumWithout`, `SumWith`). Cardinalities, as in `BooksStayBalanced`, come from
`FiniteSetTheorems`.

**Only model-checked.**

* Liveness, which is beyond the prover: `TradeReachesRisk`, `TightBookTraded`, `PagesTurn`,
  `ReaderEnds`, `EndsOnceLogsSettle`, `NoProviderLeft`, `AllEndWell`, and the fairness that
  `ImplementsDesk`, `ImplementsChannel`, `ImplementsExecution` and `ImplementsBooking` ask for.
  That `BookOrder` is never held back is proved (`NeverBlocked`) in place of its `ENABLED`.

## 5. Not modelled

* The classes of `products.hpp`: they keep what their constructors are given, and nothing but a
  bond's id is used. Interest rate swaps are never made.
* `historicaldataservice.hpp`: an empty base class.
* Time stamps, the layout of files, console output.
* Prices of trades: parsed with `stod`, and used by nothing.
* `AggregateDepth`, `GetBestBidOffer`, `RejectInquiry` and the `Subscribe`/`Publish` methods with
  empty bodies, which nothing calls.
* A file that cannot be opened: it is only reported, and nothing reads the files back.
* An id that comes twice: inquiries are unique by their contract, and ids of trades and orders
  are ten random characters.
* The Python scripts and the makefiles: they run before the system does and keep no state.

## 6. The plan

Done, in this order: booking, positions and risk with their races and their proofs;
execution with its proofs; notation; GUI; pricing; inquiries; sockets; startup; the
composition of execution and booking; the logs' own reading; the loss of logs and of the
trading system; the universe as it is.

Left for the model, if a property turns out to depend on them: the provider's reading of its
file, and the races of the containers inside the composition.

Proved: every property the runs check, but for those that are liveness, and for the fairness
of those that are refinements (section 4).

Left to prove: nothing that the runs check. A theorem about a module cannot be cited for its
instances, so `CountInv` is proved both of `BondBooking`, with all its races, and of its instance
in `BondTrading`, where booking's steps and moves are those without races.
