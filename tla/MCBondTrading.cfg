SPECIFICATION SystemSpec
CONSTANTS
    MarketRows <- MCMarketRows
    Depth = 2
    MaxOrderBooks = 4
    MaxRacing = 2
    trading_books <- MCBooks
    Sectors <- MCSectors
    bond2bucketmap <- MCSectorOf
    GetProducts <- MCProducts
    PV01map <- MCPV01
    TradeRows <- MCTradeRows
INVARIANTS
    TypeOK
    WriteAhead
    MapsFollowFile
    BooksStayBalanced
    PositionedBeforePublished
PROPERTIES
    TightBookTraded
    ImplementsOutbound
    ImplementsExecution
    ImplementsBooking
