SPECIFICATION SerialSpec
CONSTANTS
    Bonds <- SerialBonds
    trading_books <- SerialBooks
    Sectors <- SerialSectors
    bond2bucketmap <- SerialSectorOf
    GetProducts <- SerialProducts
    PV01map <- SerialPV01
    TradeRows <- SerialRows
    ExecutionOrders <- SerialOrders
    AccessesOverlap = TRUE
INVARIANTS
    SerialInv
    PositionsMatchTrades
    RiskTracksPosition
    RiskFileCurrent
PROPERTIES
    ImplementsLedger
    TradeReachesRisk
