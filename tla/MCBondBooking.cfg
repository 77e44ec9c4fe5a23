SPECIFICATION Spec
CONSTANTS
    Bonds <- RacyBonds
    trading_books <- RacyBooks
    Sectors <- RacySectors
    bond2bucketmap <- RacySectorOf
    GetProducts <- RacyProducts
    PV01map <- RacyPV01
    TradeRows <- RacyRows
    ExecutionOrders <- RacyOrders
    AccessesOverlap = TRUE
INVARIANTS
    TypeOK
    RiskFromPersistedPosition
    NoDoubleCount
