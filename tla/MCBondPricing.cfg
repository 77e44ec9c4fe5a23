SPECIFICATION Spec
CONSTANTS
    T2Y = T2Y
    T3Y = T3Y
    Quotes <- MCQuotes
    MaxPrices = 5
    throttle = 1
    max_count = 2
INVARIANTS TypeOK NeverAborted StreamsFollowPrices GuiPageContiguous GuiShowsFeed
PROPERTY ImplementsOutbound
