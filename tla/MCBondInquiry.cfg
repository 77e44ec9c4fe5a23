SPECIFICATION Spec
CONSTANTS
    BuyT2Y = BuyT2Y
    SellT30Y = SellT30Y
    Inquiries <- MCInquiries
    QuotedPrice = 100
    Unquoted = 0
INVARIANTS TypeOK ReentryAdvances
PROPERTY ImplementsDesk
