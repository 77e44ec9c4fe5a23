SPECIFICATION Spec
CONSTANTS
    T2Y = T2Y
    T3Y = T3Y
    Prices <- MCPrices
    throttle = 3
    max_count = 3
PROPERTY ThrottleHonoured
