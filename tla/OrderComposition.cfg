SPECIFICATION Spec
CONSTANTS
    None = None
    Prices <- MCPrices
    Leverages = {0, 1, 2}
    Times <- MCTimes
    MaxSets <- MCMaxSets
    ClosePrices <- MCClosePrices
    Pads = {13, 14}
CHECK_DEADLOCK FALSE
INVARIANTS
    WireMeansOrder
    SomeTransportTakesIt
