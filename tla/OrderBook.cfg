SPECIFICATION Spec
CONSTANTS
    Prices = {1, 2, 3}
    Quantities = {1, 2}
    Underflows = {2}
    ChecksumDepth = 1
    Tiers = {1, 2}
    Requests <- MCRequests
    MaxGaps = 2
    Books <- MCBooks
    Moves <- MCMoves
    OutboxCap = 2
    MaxInbox = 2
    MaxChanges = 2
    MaxFaults = 1
    MaxTears = 1
    MaxCalls = 2
CHECK_DEADLOCK FALSE
INVARIANTS DeliveredValid NoFalseGap DeliveredExact
PROPERTY ResyncEnds
