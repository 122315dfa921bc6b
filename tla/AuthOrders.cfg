SPECIFICATION Spec
CONSTANTS
    Url = "Auth"
    Keys = {k1}
    ReqIds = {r1}
    CallIds = {c1}
    ReactorId = reactor
    ReconnectAttempts = {1}
    SubscribeAckAttempts = 2
    MaxAuthHandshakeFailures = 2
    CountMax = 2
    CallerEvents = {"StartConnect", "Close", "ForceReconnect"}
    MaxRefresh = 1
INVARIANTS
    RequestsHaveSession
    DrainBeforeEmit
    EventsTellState
