SPECIFICATION FairSpec
CONSTANTS
    Url = "Auth"
    Keys = {}
    ReqIds = {}
    CallIds = {c1, c2, c3}
    ReactorId = reactor
    ReconnectAttempts = {1}
    SubscribeAckAttempts = 2
    MaxAuthHandshakeFailures = 2
    CountMax = 2
    CallerEvents = {"StartConnect", "Close", "ForceReconnect"}
    MaxRefresh = 1
PROPERTIES
    CloseAnswered
CHECK_DEADLOCK FALSE
