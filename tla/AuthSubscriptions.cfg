SPECIFICATION Spec
CONSTANTS
    Url = "Auth"
    Keys = {k1, k2}
    ReqIds = {}
    CallIds = {c1}
    ReactorId = reactor
    ReconnectAttempts = {1}
    SubscribeAckAttempts = 2
    MaxAuthHandshakeFailures = 2
    CountMax = 2
    CallerEvents = {"Close"}
    MaxRefresh = 1
SYMMETRY Symmetry
INVARIANTS
    ResubscribingHasWork
    NoLostSubscription
    RefreshOwed
    NoWedge
