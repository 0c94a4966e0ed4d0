SPECIFICATION MCPanelSpec
CONSTANTS
    Streams = {"stream"}
    Handlers = {"enable", "assign"}
    Values = {"old", "new"}
    Buffer = 1
    SessionCheckStep = 2
    MaxEvents = 2
    PublicHosts = {"203.0.113.7"}
    ShutdownGrace = 2
    TimeoutStop = 3
    StartLimit = 2
    MaxReboots = 1
    Indexes = {1}
    Texts = {"first", "second"}
    Readers = {"panel", "other"}
    Writers = {"delete"}
INVARIANTS
    NoGap
    StopsInTime
PROPERTIES
    StreamsEnd
    ReconnectHeals
    PublicRuleComesBack
    InboxCatchesUp
