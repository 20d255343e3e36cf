CONSTANTS
    Stop = Stop
    NoEvent = NoEvent
    MaxPublished = 3
    StopEndsDispatch = FALSE
    BulkCapacity = 2
    EnabledChoices = {{}, {"jsonrpc", "http"}, {"gossip", "controller", "jsonrpc"}, {"state", "mempool", "http"}}
    Faulty = {"jsonrpc", "state"}
    GivenConfigs <- DefaultOrTaken
    FreeAddresses <- Free

SPECIFICATION Spec

INVARIANT TypeOK
INVARIANT StopIsLast
INVARIANT ReportsBoundAddress
PROPERTY ImplementsPubSub

CHECK_DEADLOCK FALSE
