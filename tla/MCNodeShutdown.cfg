CONSTANTS
    Stop = Stop
    NoEvent = NoEvent
    MaxPublished = 3
    StopEndsDispatch = TRUE
    BulkCapacity = 2
    EnabledChoices = {{}, {"jsonrpc", "http"}, {"mempool", "controller", "jsonrpc", "http"}, {"gossip", "controller", "jsonrpc"}, {"state", "miner", "validator"}}
    Faulty = {"jsonrpc", "state", "gossip", "mempool"}
    GivenConfigs <- FixedOrOffline
    FreeAddresses <- Free

SPECIFICATION Spec

INVARIANT CleanExitOnlyOnStop
INVARIANT OrderlyShutdown
PROPERTY ShutdownCompletes

CHECK_DEADLOCK FALSE
