CONSTANTS
    Stop = Stop
    NoEvent = NoEvent
    MaxPublished = 2
    StopEndsDispatch = TRUE
    BulkCapacity = 2
    EnabledChoices = {{"jsonrpc", "http"}}
    Faulty = {"jsonrpc"}
    GivenConfigs <- DefaultConfig
    FreeAddresses <- Free

SPECIFICATION Spec

INVARIANT JoinsProceedPastError

CHECK_DEADLOCK FALSE
