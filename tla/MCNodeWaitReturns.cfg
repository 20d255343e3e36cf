CONSTANTS
    Stop = Stop
    NoEvent = NoEvent
    MaxPublished = 2
    StopEndsDispatch = FALSE
    BulkCapacity = 2
    EnabledChoices = {{}}
    Faulty = {}
    GivenConfigs <- DefaultConfig
    FreeAddresses <- Free

SPECIFICATION Spec

PROPERTY WaitReturns

CHECK_DEADLOCK FALSE
