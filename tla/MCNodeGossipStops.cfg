CONSTANTS
    Stop = Stop
    NoEvent = NoEvent
    MaxPublished = 2
    StopEndsDispatch = TRUE
    BulkCapacity = 2
    EnabledChoices = {{"gossip"}}
    Faulty = {}
    GivenConfigs <- DefaultConfig
    FreeAddresses <- Free

SPECIFICATION Spec

PROPERTY GossipStops

CHECK_DEADLOCK FALSE
