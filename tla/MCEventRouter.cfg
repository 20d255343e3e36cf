CONSTANTS
    Topics = {t1, t2}
    Subscribers = {s1, s2}
    Holders = {h1}
    Stop = Stop
    NoEvent = NoEvent
    MaxPublished = 3
    StopEndsDispatch = FALSE
    Capacities <- MCCapacities

SPECIFICATION Spec

INVARIANT TypeOK
INVARIANT InOrderNoLoss

PROPERTY EventuallyQuiescent
PROPERTY ImplementsPubSub

CHECK_DEADLOCK FALSE
