CONSTANTS
    Invocations = {i1, i2, i3}

SPECIFICATION Spec

INVARIANT TypeOK
INVARIANT OnDiskIsInState
PROPERTY OkMeansComplete

CHECK_DEADLOCK FALSE
