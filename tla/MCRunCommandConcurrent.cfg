CONSTANTS
    Invocations = {i1, i2}
    ArgChoices <- MCArgChoices
    Concurrent = TRUE

SPECIFICATION Spec

PROPERTY KeypairStable

CHECK_DEADLOCK FALSE
