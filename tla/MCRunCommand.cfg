CONSTANTS
    Invocations = {i1, i2, i3}
    ArgChoices <- MCArgChoices
    Concurrent = FALSE

SPECIFICATION Spec

INVARIANT TypeOK
INVARIANT NodeIdentityOnDisk
PROPERTY KeypairStable

CHECK_DEADLOCK FALSE
