CONSTANTS
    Files <- MCFiles
    ArgChoices <- MCArgChoices

SPECIFICATION Spec

INVARIANT FileValueReachesConfig
INVARIANT ResolvedByPrecedence
INVARIANT UnusableFileLeavesArgs

CHECK_DEADLOCK FALSE
