CONSTANTS
    Files <- MCFiles
    ArgChoices <- MCArgChoices

SPECIFICATION Spec



INVARIANT FlagDisablesNetworking

CHECK_DEADLOCK FALSE
