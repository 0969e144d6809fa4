SPECIFICATION HistorySpec
CONSTANTS
    geomLength = 4
    targetLength = 3
    GHRLNGTH = 6
    PHRLNGTH = 2
    MaxBranches = 10
INVARIANT
    LastOutcomesFolded
CHECK_DEADLOCK FALSE
