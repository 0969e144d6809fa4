SPECIFICATION MCSpec
CONSTANTS
    Records = {r1, r2}
    BufferRecords = 3
    Instructions = 5
    Itera = 3
    Garbage = garbage
    MaxExecuted = 7
    MaxSessions = 3
    PCs = {a, b, c}
    Row = {0, 1}
    argv1 = 7
    geomLength = 4
    targetLength = 3
    GHRLNGTH = 6
    PHRLNGTH = 2
    MaxBranches = 10
INVARIANTS
    TraceFaithful
    DumpStutters
    OneEntryPerBranch
    LoneBranchExact
    FoldExact
SYMMETRY AnyRecords
CHECK_DEADLOCK FALSE
