SPECIFICATION Spec
CONSTANT hist <- MCHist
CONSTANT LOGG = 3
CONSTANT TAGBITS = 6
CONSTANT HASHPARAM = 1
CONSTANT PATHBITS = 2
CONSTANT HISTBUFFERLENGTH = 8
CONSTANT DIRBITS = 3
CONSTANT LOGGEHL = 4
CONSTANT LOGB = 1
CONSTANT CTRBITS = 2
CONSTANT POSTPBITS = 2
CONSTANT RAMPUP = 2
CONSTANT CAPHIST = 2
CONSTANT ALLOCFAILMAX = 1
CONSTANT MAXALLOC = 1
CONSTANT PCs = {40, 104}
CONSTANT Entry = 40
CONSTANT Branch <- MCBranch
CONSTANT Jump <- MCJump
CONSTANT P1_SPSIZE = 2
CONSTANT P2_SPSIZE = 2
CONSTANT P3_SPSIZE = 2
CONSTANT P4_SPSIZE = 2
CONSTANT P2_PARAM = 2
CONSTANT P3_PARAM = 1
CONSTANT BFTSIZE = 2
CONSTANT FRATIOBITS = 1
CONSTANT LOGCOLT = 1
CONSTANT COLTBITS = 2
CONSTANT mgehl <- MCGehl
CONSTANT mrhsp <- MCRhsp
CONSTANT UPDATETHRESHOLD = 2
CONSTANT IMLIMAX = 2
CONSTANT FUTURE = 1
CONSTANT HISTBITS = 10
CONSTANT HISTTABLESIZE = 8
CONSTANT SHIFTFUTURE = 2
CONSTANT SUMS <- MCSums
CONSTANT BEYOND = {0, 5}
CONSTANT MAXBRANCHES = 9
INVARIANT HistoriesFolded
INVARIANT TrainsWhatItRead
PROPERTY StealsSoundly
CHECK_DEADLOCK FALSE
