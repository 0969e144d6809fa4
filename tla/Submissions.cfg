SPECIFICATION Spec
CONSTANT m <- MCm
CONSTANT NUM_TABLES = 4
CONSTANT LOG_TABLE_SIZE = 0
CONSTANT LOG_MAX_TABLES = 2
CONSTANT TAG_SIZE = 2
CONSTANT CWIDTH = 2
CONSTANT UWIDTH = 1
CONSTANT LOGB = 2
CONSTANT HYSTERESIS = 1
CONSTANT LOGALT = 1
CONSTANT NNN = 1
CONSTANT TICKMAX = 1
CONSTANT PATHWIDTH = 3
CONSTANT GHISTBITS = 6
CONSTANT LOGVICTIM = 1
CONSTANT VHASHES = 2
CONSTANT VINSERTS = 1
CONSTANT bestConfig <- MCBestConfig
CONSTANT NUM_RECONFIGS = 1
CONSTANT SNAPSHOT_PERIOD = 6
CONSTANT CONFIG_THRESH_MISPRED = 1
CONSTANT HYBRID_MISSES = 2
CONSTANT LOGL = 2
CONSTANT WIDTHNBITERLOOP = 3
CONSTANT LOOPTAG = 3
CONSTANT CONFLOOP = 2
CONSTANT LOOPPRODUCT = 7
CONSTANT CONFWIDTH = 2
CONSTANT LOGSIZEUP = 1
CONSTANT THRESHOLD = 4
CONSTANT THRESHOLDMAX = 7
CONSTANT LOGLOCAL = 1
CONSTANT LOGSECLOCAL = 1
CONSTANT logHSTACKSIZE = 1
CONSTANT HISTBITS = 6
CONSTANT Programs <- MCPrograms
CONSTANT Draws <- MCDraws
CONSTANT logg <- MClogg
CONSTANT TB <- MCTB
CONSTANT PERCWIDTH = 3
CONSTANT LOGBIAS = 1
CONSTANT gehl <- MCgehl
CONSTANT specs <- MCspecs
CONSTANT MAX_ACYCLIC = 3
CONSTANT MAX_BLURRY = 3
CONSTANT MAX_BLURRY2 = 2
CONSTANT imli_mask1 = {5, 6, 7}
CONSTANT imli_mask4 = {}
CONSTANT ADDRESSBITS = 5
CONSTANT WEIGHT_BITS = 6
INVARIANT StorageConserved
INVARIANT UnusedIsFresh
INVARIANT TrainsItsReads
INVARIANT LoopConfident
CHECK_DEADLOCK FALSE
INVARIANT FeaturesExact
