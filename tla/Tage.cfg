SPECIFICATION LearnSpec
CONSTANTS
    NUMTAGTABLES = 2
    BimodalIndex = {0}
    TagIndex = {0}
    Tags = {0, 1}
    CLOCK_PERIOD = 2
    MaxWander = 4
INVARIANTS
    UsefulBitsAge
PROPERTIES
    UsefulProtected
    Learns
VIEW LearnView
