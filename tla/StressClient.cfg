SPECIFICATION FairSpec
CONSTANTS
    Workers = {w1, w2}
    test = test
    MAX_CLIENTS = 2
    MAX_TEST = 2
    MinActive = 1
    Margin = 2
    MaxSends = 1
    MaxFailures = 1
INVARIANTS
    DisconnectedOnce
PROPERTIES
    GoneIsCountedOff
\* The clients may all be gone, and the bound on connections reached.
CHECK_DEADLOCK FALSE
