SPECIFICATION Spec
CONSTANTS
    w1 = w1
    w2 = w2
    ann = ann
    bob = bob
    Worlds <- MCWorlds
    SearchWidth = 3
    SearchHeight = 2
    Callers = {w1, w2}
    Names = {ann, bob}
    TableRows <- MCTableRows
    Ints <- MCInts
    MaxCalls = 3
    Avatars = {"c1"}
    Monsters = {"n1"}
    WORLD_WIDTH = 2
    WORLD_HEIGHT = 3
    Walls <- MCWalls
    Starts <- MCStarts
    Dirs = {0, 1, 3}
    MaxPlacings = 1
    Near <- MCNear
    AvatarRows <- MCAvatarRows
    MaxAttacks = 3
SYMMETRY AnyCaller
INVARIANTS
    TypeOK
    NobodyMissed
    MarksAndWalls
    PathIsShortest
    CallsReachTheirRow
    ExpBelowNext
PROPERTIES
    SearchShrinks
\* The search ends, and so do the calls of the bound.
CHECK_DEADLOCK FALSE
