SPECIFICATION FairSpec
CONSTANTS
    Workers = {w1, w2}
    Npcs = {n1}
    EVENT_KEY = eventKey
    Player = player
    None = None
    MaxBatch = 2
    MaxPending = 1
INVARIANTS
    OneTick
    OneChainPerNpc
    AwakeNpcHasChain
    RewardedOnce
PROPERTIES
    LifeSafety
    WorldKeepsUpdating
    NpcKeepsMoving
    LifeSpec
