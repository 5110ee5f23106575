SPECIFICATION FairSpec
CONSTANTS
    Players = {p1, p2}
    MaxMsgs = 3
INVARIANTS
    HandledInOrder
    EveryMsgAccounted
PROPERTIES
    HandledIfNotLost
    Channel
