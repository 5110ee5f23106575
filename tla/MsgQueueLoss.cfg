SPECIFICATION FairSpec
CONSTANTS
    Players = {p1}
    MaxMsgs = 2
PROPERTY EveryMsgHandled
