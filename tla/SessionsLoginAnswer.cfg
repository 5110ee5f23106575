SPECIFICATION FairSpec
CONSTANTS
    Workers = {w1, w2}
    Conns = {c1}
    NPC_ID_START = 2
    EVENT_KEY = 100
    None = None
    Requests = {"CS_LOGIN"}
    Endings = {}
    Asserts = TRUE
    MaxPackets = 1
    Updated = {0}
PROPERTY EveryLoginAnswered
\* The process may end, and so may the clients.
CHECK_DEADLOCK FALSE
