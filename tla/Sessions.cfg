SPECIFICATION FairSpec
CONSTANTS
    Workers = {w1, w2}
    Conns = {c1, c2, c3}
    NPC_ID_START = 1
    EVENT_KEY = 100
    None = None
    Requests = {"CS_MOVE", "CS_LOGOUT"}
    Endings = {"closed"}
    Asserts = FALSE
    MaxPackets = 1
    Updated = {}
INVARIANTS
    TypeOK
    ConnectedSlotListens
PROPERTIES
    OneOwner
    ClosedSlotIsFreed
\* The process may end, and so may the clients.
CHECK_DEADLOCK FALSE
