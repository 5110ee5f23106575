SPECIFICATION Spec
CONSTANTS
    Workers = {w1, w2}
    Conns = {c1, c2}
    NPC_ID_START = 1
    EVENT_KEY = 100
    None = None
    Requests = {"CS_MOVE"}
    Endings = {"closed"}
    Asserts = TRUE
    MaxPackets = 1
    Updated = {0}
INVARIANT NoNullSocket
\* The process may end, and so may the clients.
CHECK_DEADLOCK FALSE
