SPECIFICATION Spec
CONSTANTS
    Workers = {w1, w2}
    Conns = {c1, c2}
    NPC_ID_START = 2
    EVENT_KEY = 1
    None = None
    Requests = {"CS_LOGIN", "CS_DUMMY_LOGIN", "CS_MOVE", "CS_LOGOUT"}
    Endings = {"closed", "reset"}
    Asserts = FALSE
    MaxPackets = 1
    Updated = {0}
SYMMETRY SessionsSymmetry
INVARIANTS
    ConnectedIsInItsSlot
\* The process may end, and so may the clients.
CHECK_DEADLOCK FALSE
