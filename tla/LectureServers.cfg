SPECIFICATION Spec
CONSTANTS
    w1 = w1
    w2 = w2
    AiServers <- MCAiServers
    MtIocp = MtIocp
    MAX_USER = 3
    Workers = {w1, w2}
    MaxClients = 2
    Lives = 3
SYMMETRY AnyWorker
INVARIANTS
    TypeOK
    ListsMatchSight
    MovesRepair
    OneTurnPerNpc
    OnlyLoginsDeadlock
    EveryoneShown
\* The process may end, the clients may be done, and logins deadlock.
CHECK_DEADLOCK FALSE
