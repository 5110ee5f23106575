SPECIFICATION BothSpec
CONSTANTS
    N = 4
    Start <- MCStart
    MAX_BUFFER = 5
    Other = 1
    LN = 4
    LStart <- MCLStart
    L_BUFFER = 8
INVARIANTS
    Reassembled
    BufferFits
    NothingLeftBehind
    LectureReassembled
\* The clients have no more to send.
CHECK_DEADLOCK FALSE
