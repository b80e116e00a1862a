SPECIFICATION Spec
CONSTANTS
    Field = {"CSeq", "Session", "Transport", "Range", "Server", "Content-Type", "Content-Length"}
    BodyLengths = {0, 1, 2}
    Below = {1, 10}
    MaxSize = 36
    MaxLines = 3
INVARIANTS
    CutIsIncomplete
    ReadsBack
    ServedAsWritten
CHECK_DEADLOCK FALSE
