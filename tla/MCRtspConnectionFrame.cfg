SPECIFICATION Spec
CONSTANTS
    REQBUF = 7
    LINE_MAX = 3
    HDR_MAX = 7
    HeaderLengths = {0}
    BodyLengths = {1}
    MaxMessages = 2
    SNDBUF = 4
    Size = 1
    MaxPackets = 2
    MaxReports = 1
INVARIANT SlowReaderInFrame
CHECK_DEADLOCK FALSE
