SPECIFICATION FairSpec
CONSTANTS
    REQBUF = 7
    LINE_MAX = 1
    HDR_MAX = 7
    HeaderLengths = {0, 1}
    BodyLengths = {1}
    MaxMessages = 2
    SNDBUF = 4
    Size = 1
    MaxPackets = 1
    MaxReports = 1
INVARIANTS
    HandledAsSent
    InFrameUnlessTorn
    KilledForCause
PROPERTIES
    EveryPacketTaken
    EveryMessageServed
CHECK_DEADLOCK FALSE
