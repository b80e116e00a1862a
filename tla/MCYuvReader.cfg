SPECIFICATION FairSpec
CONSTANTS
    YUV_BUF_NUM_MAX = 2
    QbufFails = TRUE
INVARIANTS
    FrameStable
    LostForCause
    NothingLeft
PROPERTIES
    CameraSpec
    FramesKeepComing
CHECK_DEADLOCK FALSE
