SPECIFICATION Spec
CONSTANTS
    RTSP_H264_QUEUE_MAX = 3
    MaxPackets = 7
INVARIANT StopsCleanly
CHECK_DEADLOCK FALSE
