SPECIFICATION FairSpec
CONSTANTS
    RTSP_H264_QUEUE_MAX = 2
    MaxPackets = 4
INVARIANTS
    OneOwner
    NoWildDereference
    OrderlyExit
PROPERTIES
    DeliverySpec
    CameraSpec
    Shutdown
    EveryPacketSettled
CHECK_DEADLOCK FALSE
