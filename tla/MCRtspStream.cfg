SPECIFICATION FairSpec
CONSTANTS
    Client = {c1, c2}
    VRTP_MAX_NBPKTS = 2
    MaxPackets = 5
    MaxRequests = 1
INVARIANTS
    IndexInRing
    PacketsInOrder
    ConnectionsKept
PROPERTIES
    OnlyLaggardsLose
    FrameGetsItsSlots
    CallReturns
CHECK_DEADLOCK FALSE
