SPECIFICATION Spec
CONSTANTS
    Byte = {0, 1}
    MaxLen = 13
    PAYLOAD = 4
    VRTP_MAX_NBPKTS = 3
    PARAM_MAX = 4
    MaxFrames = 2
    FrameSequences <- MCFrameSequences
INVARIANTS
    ReceiverRebuildsFrame
    FragmentsWellFormed
    LearnedAsSent
    AnnouncedHolds
CHECK_DEADLOCK FALSE
