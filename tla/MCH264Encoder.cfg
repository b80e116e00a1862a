SPECIFICATION Spec
CONSTANTS
    DEMO_INPUT_BUFFER_NUM = 2
    Sizes <- FittingSizes
INVARIANTS
    NodeHeldOnce
    NoWriteWhileQueued
    NodesKeptWithoutRace
    CrashForCause
    EncoderReleased
PROPERTY FramesKeepBeingFed
CHECK_DEADLOCK FALSE
