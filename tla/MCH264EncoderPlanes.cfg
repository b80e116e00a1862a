SPECIFICATION Spec
CONSTANTS
    DEMO_INPUT_BUFFER_NUM = 2
    Sizes <- DocumentedSizes
INVARIANT CopyStaysInPlanes
CHECK_DEADLOCK FALSE
