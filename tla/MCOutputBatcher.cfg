CONSTANTS
    MaxBuffer = 4
    Sizes = {1, 3}
    MaxPushes = 8
SPECIFICATION Spec
PROPERTY StreamRefined
CHECK_DEADLOCK FALSE
