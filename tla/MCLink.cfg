SPECIFICATION Spec
CONSTANTS
    Sizes = {1, 2}
    MaxBytes = 1
    MaxConns = 2
    MaxFrames <- MaxFramesDef
INVARIANTS FramesDelivered
PROPERTIES ComponentsEndTogether LinkRecovers
CHECK_DEADLOCK FALSE
