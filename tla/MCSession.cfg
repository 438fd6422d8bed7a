SPECIFICATION Spec
CONSTANTS
    NoValue = NoValue
    Programs <- MCPrograms
    MaxPayload = 16
    SizeScale = 2000
    FrameScale = 160
    BurstScale = 25
    DefaultIters = 1
    MaxCalls = 8
    U32Modulus = 65536
INVARIANT NeverPanics
INVARIANT GivesUpOnlyAtFactory
INVARIANT GaplessTimeline
INVARIANT NothingLeftBehind
PROPERTY Completes
CHECK_DEADLOCK FALSE
