SPECIFICATION Spec
CONSTANTS
    PerSampleInputs <- MCPerSampleInputs
    ZeroSuppressInputs <- MCZeroSuppressInputs
    ReplayCap = 8
INVARIANT AssertionsHold
INVARIANT WireIsFaithful
INVARIANT OrderSlipsOneLevel
CHECK_DEADLOCK FALSE
