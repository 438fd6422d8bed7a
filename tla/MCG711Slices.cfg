SPECIFICATION Spec
CONSTANTS
    ByteInputs <- MCByteInputs
    SampleInputs <- MCSampleInputs
    BufferSizes <- MCBufferSizes
    MaxCalls = 2
INVARIANT TypeOK
INVARIANT PrefixConverted
INVARIANT ReturnsConversion
CHECK_DEADLOCK FALSE
