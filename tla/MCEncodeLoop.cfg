SPECIFICATION LoopSpec
CONSTANT Samples <- MCSamples
INVARIANT TypeOK
INVARIANT SearchInvariant
INVARIANT ByteRepresentsSample
INVARIANT ImplementsClosedForm
PROPERTY Terminates
CHECK_DEADLOCK FALSE
