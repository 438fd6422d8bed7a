SPECIFICATION ChainSpec
CONSTANTS
    NoValue = NoValue
    Origins <- MCOrigins
INVARIANT DriftBounded
INVARIANT OrderPreserved
PROPERTY SameLawIsLossless
PROPERTY SettlesAfterRoundTrip
