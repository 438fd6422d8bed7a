SPECIFICATION ChainSpec
CONSTANTS
    NoValue = NoValue
    Origins <- MCOrigins
PROPERTY EncodeDecodeEncodeIdempotent
