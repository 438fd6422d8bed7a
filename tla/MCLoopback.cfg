SPECIFICATION FairSpec
CONSTANTS
    NoValue = NoValue
    Frames <- MCFrames
    Timestamps <- MCTimestamps
    ChannelOptions <- MCChannelOptions
    U32Modulus = 65536
    MaxFrames = 3
INVARIANT TypeOK
INVARIANT NothingLostInTransit
INVARIANT RoundTripIsFaithful
INVARIANT FinishedMeansComplete
PROPERTY StreamFinishes
