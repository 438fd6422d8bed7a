SPECIFICATION FairSpec
CONSTANTS
    NoValue = NoValue
    Frames <- MCFrames
    Timestamps <- MCTimestamps
    ChannelOptions <- MCChannelOptions
    FormatOptions <- MCFormatOptions
    RateOptions <- MCRateOptions
    MaxFrames = 3
INVARIANT TypeOK
INVARIANT PacketsInOrder
INVARIANT PacketsAreFaithful
PROPERTY ImplementsStage
PROPERTY EveryFrameDelivered
