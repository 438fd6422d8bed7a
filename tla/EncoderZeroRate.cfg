SPECIFICATION Spec
CONSTANTS
    NoValue = NoValue
    Frames <- MCFrames
    Timestamps <- MCTimestamps
    ChannelOptions <- MCChannelOptions
    FormatOptions <- MCFormatOptions
    RateOptions <- MCRateOptions
    MaxFrames = 3
INVARIANT ZeroRateIsDefaulted
