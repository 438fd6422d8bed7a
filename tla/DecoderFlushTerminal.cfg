SPECIFICATION Spec
CONSTANTS
    NoValue = NoValue
    Packets <- MCPackets
    Timestamps <- MCTimestamps
    ChannelOptions <- MCChannelOptions
    U32Modulus = 4
    MaxSends = 3
PROPERTY FlushIsTerminal
