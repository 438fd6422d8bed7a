SPECIFICATION FairSpec
CONSTANTS
    NoValue = NoValue
    Packets <- MCPackets
    Timestamps <- MCTimestamps
    ChannelOptions <- MCChannelOptions
    U32Modulus = 4
    MaxSends = 3
INVARIANT TypeOK
INVARIANT AnsweredInOrder
INVARIANT EofMeansDrained
INVARIANT FramesAreFaithful
PROPERTY ImplementsStage
PROPERTY EveryPacketAnswered
PROPERTY FlushLeadsToEof
