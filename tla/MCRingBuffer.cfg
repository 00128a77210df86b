SPECIFICATION FairSpec
CONSTANTS
    Byte <- MCByte
    Zero = 0
    Size = 3
    MaxBytes = 8
INVARIANTS
    InOrderUntilLapped
    DisorderWithinALap
    BehindPublished
    RingInvariant
PROPERTIES
    ImplementsStream
    EveryByteHandled
