SPECIFICATION Spec
CONSTANTS
    Byte <- MCByte
    Filler <- MCFiller
    MaxQueue = 5
    PtLen = 3
    CtLen = 4
    MaxSent = 6
    MaxLost = 2
INVARIANTS
    AcceptedInOrder
    RelayedInOrder
    BacklogShort
    LossCostsTwo
    ReaderInvariant
