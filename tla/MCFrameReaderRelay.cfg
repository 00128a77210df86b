SPECIFICATION FairSpec
CONSTANTS
    Byte <- MCByte
    Filler <- MCFiller
    MaxQueue = 5
    PtLen = 3
    CtLen = 4
    MaxSent = 2
    MaxLost = 0
PROPERTY EveryByteRelayed
