SPECIFICATION Spec
CONSTANTS
    Byte = {0, 1}
    Filler = 1
    MaxQueue = 5
    PtLen = 2
    MaxFrame = 4
    CtrLimit = 4
    MaxBytes = 11
INVARIANTS
    NeverFull
    ResidueShort
    StreamIsCut
    FrameNumbered
    PacketizerInvariant
