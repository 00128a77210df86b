SPECIFICATION FairSpec
CONSTANTS
    Uav = Uav
    Gcs = Gcs
    n1 = n1
    n2 = n2
    Noise = Noise
    None = None
    Nonce <- MCOneNonce
    Part <- MCShortPart
    MaxFrames = 1
    MaxFaults = 1
    MaxData = 1
    MaxPixhawk = 2
INVARIANTS
    TrafficOnlyWithKeys
    OneWriterAtATime
    SplitInOrder
    StaleNeverRead
PROPERTIES
    SwitchCompletes
    EveryPieceSettles
