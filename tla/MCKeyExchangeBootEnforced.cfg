SPECIFICATION Spec
CONSTANTS
    Uav = Uav
    Gcs = Gcs
    n1 = n1
    n2 = n2
    Noise = Noise
    None = None
    Nonce <- MCNonce
    Part <- MCShortPart
    MaxFrames = 2
    MaxFaults = 1
    MaxData = 1
    MaxPixhawk = 1
INVARIANT
    KeyExchangeEnforced
