SPECIFICATION Spec
CONSTANTS
    Uav = Uav
    Gcs = Gcs
    n1 = n1
    n2 = n2
    Noise = Noise
    None = None
    Nonce <- MCNonce
    Part <- MCPart
    MaxFrames = 1
    MaxFaults = 2
    MaxData = 1
    MaxPixhawk = 1
SYMMETRY NonceSymmetry
INVARIANTS
    TypeOK
    RelaysWithSentKey
    KeyAgreedOrZero
