SPECIFICATION Spec
CONSTANTS
    uav = uav
    gcs = gcs
    n1 = n1
    n2 = n2
    Noise = Noise
    None = None
    Principal <- MCPrincipal
    Nonce <- MCNonce
    MaxStarts = 5
SYMMETRY MCSymmetry
INVARIANTS
    ReadyForMessage3
