SPECIFICATION Spec
CONSTANTS
    Cap <- QueuesOfOne
    Chunk = 1
    Raw = 1
    MaxLen = 1
    Message = {m1, m2}
INVARIANTS
    MessagesAreWhole
