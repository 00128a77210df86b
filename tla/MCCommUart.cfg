SPECIFICATION FairSpec
CONSTANTS
    Cap <- UartQueueOfTwo
    Chunk = 1
    Raw = 1
    MaxLen = 1
    Message = {m}
INVARIANTS
    TakesTurns
    CountsStayInBounds
    BlocksHaveBytes
PROPERTIES
    KeepsMoving
