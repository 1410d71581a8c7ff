SPECIFICATION FairSpec
CONSTANTS
    Syncers = {s1}
    Capacity = 2
    DropModulus = 2
    RequestModulus = 4
INVARIANTS SyncKept QueueSound ClosedIsComplete
PROPERTIES SyncAnswered DestroyReturns RingDrains
