SPECIFICATION FairSpec
CONSTANTS
    ConnMax = 2
    WsMax = 1
    Handles = {h1, h2}
    NoHandle = none
    MaxBacklog = 1
CHECK_DEADLOCK FALSE
INVARIANTS NeverBlocks SocketsSound OneOutcomeEach
PROPERTIES SlotsComeBack
