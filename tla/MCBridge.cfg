SPECIFICATION BridgeFairSpec
CONSTANTS
    MaxQueuedMessages = 2
    MaxQueuedBytes = 3
    Sizes = {1, 2}
    HelloBytes = 1
    MaxSends = 3
    MaxReplies = 2
INVARIANTS
    BridgeInv
PROPERTIES
    PromisesSettle
    EndsTogether
CHECK_DEADLOCK FALSE
