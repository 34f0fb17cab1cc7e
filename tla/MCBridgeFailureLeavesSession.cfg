SPECIFICATION BridgeFairSpec
CONSTANTS
    MaxQueuedMessages = 1
    MaxQueuedBytes = 1
    Sizes = {1}
    HelloBytes = 1
    MaxSends = 1
    MaxReplies = 0
PROPERTIES
    FailureEndsSession
CHECK_DEADLOCK FALSE
