SPECIFICATION RelayFairSpec
CONSTANTS
    MaxData = 1
    MaxInject = 1
PROPERTIES Channelled FlowEnds Delivered
CHECK_DEADLOCK FALSE
