SPECIFICATION FairSpec
CONSTANTS
    Flows <- MCFlows
    Sizes <- MCSizes
    Marked <- MCMarked
    Traffic <- MCTraffic
    MaxReplays = 2
    None = None
INVARIANTS ViewAgrees InFlightOnce
PROPERTIES QueueDrains
CHECK_DEADLOCK FALSE
