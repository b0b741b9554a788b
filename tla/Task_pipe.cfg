CONSTANTS
    a = a
    b = b
    NoTask = NoTask
    Tasks = {a}
    Kind <- OnePipe
    BundleSizes = {0, 2}
    MaxSend = 3
    MaxPost = 2
SPECIFICATION FairSpec
INVARIANTS TypeOK ReceivedInOrder CleanExitHeard 
PROPERTIES DeathNoticed DroppedClientStops
CHECK_DEADLOCK FALSE
