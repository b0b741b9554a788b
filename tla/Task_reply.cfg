CONSTANTS
    a = a
    b = b
    NoTask = NoTask
    Tasks = {a}
    Kind <- OnePipe
    BundleSizes = {0}
    MaxSend = 1
    MaxPost = 1
SPECIFICATION FairSpec
PROPERTIES RequestReturns
CHECK_DEADLOCK FALSE
