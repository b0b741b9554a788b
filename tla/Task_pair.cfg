CONSTANTS
    a = a
    b = b
    NoTask = NoTask
    Tasks = {a, b}
    Kind <- SocketAndRemote
    BundleSizes = {0}
    MaxSend = 2
    MaxPost = 1
SPECIFICATION Spec
INVARIANTS ReceivedInOrder KeptUntilEstablished
CHECK_DEADLOCK FALSE
