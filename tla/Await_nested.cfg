CONSTANTS
    a = a
    b = b
    NoEvent = NoEvent
    Clients = {a, b}
    Names = {"x"}
    Whenevers <- WheneverX
    Awaits <- TwoAwaits
    MaxPost = 2
    MaxAwaits = 2
    MaxRequests = 0
    MaxInterrupts = 1
SPECIFICATION Spec
INVARIANTS TypeOK NeverBlocksInRead FirstAwaitFirst CreatedInOrder AwaitsMatchLoops
PROPERTIES OnlyHolds AwaitGetsEvent
CHECK_DEADLOCK FALSE
