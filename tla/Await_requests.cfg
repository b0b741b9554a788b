CONSTANTS
    a = a
    b = b
    NoEvent = NoEvent
    Clients = {a, b}
    Names = {"x"}
    Whenevers <- WheneverX
    Awaits <- OneAwait
    MaxPost = 1
    MaxAwaits = 3
    MaxRequests = 2
    MaxInterrupts = 0
SPECIFICATION FairSpec
INVARIANTS OwnReply
PROPERTIES FilledAwaitReturns
CHECK_DEADLOCK FALSE
