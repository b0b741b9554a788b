CONSTANTS
    a = a
    b = b
    c = c
    None = None
    Clients = {a, b, c}
    Names = {"x", "y"}
    Pairs <- Triangle
    Named <- TwoFirst
    Local <- LocalPairs
    Orderly = TRUE
    Statements = {"link", "unlink"}
    MaxStmts = 3
    MaxLosses = 1
SPECIFICATION FairSpec
INVARIANTS TypeOK RightSink EndsAgree LinkedAsAsked NothingLost
PROPERTIES RendezvousEnds
CHECK_DEADLOCK FALSE
