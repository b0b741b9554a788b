CONSTANTS
    a = a
    b = b
    c = c
    None = None
    Clients = {a, b}
    Names = {"x"}
    Pairs <- OnePair
    Named <- TwoFirst
    Local <- LocalPairs
    Orderly = FALSE
    Statements = {"link"}
    MaxStmts = 2
    MaxLosses = 0
SPECIFICATION Spec
INVARIANTS LinkedAsAsked
CHECK_DEADLOCK FALSE
