SPECIFICATION Spec
CONSTANTS
    Clients = {c1}
    Sockets = {c1}
    NFd = 2
    MaxUnread = 1
INVARIANTS CountsAgree
CHECK_DEADLOCK FALSE
