SPECIFICATION Spec
CONSTANTS
    Clients = {c1, c2}
    Sockets = {c2}
    NFd = 4
    MaxUnread = 1
INVARIANTS TypeOK SetsMatch ChannelWatched BlocksOnlyOnNew
PROPERTIES EventsRead WritesResumed
CHECK_DEADLOCK FALSE
