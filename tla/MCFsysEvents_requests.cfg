SPECIFICATION FairSpec
CONSTANTS
    c1 = c1
    c2 = c2
    b1 = b1
    b2 = b2
    f1 = f1
    f2 = f2
    Clients = {c1, c2}
    Buffers = {b1, b2}
    Fids = {f1, f2}
    NoOne = NoOne
    MaxFilters = 2
    Scenes <- MCScenes
CHECK_DEADLOCK FALSE
INVARIANTS FilterInv EventsExclusive
PROPERTIES MutexReleased DeferredReadsClosed
