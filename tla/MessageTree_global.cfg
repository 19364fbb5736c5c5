CONSTANTS
    None = None
    Root = root
    a = a
    b = b
    c = c
    Node = {root, a, b}
    Commands = {"stop_all", "clear_all"}
    GlobalMax = 1
SPECIFICATION FairSpec
INVARIANTS ProcessingMeansWorking
PROPERTIES PendingIsDealtWith
CHECK_DEADLOCK FALSE
