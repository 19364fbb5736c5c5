CONSTANTS
    None = None
    Root = root
    a = a
    b = b
    c = c
    Node = {root, a}
    Commands = {"stop"}
    GlobalMax = 1
SPECIFICATION FairSpec
PROPERTY PendingIsDealtWith
CHECK_DEADLOCK FALSE
