CONSTANTS
    None = None
    Root = root
    a = a
    b = b
    c = c
    Node = {root, a, b, c}
    Commands = {"stop", "clear"}
    GlobalMax = 1
SPECIFICATION Spec
INVARIANTS  TurnsAreSerial StoppedStaysStopped StoreMirrorsTree
PROPERTIES TakesTurns
SYMMETRY Replies
CHECK_DEADLOCK FALSE
