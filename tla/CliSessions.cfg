SPECIFICATION FairSpec
 
PROPERTIES StoppingEnds
CONSTANTS
    t1 = t1
    t2 = t2
    Task <- MCTask
    Parent = {parent0}
    NoParent = none
    StopMax = 3
CHECK_DEADLOCK FALSE
