CONSTANTS
    Index <- Two
    EventMax = 5
    MaxRetries = 1
SPECIFICATION FairSpec
 
PROPERTIES NativeStreamEnds
CHECK_DEADLOCK FALSE
