CONSTANTS
    v1 = v1
    v2 = v2
    Viewers <- OneViewer
    Depth = 2
    Remembers = 1
    MaxSteps = 3
SPECIFICATION StreamSpec
INVARIANT WatchedToTheEnd
CHECK_DEADLOCK FALSE
