CONSTANTS
    v1 = v1
    v2 = v2
    Viewers <- MCViewers
    Depth = 2
    Remembers = 3
    MaxSteps = 5
SPECIFICATION StreamSpec
INVARIANTS NoLeakedQueue CompletedIsServed
PROPERTIES ImplementsFeed LateViewerSettles EveryStreamCloses
CHECK_DEADLOCK FALSE
