SPECIFICATION Spec
CONSTANTS
    p1 = p1
    p2 = p2
    Proc <- Two
    MaxOpens = 2
    MaxTime = 3
    MaxWall = 3
    WallTime = 2
PROPERTIES
    BackwardClockRefused
