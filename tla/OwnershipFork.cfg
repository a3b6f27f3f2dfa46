SPECIFICATION Spec
CONSTANTS
    p1 = p1
    p2 = p2
    Proc <- Two
    MaxOpens = 2
    MaxTime = 2
    MaxWall = 2
    WallTime = 1
INVARIANTS
    OwnershipTypeOK
    OneWriter
    DeadlineCountsDowntime
PROPERTIES
    ImplementsLease
