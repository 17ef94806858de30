SPECIFICATION FairSpec
CONSTANTS
    Run = {r1, r2}
    Deleter = {d1}
    ContainerID = {box}
    MaxFaults = 1
    LongRuns = FALSE
INVARIANTS
    ProcessKeepsContainer
    TaskIsOwn
PROPERTIES
    SnapshotGoesAfterTask
    RmLeavesNothing
    IDFreedInTheEnd
