SPECIFICATION Spec
CONSTANTS
    Run = {r1}
    Deleter = {d1}
    ContainerID = {box}
    MaxFaults = 0
    LongRuns = FALSE
PROPERTIES
    DeleteRefusesOnlyRunning
