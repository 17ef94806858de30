SPECIFICATION Spec
CONSTANTS
    fresh = fresh
    low1 = low1
    low2 = low2
    NoDir = NoDir
    Dir = {fresh, low1, low2}
    Mounts <- AllMounts
    Layers <- AllLayers
    Disks <- AllDisks
    MaxFaults = 1
INVARIANTS
    LayerVisible
    LowerUntouched
    AddedExtracts
