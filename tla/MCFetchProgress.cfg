SPECIFICATION FairSpec
CONSTANTS
    manifest = manifest
    config = config
    layer = layer
    Root = manifest
    Blob = {manifest, config, layer}
    Children <- Lists
    Stored <- Before
    MaxFaults = 2
INVARIANTS
    ImageComplete
    LastFrameShown
PROPERTIES
    FetchEnds
