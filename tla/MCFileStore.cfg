SPECIFICATION FairSpec
CONSTANTS
    a = a
    b = b
    c = c
    dir = dir
    dir2 = dir2
    v1 = v1
    blob = blob
    other = other
    archive = archive
    manifest = manifest
    NoName = NoName
    Stream = Stream
    Thread = {1, 2, 3}
    Name = {a, b, c, dir, dir2}
    Digest = {blob, other, archive, manifest}
    PathOf <- OwnPaths
    Content <- Blocks
    Successors <- Lists
    OldFiles <- NoFiles
    Programs <- AllPrograms
    MaxFaults = 1
INVARIANTS
    TypeOK
    StoredComplete
    PushedFetchable
    GraphOfPushed
    DuplicatesRestored
    NoTempAfterClose
PROPERTIES
    CallsReturn
    ImplementsBlobStore
