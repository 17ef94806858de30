SPECIFICATION FairSpec
CONSTANTS
    base = base
    app = app
    tool = tool
    imgApp = imgApp
    imgTool = imgTool
    imgBase = imgBase
    Client = {p1, p2}
    Image = {imgApp, imgBase}
    Digest = {base, app, tool}
    Layers <- LayersPart
    Config = {imgApp, imgBase}
    ConfigOf <- ConfigShared
    Unique = {u1, u2}
    ContainerID = {c1, c2}
    Torn = Torn
    FaultKinds = {"crash", "fail", "lost_reply", "lost_commit"}
    MaxFaults = 1
INVARIANTS
    Inv
    CommittedComplete
    RootfsIntact
    MissingOnlyAfterTrouble
PROPERTIES
    Terminates
    RunSucceeds
    LeftoversCollected
