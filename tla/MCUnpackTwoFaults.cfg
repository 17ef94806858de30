SPECIFICATION Spec
CONSTANTS
    base = base
    app = app
    tool = tool
    imgApp = imgApp
    imgTool = imgTool
    imgBase = imgBase
    Client = {p1, p2}
    Image = {imgApp, imgTool}
    Digest = {base, app, tool}
    Layers <- LayersShared
    Config = {imgApp, imgTool}
    ConfigOf <- ConfigOwn
    Unique = {u1, u2}
    ContainerID = {c1, c2}
    Torn = Torn
    FaultKinds = {"crash", "fail", "lost_reply"}
    MaxFaults = 2
INVARIANTS
    KeyKept
    LayersLabelled
PROPERTIES
    ImplementsChainStore
