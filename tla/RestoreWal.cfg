CHECK_DEADLOCK FALSE
CONSTANTS
    Parts = {"backup"}
    f = f
    d = d
    dx = dx
    w = w
    x = x
    y = y
    z = z
    a = a
    b = b
    m = m
    repo1 = repo1
    None = None
    Native = Native
    CheckoutPaths <- Apart
    CheckoutPlans <- CleanPlan
    CheckoutBlobs <- CheckoutContents
    CheckoutMarkers <- RenderedMarkers
    CheckoutStart <- FirstContents
    GitPaths <- OneFile
    GitBlobs <- OneBlob
    TextOf <- Texts
    Options <- AllOrNothing
    MaxCommits = 3
    MaxTombs = 1
    MaxRuns = 2
    Repos <- OneRepo
    Objects <- TwoObjects
    Configs <- Stores
    Targets <- DataDirs
    MaxCrashes = 1
    MaxRot = 1
    Commands = {"first", "second"}
    MaxAdoptRows = 2
    Paths <- MCPaths
    Under <- MCUnder
    Blobs <- MCBlobs
    Stamps = {"one"}
    CleanMerges <- MCCleanMerges
    Edits <- MCEdits
    Seeds <- MCSeeds
    MaxRows = 4
    MaxLands = 2
    MaxRedactions = 1
SPECIFICATION ToolsSpec
INVARIANT SnapshotOpens
