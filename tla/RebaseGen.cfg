CHECK_DEADLOCK FALSE
CONSTANTS
    f = f
    d = d
    dx = dx
    w = w
    x = x
    y = y
    z = z
    None = None
    Paths <- MCPaths
    Under <- MCUnder
    Blobs <- MCBlobs
    Stamps = {"one"}
    CleanMerges <- MCCleanMerges
    Edits <- MCEdits
    Seeds <- MCSeeds
    MaxRows = 4
    MaxLands = 2
    MaxRedactions = 1
SPECIFICATION Spec
INVARIANT GenerationsGrow
