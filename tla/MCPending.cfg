CONSTANTS
    b1 = b1
    k1 = k1
    k2 = k2
    None = None
    Blocks = {b1}
    Containers = {k1, k2}
    Shapes = {}
    Lines = {}
    ConnectorIds = {}
    GroupIds = {}
    Placements <- NestedPlacements
    Connections = {}
    Contains = {}
    SavedDiagrams = {}
    MaxHistory = 1
SPECIFICATION FairContainSpec
PROPERTIES
    PendingSettles
CHECK_DEADLOCK FALSE
