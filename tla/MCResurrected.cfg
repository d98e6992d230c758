CONSTANTS
    b1 = b1
    k1 = k1
    k2 = k2
    None = None
    Blocks = {b1, k1, k2}
    Containers = {k1, k2}
    Shapes = {}
    Lines = {}
    ConnectorIds = {}
    GroupIds = {}
    Placements <- NetworkPlacements
    Connections = {}
    Contains <- NetworkContains
    SavedDiagrams <- SavedNetwork
    MaxHistory = 1
SPECIFICATION ContainSpec
INVARIANTS
    ConnectorsAlwaysAttached
CHECK_DEADLOCK FALSE
