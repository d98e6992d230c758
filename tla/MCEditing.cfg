CONSTANTS
    None = None
    Blocks = {b1}
    Containers = {}
    Shapes = {s1}
    Lines = {l1}
    ConnectorIds = {}
    GroupIds = {g1, g2}
    Placements = {}
    Connections = {}
    Contains = {}
    SavedDiagrams = {}
    MaxHistory = 2
SPECIFICATION EditingSpec
INVARIANTS
    GroupsAlwaysConsistent
    HistoryHonest
CHECK_DEADLOCK FALSE
SYMMETRY Symmetry
