CONSTANTS
    b1 = b1
    g1 = g1
    partner = k1
    None = None
    Blocks = {b1, b2}
    Containers = {k1, k2}
    Shapes = {}
    Lines = {}
    ConnectorIds = {}
    GroupIds = {g1}
    Placements = {}
    Connections = {}
    Contains = {}
    SavedDiagrams <- SavedPair
    MaxHistory = 1
SPECIFICATION ClipSpec
INVARIANTS
    WholeUnlessOvertaken
PROPERTIES
    CopiesStandAlone
CHECK_DEADLOCK FALSE
