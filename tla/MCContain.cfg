CONSTANTS
    b1 = b1
    k1 = k1
    k2 = k2
    None = None
    Blocks = {b1, k1}
    Containers = {k1, k2}
    Shapes = {}
    Lines = {}
    ConnectorIds = {}
    GroupIds = {}
    Placements <- NestedPlacements
    Connections = {}
    Contains <- NestedContains
    SavedDiagrams <- SavedFlat
    MaxHistory = 1
SPECIFICATION ContainSpec
INVARIANTS
    TypeOK
    WholeUnlessOvertaken
    ManagedFollowHierarchy
    NeverInsideItself
    RemovalKeepsHierarchy
CHECK_DEADLOCK FALSE
