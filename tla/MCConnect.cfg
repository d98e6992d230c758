CONSTANTS
    b1 = b1
    b2 = b2
    None = None
    Blocks = {b1, b2}
    Containers = {}
    Shapes = {}
    Lines = {l1}
    ConnectorIds = {c1, c2}
    GroupIds = {}
    Placements = {}
    Connections <- OneWay
    Contains = {}
    SavedDiagrams <- SavedBlocks
    MaxHistory = 1
SPECIFICATION FairConnectSpec
INVARIANTS
    WholeUnlessOvertaken
    OneConnectorPerPair
PROPERTIES
    ChecksFinish
CHECK_DEADLOCK FALSE
