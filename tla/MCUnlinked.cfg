CONSTANTS
  Blocks = {"a", "b", "c"}
  Services = {"lambda"}
  Service <- MCPair
  MaxIndex = 3
  MaxHistory = 1
  Documents <- MCDocuments
  MaxMoves = 5
  Rejections = TRUE
  Connectors = {"k1", "k2"}
  Kinds = {"reads", "writes"}
  Configs = {0, 1}
  MaxSent = 2
  Links = {"c1", "c2"}
  Target <- MCTarget
  Paths = {"/", "/u"}
  Root = "/"
  EntryIds = {1, 2}
  Methods = {0, 1}
  Plain = 0
  MaxQueued = 1
  MaxEdits = 5
  MaxSnapshots = 1
SPECIFICATION AllSpec
PROPERTY RemovedIsGone
CHECK_DEADLOCK FALSE
