CONSTANTS
  Instances <- Resources
  Safe <- Alike
  LongestPath = 24
  Projects <- NamesakeProjects
SPECIFICATION Spec
INVARIANT PeersNeverCollide
CHECK_DEADLOCK FALSE
