CONSTANTS
  Ids = {"d1", "d2"}
  Sessions = {"s1", "s2"}
  Documents = 2
  Versions = {0, 1}
  MaxRequests = 3
  Interleaved = TRUE
  None = "none"
SPECIFICATION Spec
INVARIANTS TypeOK ToldMeansStored SavedIsListedUnlessRaced OnlyOwners
PROPERTIES CanvasIsCurrent ImplementsLibrary
CHECK_DEADLOCK FALSE
