CONSTANTS
  Instances <- Resources
  Safe <- Distinct
  LongestPath = 24
  Projects <- AllProjects
SPECIFICATION Spec
INVARIANTS
  TypeOK
  NothingLost
  OrderFree
  EveryReferenceResolves
  AddressesUnique
  GrantsLand
  Acyclic
  SlotsFeedOneTask
CHECK_DEADLOCK FALSE
