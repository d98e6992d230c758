CONSTANTS
    Diagrams = {d1, d2, d3}
    MaxHistory = 3
SPECIFICATION Spec
INVARIANTS
    TypeOK
    FlagsMatchStacks
    HistoryBounded
PROPERTY
    ImplementsTimeline
CHECK_DEADLOCK TRUE
