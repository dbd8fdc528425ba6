SPECIFICATION Spec
CONSTANTS
    PodCount = 5
    NoPod = NoPod
INVARIANTS
    TypeOK
    BlocksTile
    FreeListsExact
PROPERTIES
    ImplementsStore
CHECK_DEADLOCK FALSE
