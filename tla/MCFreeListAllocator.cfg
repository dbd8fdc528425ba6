SPECIFICATION Spec
CONSTANTS
    PageWords = 18
    Request = {1, 4, 12, 14}
    Data = 99
INVARIANTS
    BlocksTile
    FreeListExact
    UserDataIntact
PROPERTIES
    ImplementsHeap

\* A page dropped with its allocator locked allows no further step.
CHECK_DEADLOCK FALSE
