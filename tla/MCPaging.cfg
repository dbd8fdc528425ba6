\* Two pods, two application threads, one evictor, one prefetch worker, one
\* memory node and a swap directory.
CONSTANTS
    Pod = {p1, p2}
    App = {a1, a2}
    Evictor = {e1}
    Worker = {w1}
    Peer = {n1}
    Value = {v1, v2}
    Zero = Zero
    NoData = NoData
    NoThread = NoThread
    NoPod = NoPod
    Disk = Disk
    SwapDir = TRUE
SYMMETRY Symmetry
SPECIFICATION Spec
INVARIANTS
    ReadableIsCurrent
    NoWriteBehindCopy
    BackingMatchesState
    LRUConsistent
    ResidentIsEvictable
PROPERTY Transparent
