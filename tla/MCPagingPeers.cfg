\* Two memory nodes, two evictors and no swap directory: an eviction no peer
\* accepts ends the process, so there is no deadlock check.
CONSTANTS
    Pod = {p1, p2}
    App = {a1}
    Evictor = {e1, e2}
    Worker = {w1}
    Peer = {n1, n2}
    Value = {v1, v2}
    Zero = Zero
    NoData = NoData
    NoThread = NoThread
    NoPod = NoPod
    Disk = Disk
    SwapDir = FALSE
SYMMETRY Symmetry
SPECIFICATION Spec
INVARIANT PagingInv
PROPERTY Transparent
CHECK_DEADLOCK FALSE
