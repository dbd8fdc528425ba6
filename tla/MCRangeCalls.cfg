SPECIFICATION FairSpec
CONSTANTS
    App = {a1, a2}
    Async = {w1, w2}
    Evictor = {e1}
    FirstApp = a1
    FirstAsync = w1
    Workload <- MCWorkload
    NoThread = NoThread
INVARIANTS
    SwapFileExists
    ContentKept
    PodsSettled
PROPERTY
    FaultsEnd
\* LRULock can be held for good.
CHECK_DEADLOCK FALSE
