SPECIFICATION FairSpec
CONSTANTS
    Thread = {t1, t2, t3}
    Late = t3
    LocalPodCount = 2
    MaxArena = 2
    Workload <- MCWorkload
    Monitor = monitor
    NoThread = NoThread
INVARIANTS
    TypeOK
    RegionsWithinPods
    PagesAccounted
    RegionExclusive
PROPERTY
    RequestsEnd
\* A region without room ends the process.
CHECK_DEADLOCK FALSE
