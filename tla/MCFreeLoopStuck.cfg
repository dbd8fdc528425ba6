\* Room for one page: a fault on a cached page at the LRU tail.
CONSTANTS
    App = {a1}
    First = a1
    MaxRam = 1
    Margin = 1
    MaxPrefetch = 1
    Workload <- MCWorkload
    None = None
SPECIFICATION Spec
PROPERTY PressureRelieved
CHECK_DEADLOCK FALSE
