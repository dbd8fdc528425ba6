\* Room for one page.  A fault can wait for good on the page all free
\* loops wait for, so deadlock is not checked.
CONSTANTS
    App = {a1, a2}
    First = a1
    MaxRam = 1
    Margin = 1
    MaxPrefetch = 1
    Workload <- MCWorkload
    None = None
SPECIFICATION Spec
INVARIANT WaitersOffTheList
PROPERTY PressureRelievedOrTailHeld
CHECK_DEADLOCK FALSE
