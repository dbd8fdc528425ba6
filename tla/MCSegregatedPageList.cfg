SPECIFICATION Spec
CONSTANTS
    MinBlock = 1
    Page = {p1, p2}
    Slots = 2
    Owner = owner
    Other = {other}
    Evictor = {ev1, ev2}
    Workload <- MCWorkload
    Patience = 0
    NoPage = NoPage
    NoThread = NoThread
SYMMETRY PageSymmetry
INVARIANTS
    NeverFatal
    ObjectsAccounted
    RanksExact
    FreesAreFound
    LastPageResident
    HolderGoesOn
