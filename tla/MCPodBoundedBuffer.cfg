\* No deadlock check: the keeper can exit, and it can also sleep for good (see
\* the hazards).
CONSTANTS
    Pod = {p1, p2, p3, p4, p5}
    Consumer = {c1, c2}
    N = 3
    Keeper = Keeper
    None = None
SPECIFICATION Spec
INVARIANT TypeOK
PROPERTIES ImplementsQueue NonEmptyIsServed
CHECK_DEADLOCK FALSE
