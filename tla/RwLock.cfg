\* Three harts: a reader inside, a writer draining and a third caller.
CONSTANTS
    CPUS = {c1, c2, c3}
SPECIFICATION Spec
INVARIANTS
    RwExclusion
    CountsExact
    InterruptsFollowZone
PROPERTIES
    ReadersBlocked
    DrainEnds
    SomeoneEnters
