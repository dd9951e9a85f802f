\* Two harts, three locks: nesting three deep, every order of release.
CONSTANTS
    CPUS = {c1, c2}
    LOCKS = {1, 2, 3}
SPECIFICATION Spec
INVARIANTS
    LocksExact
