SPECIFICATION Spec
CONSTANTS
    KEYS = {1, 2, 3, 4, 5, 6, 7, 8, 9, 10}
    NODES = {1, 2, 3, 4}
    H1 = 11
    H2 = 12
    BOUNDS = {1, 4}
    NULL = 0
INVARIANTS TreesBalanced ContentsExact
