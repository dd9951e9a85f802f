SPECIFICATION Spec
CONSTANTS
    k1 = k1  k2 = k2  k3 = k3
    CACHES = {k1, k2, k3}
    BLOCKS = {b1, b2, b3}
    OBJ_ALL <- ObjAll
    PG_ORLIMIT <- Limit
    INIT_ALLOC <- InitAlloc
INVARIANTS FreeListExact ListsExact BlocksConserved
