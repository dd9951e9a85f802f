\* Two CPUs, five free pages between two static ones, blocks of 1, 2 and 4 pages.
CONSTANTS
    CPUS = {c1, c2}
    NoCpu = NoCpu
    BootCpu = c1
    NPAGES = 7
    FREE_START = 1
    FREE_END = 6
    MAX_ORDER = 3
    ORDER2PGNUM <- ShiftTable
    CLIENT_TYPES = {"SLAB"}
SPECIFICATION Spec
INVARIANTS
    NoPanic
    Tiling
    OneClaimPerBlock
    PoolsExact
    SlfcheckPasses
PROPERTIES
    ImplementsPageAlloc
    SomeCallReturns
