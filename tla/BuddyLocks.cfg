\* Three CPUs: cycles of two and of three waiters.
CONSTANTS
    CPUS = {c1, c2, c3}
    NoCpu = NoCpu
    BootCpu = c1
    NPAGES = 4
    FREE_START = 0
    FREE_END = 4
    MAX_ORDER = 3
    ORDER2PGNUM <- ShiftTable
    CLIENT_TYPES = {}
SPECIFICATION Spec
INVARIANTS
    NoWaitCycle
