\* The machine as configured: four harts (__arch_cpu_num) and the six modules
\* log, pgfm, buddy, kmem, vm and test, of which pgfm, kmem and vm may fail.
CONSTANTS
    CPUS = 4
    MODULES = 6
    FAILING = {2, 4, 5}
    LATE = {5}
SPECIFICATION Spec
CHECK_DEADLOCK FALSE
INVARIANTS
    InitOnce
    InitInOrder
    SlfcheckAlone
PROPERTIES
    AllBoot
