SPECIFICATION Spec
CONSTANTS
    PTE_NUMS = 3
    KERNEL_OFFSET = 9
    LAYOUTS <- Layouts
    LEFT = {3, 4}
    RANGES <- Ranges
    OFFSETS = {100}
    PROTS = {{"R", "W"}}
    None = None
INVARIANTS TablesAreATree KernelMapStays
PROPERTIES FullRangeFreed ImplementsHwMap
