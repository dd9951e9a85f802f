SPECIFICATION Spec
CONSTANTS
    CPUS = {c1, c2}
    KVMA = kvma
    USERS = {u1, u2}
    AREA_NUM = 7
    FRAME_NUM = 7
    HEADS = {10, 11, 12, 13, 14, 15, 16}
    VPNS = 6
    REGION = 3
    KERNEL_VA = 4
    IOPAGES = {100}
    ORDER2PGNUM <- Order2Pgnum
    MMAPS <- Mmaps
    IOMAPS <- Iomaps
    None = None
INVARIANT NoFrameLost
SYMMETRY Symmetry
