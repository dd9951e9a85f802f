SPECIFICATION Spec
CONSTANTS
    Ones = 99
    PhandleFormat <- MCFormat
    BaseSource <- MCBase
    PluginSource <- MCPlugin
    Spelling <- MCSpelling
    Reserves <- MCReserves
    MaxBase = 3
    MaxPlugin = 3
    Increment = 4
INVARIANTS
    LiveTreeExact
    OverlayMeansMerge
    BlobReadsBack
CHECK_DEADLOCK FALSE
