SPECIFICATION Spec
CONSTANTS
    Names <- MCNames
    Props <- MCProps
    Vals <- MCVals
    BufSizes <- MCBufSizes
    Rooms <- MCRooms
    MaxEdits = 3
INVARIANTS
    BlobExact
    ReadsAgree
PROPERTY
    FailedCallChangesNothing
CHECK_DEADLOCK FALSE
