SPECIFICATION Spec
CONSTANTS
    p1 = p1
    p2 = p2
    Photos = {p1, p2}
    Sizes = {1}
    Quota = 2
    MinAge = 3
    UploadTicks = 1
    SweepTicks = 1
    MaxInFlight = 2
    MaxFaults = 1
    MaxTime = 4
SYMMETRY PhotoSymmetry
INVARIANTS
    TypeOK
    RowHasFiles
CHECK_DEADLOCK FALSE
