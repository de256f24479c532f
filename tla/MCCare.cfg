SPECIFICATION SideBySide
CONSTANTS
    Off = Off
    r0 = r0
    r1 = r1
    r2 = r2
    Users = {"ellie", "sam"}
    Owners = {"ellie"}
    Cares = {"water"}
    Requests = {r1, r2}
    Usuals = {5}
    Agains = {2}
    Minute = 2
    MaxEvents = 1
    MaxTime = 2
SYMMETRY Symmetry
INVARIANT
    CareAgrees
PROPERTIES
    CareStays
    GivesBack
    OfferedWorks
CHECK_DEADLOCK FALSE
