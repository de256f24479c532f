SPECIFICATION SideBySide
CONSTANTS
    Parts = {"setup_open"}
    Off = Off
    NoUser = NoUser
    NoKey = NoKey
    NoCode = NoCode
    NoLink = NoLink
    r1 = r1
    r2 = r2
    a1 = a1
    a2 = a2
    a3 = a3
    b1 = b1
    b2 = b2
    c1 = c1
    c2 = c2
    d1 = d1
    e1 = e1
    Users = {d1}
    Keys = {a1, a2, a3}
    Challenges = {b1, b2}
    Batches = {1}
    Requests = {r1, r2}
    BatchSize = 1
    ceremonyLife = 1
    MaxCount = 1
    MaxTime = 1
SYMMETRY Symmetry
INVARIANTS
    GardenHasOwner
CHECK_DEADLOCK FALSE
