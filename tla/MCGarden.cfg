SPECIFICATION SideBySide
CONSTANTS
    Off = Off
    r1 = r1
    r2 = r2
    a1 = a1
    a2 = a2
    a3 = a3
    a4 = a4
    m1 = m1
    m2 = m2
    Rooms = {"Bath"}
    Fold <- FoldCase
    Cares = {7}
    Focuses = {50}
    Requests = {r1, r2}
    MaxPlants = 2
    MaxPhotos = 2
SYMMETRY Symmetry
INVARIANTS
    PlantsAgree
    StorageHolds
PROPERTIES
    PlantsStay
    RoomsApart
CHECK_DEADLOCK FALSE
