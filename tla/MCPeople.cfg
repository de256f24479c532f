SPECIFICATION SideBySide
CONSTANTS
    Off = Off
    None = None
    NoUser = NoUser
    u0 = u0
    i0 = i0
    s1 = s1
    r1 = r1
    r2 = r2
    u1 = u1
    u2 = u2
    b1 = b1
    b2 = b2
    Users = {u1, u2}
    Endpoints = {b1, b2}
    Hours = {9, 24}
    Requests = {r1, r2}
    Sends = {s1}
    maxPushSubscriptions = 1
    MaxRows = 2
SYMMETRY Symmetry
INVARIANTS
    BrowsersAgree
PROPERTIES
    InvitesAdmit
    MembershipStays
    OthersBrowserStays
CHECK_DEADLOCK FALSE
