SPECIFICATION Spec
CONSTANTS
    m1 = m1
    u1 = u1
    b1 = b1
    NoUser = NoUser
    HourTicks = 2
    DayHours = 2
    Zones <- MCZonesTwo
    RetryAfter = 1
    StartTime = 8
    MaxTime = 12
    Members = {m1}
    Users = {u1}
    UserOf <- MCOneUser
    GardenOf <- MCOneGarden
    Browsers = {b1}
    Hours = {1}
    DefaultHour = 1
    MaxBrowsers = 1
    RemindLead = 0
    EndTimes = {11}
    MaxChanges = 2
    MaxFaults = 1
INVARIANTS
    TypeOK
    NoLostWake
PROPERTIES
    SendsOnce
    ReminderKept
    DigestDaysIncrease
CHECK_DEADLOCK FALSE
