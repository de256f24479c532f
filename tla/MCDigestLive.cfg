SPECIFICATION FairSpec
CONSTANTS
    m1 = m1
    u1 = u1
    b1 = b1
    NoUser = NoUser
    HourTicks = 2
    DayHours = 2
    Zones <- MCZonesOne
    RetryAfter = 1
    StartTime = 6
    MaxTime = 9
    Members = {m1}
    Users = {u1}
    UserOf <- MCOneUser
    GardenOf <- MCOneGarden
    Browsers = {b1}
    Hours = {0}
    DefaultHour = 0
    MaxBrowsers = 1
    RemindLead = 0
    EndTimes = {}
    MaxChanges = 1
    MaxFaults = 1
PROPERTIES
    ReminderSettles
    DigestSettles
CHECK_DEADLOCK FALSE
