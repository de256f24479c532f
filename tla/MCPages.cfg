SPECIFICATION SideBySide
CONSTANTS
    Off = Off
    None = None
    a1 = a1
    a2 = a2
    DayUnits = 2
    MonthDays = 2
    Readers = {a1, a2}
    Zones <- Around
    Notes = {1}
    Events = {1}
    CalendarMonths = 1
    MaxTime = 9
SYMMETRY Symmetry
INVARIANTS
    NotesAgree
    MarksAccess
    OnItsDay
    ShownOnce
PROPERTIES
    OneDigestADay
CHECK_DEADLOCK FALSE
