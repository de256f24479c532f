SPECIFICATION Spec
CONSTANTS
    Off = Off
INVARIANTS
    EditorKeepsRule
    NextIsLeast
    CalendarAgrees
    ReadersAgree
PROPERTIES
    DoneIsNotDue
CHECK_DEADLOCK FALSE
