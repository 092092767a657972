\* Every year that FNday is said to work for, two calculations a day.
CONSTANTS
    FirstYear = 1901
    LastYear = 2099
    HourStep = 12
SPECIFICATION Spec
INVARIANTS
    TypeOK
    DaysToJ2000
PROPERTIES
    DaysAdvance
\* The walk ends with the last year.
CHECK_DEADLOCK FALSE
