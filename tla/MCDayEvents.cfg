\* Three midnights, each with or without an hour 0 after it; sun events anywhere
\* in the day, also all in one minute; a clock set within its day any number of
\* times, and once to any minute of the first two days.
CONSTANTS
    MinutesPerDay = 4
    MinutesPerHour = 2
    Almanac <- MCAlmanac
    SpanDays = 1
    Rounds = 6
    MaxDay = 3
    MaxMissed = 1
    MaxResets = 1
    MaxResetDay = 1
SPECIFICATION Spec
INVARIANTS
    TypeOK
    EveryDay
    CalculatedUnlessSkipped
PROPERTIES
    NeverTwice
    FreshCalculation
    OneCalculationPerDay
