\* No moment lies before the local midnight.
CONSTANTS
    Unit <- MCUnit
    Asin <- MCAsin
    Skies <- MCSkies
SPECIFICATION Spec
INVARIANTS
    TypeOK
    ClockTimes
    DayLengthAgrees
