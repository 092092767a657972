\* A moment may lie before the local midnight.
CONSTANTS
    Unit <- MCUnit
    Asin <- MCAsin
    Skies <- MCAllSkies
SPECIFICATION Spec
INVARIANTS
    ClockTimes
