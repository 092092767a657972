\* Two midnights, each with or without an hour 0 after it; a list of two.
CONSTANTS
    MinutesPerDay = 2
    MinutesPerHour = 1
    Almanac <- MCAlmanac
    SpanDays = 1
    Rounds = 6
    MaxDay = 2
    MaxMissed = 0
    MaxResets = 0
    MaxResetDay = 0
    Readers = {r1}
    Worker = worker
    NoEvent = NoEvent
    NoThread = NoThread
    MaxQueue = 2
    MaxFailures = 1
    AcceptedKinds <- MCAcceptedKinds
SPECIFICATION FairSpec
INVARIANTS
    OnePlaceEach
    CalculationFirst
PROPERTIES
    EveryDayDelivered
