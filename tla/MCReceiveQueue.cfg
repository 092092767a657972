\* Two readers competing, two accepted events and a rejected one.
CONSTANTS
    Readers = {r1, r2}
    Worker = worker
    Events = {e1, e2, spam}
    Accepted = {e1, e2}
    NoEvent = NoEvent
    NoThread = NoThread
    MaxQueue = 3
SPECIFICATION FairSpec
INVARIANTS
    TypeOK
    SemCountsEvents
    FrontNeverEmpty
    MutexProtectsList
PROPERTIES
    ReadReturns
    ImplementsChannel
