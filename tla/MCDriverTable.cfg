\* Two threads, two objects whose memory is used again, signals, failing threads.
CONSTANTS
    Clients = {c1, c2}
    Loader = loader
    Objects = {o1, o2}
    NoObject = NoObject
    NoThread = NoThread
SPECIFICATION FairSpec
INVARIANTS
    TypeOK
    MutexProtectsMap
    HandleDenotesObject
    UsesLiveObject
    NoObjectLost
    FiniCollectsAll
PROPERTIES
    CallsReturn
\* After _fini, or once the process has ended, nothing more happens.
CHECK_DEADLOCK FALSE
