\* Two writers, a NULL pointer among the events; signals may interrupt the worker.
CONSTANTS
    Writers = {w1, w2}
    Worker = worker
    Closer = closer
    Events = {e1, null}
    NullEvent = null
    NoThread = NoThread
    MaxWrites = 3
SPECIFICATION FairSpec
INVARIANTS
    TypeOK
    MutexProtectsList
    FrontNeverEmpty
    WakeupsCoverQueue
    ConservedInOrder
    CloseWithoutSignal
PROPERTIES
    EventuallyFinished
    DoWorkRecurs
    QuitIsObeyed
    CloseReturns
\* After close() the worker is gone and the daemon may stop writing.
CHECK_DEADLOCK FALSE
