\* What the comment on g_mapMutex says, against a lookup without the mutex.
CONSTANTS
    Clients = {c1, c2}
    Loader = loader
    Objects = {o1, o2}
    NoObject = NoObject
    NoThread = NoThread
SPECIFICATION Spec
INVARIANTS
    OpenHandleAccepted
\* After _fini, or once the process has ended, nothing more happens.
CHECK_DEADLOCK FALSE
