\* A signal interrupts the wait of the worker: what the comment in close() says.
CONSTANTS
    Writers = {w1, w2}
    Worker = worker
    Closer = closer
    Events = {e1, null}
    NullEvent = null
    NoThread = NoThread
    MaxWrites = 3
SPECIFICATION Spec
INVARIANTS
    CloseMeansTerminated
\* After close() the worker is gone and the daemon may stop writing.
CHECK_DEADLOCK FALSE
