\* Files with a place and a disabled event, in the keys of the documentation.
CONSTANTS
    Configs <- MCDocumented
SPECIFICATION Spec
INVARIANTS
    AsDocumented
\* The worker has been started: see the other modules for what follows.
CHECK_DEADLOCK FALSE
