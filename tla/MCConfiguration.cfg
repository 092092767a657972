\* Any three keys, of either spelling, with a value of any type.
CONSTANTS
    Configs <- MCConfigs
SPECIFICATION Spec
INVARIANTS
    TypeOK
    MembersAsConfigured
\* The worker has been started: see the other modules for what follows.
CHECK_DEADLOCK FALSE
