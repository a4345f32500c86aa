SPECIFICATION Spec
CONSTANTS
    MaxLines = 3
    Notifiers = {n1, n2}
INVARIANTS
    TypeOK
    NoOlderWork
    ListensSubscribed
PROPERTIES
    WorkIsOffered
    ResetIsRedialled
CHECK_DEADLOCK FALSE
