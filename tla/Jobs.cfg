SPECIFICATION Spec
CONSTANTS
    MaxJobs = 2
    Notifiers = {n1, n2}
    MaxTemplates = 5
    WordBytes = 2
    DigitBase = 2
    Headers <- MCHeaders
    Timestamps <- MCTimestamps
SYMMETRY Symmetry
INVARIANTS
    TypeOK
    RecentJobResolves
    DifficultyIsComing
    LayoutSettles
    JobIsComplete
PROPERTY RingIsWindow
CHECK_DEADLOCK FALSE
