SPECIFICATION Spec
CONSTANTS
    Callers = {c1, c2, c3}
    MaxDials = 3
INVARIANTS
    TypeOK
    OneChannel
    LossHasCause
PROPERTIES
    CallsReturn
