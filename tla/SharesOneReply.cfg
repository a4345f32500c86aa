SPECIFICATION Spec
CONSTANTS
    Workers = {w1, w2}
    Names = {d1, d2}
    Addrs = {a1, a2}
    MaxNames = 2
    MaxRecords = 3
    MaxSubmits = 2
SYMMETRY Symmetry
INVARIANTS
    OneReplyPerSubmit
CHECK_DEADLOCK FALSE
