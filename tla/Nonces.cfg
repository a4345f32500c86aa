SPECIFICATION Spec
CONSTANTS
    MaxClients = 5
    ExtranonceSize = 1
    ByteBase = 4
    DigitBase = 2
    NonceDigits = 4
INVARIANTS
    TypeOK
    DistinctInWindow
    MeantIsChecked
    DisjointWork
CHECK_DEADLOCK FALSE
