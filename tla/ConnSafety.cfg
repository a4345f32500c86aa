SPECIFICATION SafetySpec
CONSTANTS
    MaxClients = 1
    ExtranonceSize = 1
    ByteBase = 2
    ChainType = "kaspa"
    Reader = reader
    Notifiers = {n1, n2}
    MaxWriteAttempts = 2
    MaxCalls = 2
    MayCancel = FALSE
SYMMETRY Symmetry
INVARIANTS
    TypeOK
    WriteExclusion
    RemovedIsClosed
    RemovalIsOwed
    LogoutsAccounted
PROPERTY
    FollowsLifecycle
