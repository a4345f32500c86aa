SPECIFICATION Spec
CONSTANTS
    MaxClients = 1
    ExtranonceSize = 0
    ByteBase = 2
    ChainType = "aleo"
    Reader = reader
    Notifiers = {n1}
    MaxWriteAttempts = 2
    MaxCalls = 2
    MayCancel = TRUE
PROPERTIES
    ImplementsLifecycle
    NoGoroutineLeak
    HungUpIsRemoved
    ShutdownCompletes
