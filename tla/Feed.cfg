SPECIFICATION Spec
CONSTANTS
    MaxBlocks = 2
    MaxQueue = 2
INVARIANTS
    TypeOK
    FeedChecksSync
PROPERTIES
    NewBlockIsOffered
    CallbackReturns
    FeedStops
