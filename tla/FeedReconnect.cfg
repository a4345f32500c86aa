SPECIFICATION Spec
CONSTANTS
    MaxBlocks = 1
    MaxQueue = 1
PROPERTIES
    ReconnectRestores
