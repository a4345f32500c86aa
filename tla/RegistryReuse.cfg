SPECIFICATION RegistrySpec
CONSTANTS
    MaxClients = 3
    ExtranonceSize = 1
    ByteBase = 2
PROPERTIES
    FreeExtranonceIsGiven
CHECK_DEADLOCK FALSE
