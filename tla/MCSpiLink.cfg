SPECIFICATION Spec
CONSTANTS
    SendByte <- MCSendByte
    CardBytes <- MCCardBytes
    Keys <- MCKeys
    BlockBytes = 3
    None = None
INVARIANTS
    KeysIntact
PROPERTIES
    ImplementsByteLink
    EveryKeyArrives
