SPECIFICATION Spec
CONSTANTS
    IrqIds = {i1, i2, i3}
    NoIrq = NoIrq
    KeyLengths = {1, 2}
    EarlyKeys <- MCEarlyKeys
    BufferSize = 4
    MaxPresses = 3
CHECK_DEADLOCK FALSE
INVARIANTS
    Presented
    IdsOwned
    NoSpuriousMonitor
PROPERTIES
    ImplementsChannel
    EveryByteArrives
