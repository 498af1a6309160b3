SPECIFICATION Spec
CONSTANTS
    IrqIds = {i1, i2}
    NoIrq = NoIrq
    Rates = {0}
    ControlWords <- MCControlWords
    MaxBytes = 2
    Scale = 32
    TieDiscipline = TRUE
CHECK_DEADLOCK FALSE
INVARIANTS
    InOrder
    IdsOwned
PROPERTIES
    QueueDrains
    ShutdownJoins
