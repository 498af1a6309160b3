SPECIFICATION Spec
CONSTANTS
    BlockCount = 2
    BlockBytes = 2
    DataBytes = {254, 255}
    Addresses = {0, 1, 2}
    ReadFails = {FALSE, TRUE}
    R1Tries = 3
    TokenTries = 3
    ClockBytes = 2
    MaxResets = 2
INVARIANTS
    CleanWhenIdle
PROPERTIES
    ImplementsBlockStore
    CallsReturn
