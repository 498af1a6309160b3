SPECIFICATION Spec
CONSTANTS
    IrqIds = {i1}
    NoIrq = NoIrq
    NumVoices = 2
    Bank = 1
    Messages <- MCMessages
    DrumNote <- MCDrumNote
    MaxInFlight = 3
    OneStrike = TRUE
INVARIANT EntrySounds
