SPECIFICATION ViaSpec
CONSTANTS
    IrqIds = {i1, i2, i3, i4, i5}
    NoIrq = NoIrq
SYMMETRY Symmetric
INVARIANTS
    AnyBitExact
    EnabledFlagFires
    ViaIdsOwned
PROPERTY DropsOnlyOwn
