SPECIFICATION Spec
CONSTANTS
    Operands <- MCOperands
    Clusters = {1, 2, 64}
    MaxInterrupts = 1
INVARIANTS
    Computes
    Decides
