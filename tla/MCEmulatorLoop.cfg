SPECIFICATION Spec
CONSTANTS
    CounterMod = 16
    Reload = 6
    TicksPerMs = 2
    MaxCycles = 2
    EntryCycles = 1
    Breakpoints = {"program", "read_TCSR"}
    MaxRequests = 1
    QuietResets = TRUE
CHECK_DEADLOCK FALSE
INVARIANTS
    OneSliceAtMost
    CountedOnce
PROPERTIES
    Paced
    TimerServed
    ShutdownJoins
