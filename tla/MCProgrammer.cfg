CONSTANTS
    ByteSize = 8
    Code <- MCCode
    Sessions <- MCSessions
    MaxSessions = 2
    MaxStalls = 1
SPECIFICATION ProgrammerSpec
CHECK_DEADLOCK FALSE
INVARIANT OneDriver
INVARIANT ExactOrReported
PROPERTY GivesBack
