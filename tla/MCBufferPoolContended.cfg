CONSTANTS
    Threads = {0, 1}
    Frames = {0}
    NumFrames = 1
    NumPages = 1
    Values = {0}
    Zero = 0
    K = 2
    PinModulus = 8
    LateWriters = {0, 1}
    NoThread = NoThread
    NoFrame = NoFrame
    NoGuard = NoGuard
    MaxCalls = 1
    FirstPages = {1}
SPECIFICATION JoinSpec
PROPERTY EveryThreadJoins
\* threads that lock each other up take no further step
CHECK_DEADLOCK FALSE
