CONSTANTS
    Threads = {0, 1}
    Frames = {0, 1}
    NumFrames = 2
    NumPages = 3
    Values = {0}
    Zero = 0
    K = 2
    PinModulus = 8
    LateWriters = {0, 1}
    NoThread = NoThread
    NoFrame = NoFrame
    NoGuard = NoGuard
    MaxCalls = 4
    FirstPages = {0, 3}
SPECIFICATION JoinSpec
INVARIANT NoFrameLost
PROPERTY OnlyLockUpsHang
\* threads that lock each other up take no further step
CHECK_DEADLOCK FALSE
