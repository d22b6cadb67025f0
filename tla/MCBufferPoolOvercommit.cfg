CONSTANTS
    Threads = {t1}
    Frames = {0}
    NumFrames = 1
    NumPages = 2
    Values = {0}
    Zero = 0
    K = 2
    PinModulus = 8
    LateWriters = {}
    NoThread = NoThread
    NoFrame = NoFrame
    NoGuard = NoGuard
SPECIFICATION Spec
INVARIANTS SizeAssert
\* a failed assertion ends the program
CHECK_DEADLOCK FALSE
