CONSTANTS
    Threads = {t1, t2, t3}
    Frames = {0, 1}
    NumFrames = 2
    NumPages = 2
    Values = {0, 1}
    Zero = 0
    K = 2
    PinModulus = 8
    LateWriters = {}
    NoThread = NoThread
    NoFrame = NoFrame
    NoGuard = NoGuard
SYMMETRY ThreadSymmetry
SPECIFICATION Spec
INVARIANTS TypeOK LatchExclusion SizeAssert FramesNotShared
    PinsExact GuardedPageStays EvictableExact CleanOnDisk
PROPERTIES ContentStable
\* readers and writers of one page can lock each other up: see BufferPoolJoin
CHECK_DEADLOCK FALSE
