CONSTANTS
    Frames = {0, 1, 2}
    K = 2
    NoFrame = NoFrame
    MaxTimestamp = 6
SPECIFICATION Spec
INVARIANTS TypeOK IndexesExact SizeExact
PROPERTIES EvictsLRUK RefinesPolicy
