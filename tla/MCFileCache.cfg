CONSTANTS
    Nodes = {1, 2, 3}
    NoNode = NoNode
    max_size_ = 3
    Keys = {"a", "b", "c", "d"}
    Files = {11, 12, 13, 14, 15}
SPECIFICATION Spec
INVARIANTS
    ListExact
    FilesExact
PROPERTIES
    EvictsOldest
