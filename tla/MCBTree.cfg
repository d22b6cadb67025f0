CONSTANTS
    KeyCount = 7
    MaxFree = 4
    Keys <- MCKeys
    PayloadOf <- MCPayloadOf
    Off = Off
    leaf_max_cells = 2
    leaf_min_cells = 1
    node_max_cells = 2
    node_min_cells = 1
    MaxPages = 100
SPECIFICATION Spec
VIEW View
CHECK_DEADLOCK FALSE
INVARIANTS
    TreeSound
    LeafChainSound
    NoPageTwice
    AbortCauses
PROPERTIES
    ImplementsMap
