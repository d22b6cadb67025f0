CONSTANTS
    a = a
    b = b
    Chunk <- MCChunk
    Payloads <- MCPayloads
    MaxPages = 6
SPECIFICATION Spec
INVARIANTS
    TypeOK
    FreeListExact
    OneUse
    ChainsIntact
