CONSTANTS
    Keys <- MCKeys
    Nodes = {1}
    NoNode = NoNode
    max_size_ = 1
    FileIds = {1, 2, 3, 4, 5, 6, 7}
    Zero = Zero
    Short = Short
    segment_size = 2
    PgnoRange = 16
    Tables = {1, 2}
    Values = {v}
    MaxPages <- MCMaxPages
VIEW View
SPECIFICATION Spec
INVARIANTS
    PagesExact
    LayoutExact
    FailsOverUnsound
