CONSTANTS
    Names = {n1, n2}
    OwnersOf <- AnyName
    Columns <- OneColumn
    PageFields = 5
    MaxOid = 4
    Keys <- MCKeys
    PayloadOf <- MCPayloadOf
    Off = Off
    leaf_max_cells = 2
    leaf_min_cells = 1
    node_max_cells = 2
    node_min_cells = 1
    MaxPages = 16
    MaxFree = 9
SPECIFICATION CatalogSpec
CHECK_DEADLOCK FALSE
INVARIANTS
    RowsExact
    PagesApart
PROPERTY ReopenKeepsTables
