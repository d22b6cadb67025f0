CONSTANTS
    Tables <- MCTables
    RowsOf <- MCRowsOf
SPECIFICATION Spec
INVARIANT RoundTrip
