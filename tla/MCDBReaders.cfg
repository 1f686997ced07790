SPECIFICATION Spec
CONSTANTS
    Key <- MCKey
    Val = {v1, v2}
    None = None
    End = End
    MaxUpdates = 1
SYMMETRY Symmetry
INVARIANTS
    ScanExact
    SavedIsSnapshot
    RecoverAllOrNothing
