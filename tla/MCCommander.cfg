SPECIFICATION Spec
CONSTANTS
    Key = {k1}
    Val = {v1}
    appliedIndexKey = disk_kv_applied_index
    Absent = Absent
    Replica = {r1, r2}
    Dir = {d1, d2}
    NoDir = NoDir
    Torn = Torn
    OrderedMetadata = TRUE
    MaxLog = 2
    MaxFaults = 2
SYMMETRY Symmetry
INVARIANTS
    IInv
    StateIsLogPrefix
    HashAgreement
    NoOtherPanic
    MissingDirHoldsNoData
    OneDirWhileRunning
