SPECIFICATION FairSpec
CONSTANTS
    Key = {k1}
    Val = {v1, v2}
    appliedIndexKey = disk_kv_applied_index
    Absent = Absent
    Replica = {r1}
    Dir = {d1, d2}
    NoDir = NoDir
    Torn = Torn
    OrderedMetadata = TRUE
    MaxLog = 2
    MaxFaults = 3
PROPERTIES
    NothingSeenIsLost
    ImplementsStore
    ServesAgain
