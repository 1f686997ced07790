SPECIFICATION FairSpec
CONSTANTS
    Reader = {t1, t2}
    Handle = {h1, h2, h3}
    NoHandle = NoHandle
CHECK_DEADLOCK FALSE
INVARIANTS
    HandleInv
    GetsReadOpenDB
    OneDBOpen
PROPERTIES
    CallsEnd
