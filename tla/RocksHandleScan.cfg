SPECIFICATION Spec
CONSTANTS
    Reader = {t1, t2}
    Handle = {h1, h2, h3}
    NoHandle = NoHandle
SYMMETRY Symmetry
CHECK_DEADLOCK FALSE
INVARIANTS
    LookupsSurviveClose
