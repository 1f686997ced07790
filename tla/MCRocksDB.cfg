SPECIFICATION Spec
CONSTANTS
    Base = 2
    MaxDigits = 3
    Key <- MCKey
    Val <- MCVal
    CF = {0, 2}
    Slot = {1, 2}
    Block = {b1, b2, b3}
    Nil = Nil
    InIterator = InIterator
    MaxOperand = 4
    MaxWrites = 3
    MaxBatch = 2
CONSTRAINT ReadsOrWrites
SYMMETRY Symmetry
INVARIANTS
    MemoryOwned
    NoBadFree
    ReadsAsWritten
    BatchReadsBack
