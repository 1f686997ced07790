SPECIFICATION FairSpec
CONSTANTS
    c1 = c1
    c2 = c2
    Node = {n1, n2}
    Commands <- MCCommands
    ConsoleKey = {u1}
    ROOT_KEY = ROOT_KEY
    DueSets <- MCDueSets
    NoNode = NoNode
    MaxElections = 1
    MaxFaults = 1
INVARIANTS
    TypeOK
    OncePerNode
    SetupStoresConfig
PROPERTIES
    ExactlyOnceWhenCalm
    CrontabIsSetUp
