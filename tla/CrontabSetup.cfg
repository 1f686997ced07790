SPECIFICATION Spec
CONSTANTS
    c1 = c1
    c2 = c2
    Node = {n1, n2}
    Commands <- MCCommands
    ConsoleKey = {}
    ROOT_KEY = ROOT_KEY
    DueSets <- MCDueSets
    NoNode = NoNode
    MaxElections = 0
    MaxFaults = 1
INVARIANTS
    CompleteSetupIsComplete
