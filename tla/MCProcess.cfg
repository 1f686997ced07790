SPECIFICATION FairSpec
CONSTANTS
    Addresses <- MCAddresses
    Machines <- MCMachines
    LookupIP <- MCLookupIP
    Line <- MCLine
    Cap = 2
    MaxLines = 4
CHECK_DEADLOCK FALSE
INVARIANTS
    RunsAsItself
    ServesWithIdentity
    LinesInOrder
    EndOfInputDrains
    HostOutlivesCommands
PROPERTIES
    LineIsSent
    InputEndsProcess
