SPECIFICATION Spec
CONSTANTS
    Crons <- MCCrons
    Starts <- MCStarts
    Horizon = 1600
INVARIANTS
    DueWhenDenoted
PROPERTIES
    DueEveryNMinutes
