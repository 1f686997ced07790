SPECIFICATION Spec
CONSTANTS
    Minute = 4
    Jobs = 2
    Due <- MCDue
    WorkTime = {0, 1}
    MaxElections = 2
    Horizon = 32
INVARIANTS
    WorkerInv
    SleepsIntoNextMinute
    TicksWithinTwoMinutes
PROPERTIES
    EveryMinuteOnceAligned
    OncePerMinuteOnceAligned
    FollowsMinuteClock
