CONSTANTS
    s1 = s1
    Roles = {"client", "server"}
    Streams = {s1}
    Paced = {"client", "server"}
    Duration = 3
    Omit = 1
    Grace = 1
    Interval = 2
    Pacing = 1
    MaxTime = 5
    NULL = NULL
SPECIFICATION FairSpec
INVARIANTS TypeOK WellLinked SlotsScheduled RunsScheduled NoTimerLeft
PROPERTY TimerFires
CHECK_DEADLOCK FALSE
