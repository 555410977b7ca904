SPECIFICATION FairSpec
CONSTANTS
    Ids <- MCIds
    VBL = 1
    EVENT_LOOP = 3
    Removable <- MCRemovable
    Realtime = FALSE
    Jit = TRUE
    CycleDelays <- MCCycleDelays
    UsDelays <- MCUsDelays
    PeriodUs = 2
    CpuFreq = 2
    CycleCounts <- MCCycleCounts
    UsCheckPeriod = 2
    DrainLimit = 1
    INT64_MAX = 99
    MaxLate = 1
    MaxOver = 50
INVARIANTS
    TypeOK
    NeverEarly
    NoneOverlooked
    AcknowledgesItself
PROPERTY
    Served
    QueueIsTimers
