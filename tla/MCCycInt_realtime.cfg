SPECIFICATION Spec
CONSTANTS
    Ids <- MCIdsTwo
    VBL = 1
    EVENT_LOOP = 3
    Removable <- MCRemovable
    Realtime = TRUE
    Jit = FALSE
    CycleDelays <- MCCycleDelays
    UsDelays <- MCUsDelays
    PeriodUs = 1
    CpuFreq = 2
    CycleCounts <- MCCycleCountsOne
    UsCheckPeriod = 1
    DrainLimit = 1
    INT64_MAX = 99
    MaxLate = 1
    MaxOver = 4
INVARIANTS
    NoneOverlooked
    AcknowledgesItself
