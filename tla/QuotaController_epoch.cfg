SPECIFICATION Spec
CONSTANTS
    Full = 16
    Granule = 2
    BaseReserve = 3
    ReleaseMinutes = 3
    DayMinutes = 4
    Start = 1
    SoftEnd = 2
    HardEnd = 3
    Days = 4
    ActiveWeekdays <- Weekdays
    Phase = 2
    InitialUsed = {0, 7}
    Estimates = {2, 5}
    MaxExcess = 2
    Histories <- MCHistories
    ReserveReleaseHours = 6
    BaseLookaheadHours = 2
    MaxAdvanceHours = 6
INVARIANTS
    RunwayHolds
    NothingHeldBackAtTheEnd
    AdmissionIsMonotone
    ActiveLeftIsCount
    WaitingIsSafe
    HistoryFits
    ReserveIsForTheEnd
