SPECIFICATION WindowsSpec
CONSTANTS
    FiveHourMinutes = 300
    WeeklyMinutes = 10080
    MaxAge = 1
    MaxTime = 3
    MaxFlight = 2
    Payloads <- MCPayloads
INVARIANTS
    SameMeaning
    FreshIsYoung
