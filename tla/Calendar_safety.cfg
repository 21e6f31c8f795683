SPECIFICATION Spec
CONSTANTS
    TicksPerDay = 4
    Zones <- MCZones
    serviceDays = {2, 4}
    noticePeriodHours = 5
    LastHour = 13
    LastDate = 10
    LastRequest = 3
    LongestRange = 2
CHECK_DEADLOCK FALSE
INVARIANTS
    WeekIsPlanned
    RowsOnServiceWeekdays
    DeadlinesAgree
    FallbackIsPrompt
