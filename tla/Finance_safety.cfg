SPECIFICATION Spec
CONSTANTS
    TicksPerDay = 3
    Zones <- MCZones
    Rows <- MCRows
    pricePerService <- MCPrice
    Cents = 2
    Orders = {10}
    Counts = {0, 7, 12}
    FirstDays <- MCFirstDays
    FirstHour = 19
    LastHour = 21
    MaxSaves = 1
    RecentLimit = 1
    Null = Null
    a = a
    b = b
INVARIANTS
    Inv
    EveryMealCountsOnce
    FiguresFit
PROPERTIES
    MonthClosesAsShown
