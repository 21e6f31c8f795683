SPECIFICATION FairSpec
CONSTANTS
    Days = {d1, d2}
    Requests = {r1}
    Jobs = {j1}
    Quantities = {1}
    minDailyQuantity = 1
    maxDailyQuantity = 1
    Null = Null
    MaxFaults = 1
PROPERTIES
    EventuallyAnswered
