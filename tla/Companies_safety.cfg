SPECIFICATION FairSpec
CONSTANTS
    Clients = {c1}
    Caterings = {k1}
    Requests = {r1, r2}
    Dows = {1, 2}
    Creation = Creation
    Nobody = Nobody
    MaxFaults = 1
CHECK_DEADLOCK FALSE
INVARIANTS
    LastWordStays
    MixedDaysShareNoRow
PROPERTIES
    DaysMoveTogether
    UpdatesEnd
