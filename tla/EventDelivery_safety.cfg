SPECIFICATION Spec
CONSTANTS
    Events = {e1, e2}
    Contracts = {c1}
    Processors = {p1, p2}
    Ports = {"notifications", "analytics"}
    MaxRetries = 1
    Null = Null
    MaxFaults = 1
SYMMETRY Symmetry
CHECK_DEADLOCK FALSE
INVARIANTS
    RecordsAreTrue
    RepeatsAreExplained
