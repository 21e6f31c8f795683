SPECIFICATION Spec
CONSTANTS
    Events = {e1, e2}
    Contracts = {c1}
    Processors = {p1}
    Ports = {"notifications", "analytics"}
    MaxRetries = 1
    Null = Null
    MaxFaults = 0
CHECK_DEADLOCK FALSE
INVARIANTS
    DoneReachedAll
