SPECIFICATION FairSpec
CONSTANTS
    Events = {e1}
    Processors = {p1, p2}
    Null = Null
    MaxRetries = 2
    BatchSize = 1
    LockTimeout = 2
    BaseBackoff = 0
    MaxJitter = 1
    MaxFaults = 1
    MaxRequeues = 1
INVARIANTS
    IndInv
PROPERTIES
    EventuallySettled
