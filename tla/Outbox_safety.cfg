SPECIFICATION Spec
CONSTANTS
    Events = {e1, e2}
    Processors = {p1, p2}
    Null = Null
    MaxRetries = 2
    BatchSize = 2
    LockTimeout = 1
    BaseBackoff = 0
    MaxJitter = 0
    MaxFaults = 1
    MaxRequeues = 0
SYMMETRY Symmetry
INVARIANTS
    ProcessedWasDelivered
    HoldersAreExclusive
    DuplicatesAreExplained
PROPERTIES
    ImplementsAtLeastOnce
    ProcessedIsFinal
