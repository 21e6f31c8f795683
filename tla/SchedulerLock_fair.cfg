SPECIFICATION FairSpec
CONSTANTS
    Replicas = {r1, r2}
    Slots = {s1, s2}
    Turns = {t1, t2}
    MaxHolds = 3
INVARIANTS
    LockTypeOK
    RunsAreCovered
    ReplicasExclude
PROPERTIES
    JobGoesOn
