SPECIFICATION Spec
CONSTANTS
    Days = {d1}
    Requests = {r1, r2}
    Jobs = {j1}
    Quantities = {0, 1, 2}
    minDailyQuantity = 1
    maxDailyQuantity = 2
    Null = Null
    MaxFaults = 0
SYMMETRY Symmetry
INVARIANTS
    IndInv
    RowsAreCoherent
    QuantitiesInTime
PROPERTIES
    AnsweredStaysAnswered
    ImmutableUnlessRaced
