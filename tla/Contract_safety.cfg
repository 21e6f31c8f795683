SPECIFICATION Spec
CONSTANTS
    Caterings = {k1}
    Clients = {l1}
    Contracts = {c1, c2}
    Requests = {r1, r2}
    Null = Null
SYMMETRY Symmetry
INVARIANTS
    IndInv
    OneActivePerPair
PROPERTIES
    EventsTellStatus
    CreatedForActiveCompanies
    ImplementsContractRules
