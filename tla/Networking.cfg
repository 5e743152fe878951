CONSTANTS
    Owner = {m1, m2}
    Port = {p1}
    U16 = 8
    Builds = {TRUE, FALSE}
    DeleteMayFail = TRUE
    MaxDraws = 9
    MaxCopies = 2
    MaxLeaks = 1
SYMMETRY OwnerSymmetry
SPECIFICATION Spec
INVARIANTS
    TypeOK
    SlotsExclusive
    AddressesExclusive
    RulesOwned
CHECK_DEADLOCK FALSE
