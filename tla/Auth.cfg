CONSTANTS
    Instance = {i1, i2}
    Key = {k1, k2}
    Life = 4
    Skew = 2
    Drift = 2
    Start = 5
    MaxTime = 12
    MaxTokens = 1
    None = None
SPECIFICATION Spec
SYMMETRY AuthSymmetry
INVARIANTS
    AdmittedInScope
    AdmittedFresh
    FreshAdmitted
