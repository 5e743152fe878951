CONSTANTS
    Machine = {m1, m2}
    Rpc = {r1}
    NoTask = NoTask
    NoMachine = NoMachine
    Ops = {"provision", "drain"}
    SubCap = 0
    MaxFaults = 1
    Port = {}
    U16 = 16
    Builds = {FALSE}
    DeleteMayFail = FALSE
    MaxDraws = 3
    MaxCopies = 1
    MaxLeaks = 0
SPECIFICATION FairSpec
PROPERTIES
    DrainShutsDownAll
