CONSTANTS
    Machine = {m1}
    Rpc = {r1, r2}
    NoTask = NoTask
    NoMachine = NoMachine
    Ops = {"provision", "deprovision", "drain", "publish", "read"}
    SubCap = 1
    MaxFaults = 2
    Port = {p1}
    U16 = 4
    Builds = {TRUE}
    DeleteMayFail = TRUE
    MaxDraws = 2
    MaxCopies = 1
    MaxLeaks = 1
SPECIFICATION FairSpec
INVARIANTS
    TypeOK
PROPERTIES
    RpcCompletes
    ExitedRemoved
