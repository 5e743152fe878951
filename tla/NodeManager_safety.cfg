CONSTANTS
    Machine = {m1, m2}
    Rpc = {r1}
    NoTask = NoTask
    NoMachine = NoMachine
    Ops = {"provision", "deprovision", "drain", "ctrl_c"}
    SubCap = 0
    MaxFaults = 2
    Port = {}
    U16 = 16
    Builds = {FALSE}
    DeleteMayFail = FALSE
    MaxDraws = 3
    MaxCopies = 1
    MaxLeaks = 0
SYMMETRY NodeSymmetry
SPECIFICATION Spec
INVARIANTS
    LiveVmExclusive
    OneHolder
    LockDiscipline
    MapServed
    SlotsConserved
    HostTidy
PROPERTIES
    DrainEmpties
    LifeSpec
