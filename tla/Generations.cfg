SPECIFICATION FairSpec
CONSTANTS
    base = base
    user = user
    r1 = r1
    r2 = r2
    None = None
    Instances = {base, user}
    Requires <- MCRequires
    Owning = {base}
    Scenarios <- MCScenarios
    Shutdown = Shutdown
    MaxFaults = 1
INVARIANTS GraphIsConsistent OneWorker NoLostOwner ShutdownIsQuiet
PROPERTIES LossHasCause Settles
CHECK_DEADLOCK FALSE
