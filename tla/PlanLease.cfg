SPECIFICATION Spec
CONSTANTS
    c1 = c1
    c2 = c2
    c3 = c3
    h1 = h1
    h2 = h2
    None = None
    Calls = {c1, c2, c3}
    Procs = {c1, c2, c3}
    Faulty = {c1}
    ProcOf <- OwnProcess
    HostOf <- TwoHosts
CONSTRAINT FenceKept
CHECK_DEADLOCK FALSE
INVARIANT LeaseExcludes
PROPERTIES
    DisplacementHasCause
    LeakHasCause
