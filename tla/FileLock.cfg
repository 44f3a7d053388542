SPECIFICATION HealingSpec
CONSTANTS
    c1 = c1
    c2 = c2
    c3 = c3
    h1 = h1
    h2 = h2
    NoLockFile = NoLockFile
    Calls = {c1, c2, c3}
    Procs = {c1, c2, c3}
    ProcOf <- OwnProcess
    HostOf <- TwoHosts
    Win32 = TRUE
CHECK_DEADLOCK FALSE
INVARIANT MutexWithoutFaults
PROPERTIES DisplacementHasCause CallsReturn
