SPECIFICATION Spec
CONSTANTS
    cap = cap
    res = res
    rep = rep
    ren = ren
    rem = rem
    ens = ens
    a = a
    b = b
    x1 = x1
    Requests = {cap, res, rep}
    Operation <- Operations
    OpId <- Ids
    OpIds <- IdSet
    Expected <- Reads
    Files = {a}
    Roles = {x1}
    Contents = {1, 2}
    RoleContents = {1}
    InitialDisks <- Disks
    Absent = Absent
    Torn = Torn
    None = None
    MaxAttempts = 2
    MaxPending = 3
    MaxEvents = 5
CHECK_DEADLOCK FALSE
INVARIANT AbsenceReportedIsFinal
