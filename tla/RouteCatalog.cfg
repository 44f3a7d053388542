SPECIFICATION Spec
CONSTANTS
    cap = cap
    res = res
    rep = rep
    ren = ren
    rem = rem
    ens = ens
    a = a
    b = b
    x1 = x1
    Requests = {cap, res, rep, ren}
    Operation <- Operations
    OpId <- Ids
    OpIds <- IdSet
    Expected <- Reads
    Files = {a, b}
    Roles = {x1}
    Contents = {1, 2}
    RoleContents = {1}
    InitialDisks <- Disks
    Absent = Absent
    Torn = Torn
    None = None
    MaxAttempts = 2
    MaxPending = 2
    MaxEvents = 2
CHECK_DEADLOCK FALSE
INVARIANT AnswersAreTrue
PROPERTIES CatalogIsAtomic ConflictChangedNothing
