SPECIFICATION Spec
CONSTANTS
    e1 = e1
    e2 = e2
    e3 = e3
    r1 = r1
    p1 = p1
    p2 = p2
    p3 = p3
    h1 = h1
    h2 = h2
    NoReceipt = NoReceipt
    Blank = Blank
    NoOwner = NoOwner
    Executions = {e1, e2}
    Reconcilers = {r1}
    Procs = {p1, p2, p3}
    ProcOf <- Placement
    HostOf <- TwoHosts
    Digests = {1}
CHECK_DEADLOCK FALSE
INVARIANTS ExtraEffectNeedsPreemption InProgressHasCause
