SPECIFICATION LeaseFairSpec
CONSTANTS
    o1 = o1
    o2 = o2
    l1 = l1
    l2 = l2
    l3 = l3
    shared = shared
    own = own
    drain1 = drain1
    stop1 = stop1
    kill1 = kill1
    dispose = dispose
    Owners = {o1, o2}
    Leases = {l1, l2, l3}
    OwnerOf <- LeaseOwner
    KeyOf <- LeaseKey
    Trees = {l2}
    ExclusiveKeys = {shared}
    MaxChildren <- OneChild
    Calls = {drain1, stop1, kill1, dispose}
    KindOf <- Kinds
    TargetOf <- Targets
    Unkillable = {l3}
CHECK_DEADLOCK FALSE
INVARIANT ChildrenAreHeld
PROPERTIES OwnerIsQuiet CallsReturn DisposalReclaims
