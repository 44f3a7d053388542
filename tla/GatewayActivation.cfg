SPECIFICATION Spec
CONSTANTS
    Definitions <- ThreeDefinitions
    Mutations = {m1, m2}
    Captures = {b1}
    None = None
    MaxStarts = 2
    MaxPrepares = 3
SYMMETRY MutationSymmetry
CHECK_DEADLOCK FALSE
INVARIANTS SupervisorFollowsGateway ReceiptsAreTrue RestartIsKept
PROPERTY LagHasCause
