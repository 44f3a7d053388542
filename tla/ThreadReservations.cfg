SPECIFICATION Spec
CONSTANTS
    Callers = {c1, c2, c3, c4, c5}
    None = None
    NoFile = NoFile
    Damaged = Damaged
    Kinds = {"title", "replacement", "caller", "remote"}
    MaxCrashes = 3
SYMMETRY CallerSymmetry
CHECK_DEADLOCK FALSE
INVARIANTS OneTaskPerIntent ExtraTaskHasCause
PROPERTY TaskIdKept
