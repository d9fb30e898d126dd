SPECIFICATION Spec
CONSTANTS
    Callers = {u1, u2}
    NULL = NULL
    Options = {"Enabled", "Disabled"}
    MaxRequests = 2
    MaxDials = 2
SYMMETRY CallerSymmetry
INVARIANT TypeOK
INVARIANT ApiLockScopedToCalls
INVARIANT ConnectedHasReader
PROPERTY ImplementsRequestSpec
CHECK_DEADLOCK FALSE
