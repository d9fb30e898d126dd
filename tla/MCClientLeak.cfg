SPECIFICATION Spec
CONSTANTS
    Callers = {u1, u2}
    NULL = NULL
    Options = {"Enabled", "Disabled"}
    MaxRequests = 1
    MaxDials = 1
INVARIANT PendingHaveCallers
CHECK_DEADLOCK FALSE
