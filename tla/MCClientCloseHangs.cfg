SPECIFICATION FairSpec
CONSTANTS
    Callers = {u1, u2}
    NULL = NULL
    Options = {"Disabled"}
    MaxRequests = 1
    MaxDials = 2
PROPERTY CloseReturns
CHECK_DEADLOCK FALSE
