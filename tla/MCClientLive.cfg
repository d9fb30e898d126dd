SPECIFICATION FairSpec
CONSTANTS
    Callers = {u1, u2}
    NULL = NULL
    Options = {"Enabled"}
    MaxRequests = 1
    MaxDials = 2
PROPERTY CallsReturn
CHECK_DEADLOCK FALSE
