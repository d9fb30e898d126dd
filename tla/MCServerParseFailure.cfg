SPECIFICATION Spec
CONSTANTS
    Conns = {c1}
    Keys = {k1, k2}
    Slots = {s1}
    NULL = NULL
    MsgKinds = {"request", "garbage"}
    MaxMsgs = 2
    MaxCloseSessionCalls = 0
    MaxSessionConnections = 1
    MaxUint32 = 2147483647
CHECK_DEADLOCK FALSE
INVARIANT ClosedConnectionsLeaveRegistry
