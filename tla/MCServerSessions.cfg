SPECIFICATION Spec
CONSTANTS
    Conns = {c1, c2}
    Keys = {k1, k2}
    Slots = {s1}
    NULL = NULL
    MsgKinds = {"request", "closeSession", "restoreSession", "garbage"}
    MaxMsgs = 3
    MaxCloseSessionCalls = 1
    MaxSessionConnections = 1
    MaxUint32 = 2147483647
SYMMETRY ConnKeySymmetry
CHECK_DEADLOCK FALSE
INVARIANT RegistryMatchesSessions
INVARIANT ClientViewConsistent
