SPECIFICATION FairSpec
CONSTANTS
    Conns = {c1, c2}
    Keys = {k1}
    Slots = {s1, s2}
    NULL = NULL
    MsgKinds = {"request", "signal", "closeSession", "heartbeat"}
    MaxMsgs = 2
    MaxCloseSessionCalls = 0
    MaxSessionConnections = 1
    MaxUint32 = 2147483647
INVARIANT TypeOK
INVARIANT OpsCountRunningHandlers
INVARIANT AnsweredExactlyOnce
PROPERTY ShutdownTerminates
PROPERTY ImplementsShutdownSpec
CHECK_DEADLOCK FALSE
