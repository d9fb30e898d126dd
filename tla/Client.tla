------------------------------- MODULE Client -------------------------------
(***************************************************************************)
(* One client: the goroutines of its users calling Connect, Close and      *)
(* Request, the reader of each connection, the background reconnector and  *)
(* the timers of the request manager.  Close, Connect, NewClient and       *)
(* sendRequest are translated from the source; connect(), the reader, the  *)
(* reconnector and the request manager follow the specification.  The      *)
(* socket is the one of module Socket, as far as the client uses it: what  *)
(* Read and GetWriter do to readLock and writeLock is part of the reader's *)
(* and the request's steps.                                                *)
(***************************************************************************)
EXTENDS Naturals, FiniteSets

CONSTANTS
    Callers,       \* the goroutines that call the client's API
    NULL,
    Options,       \* the autoconnect modes NewClient may be given
    MaxRequests,   \* bound: requests created in one behaviour
    MaxDials       \* bound: connections established in one behaviour

ASSUME /\ MaxRequests \in Nat \ {0} /\ MaxDials \in Nat \ {0}
       /\ Options # {} /\ Options \subseteq {"Enabled", "Disabled"}

VARIABLES
    status,         \* clt.status
    autoconnect,    \* clt.autoconnect
    apiLock,        \* clt.apiLock: its exclusive holder and its shared holders
    connectLock,    \* clt.connectLock: who is inside connect()
    link,           \* the socket: "closed", "up", or "broken" by the peer
    conn,           \* how many connections were dialled; the current one
    readLock,       \* sock.readLock: the reader that locked it
    writeLock,      \* sock.writeLock is locked and no writer is open
    reader,         \* the reader goroutine started with every connection
    on,             \* the connection the Read of a reader waits on
    readerClosing,  \* tokens in the channel clt.readerClosing
    connecting,     \* clt.connecting: a reconnector is running
    launch,         \* a spawned tryAutoconnect goroutine has not run yet
    req,            \* the request manager: the state of every identifier
    wire,           \* requests the server has and has not replied to
    pc,             \* where every caller, and the reconnector, stands
    reqOf,          \* the request of a caller's sendRequest
    returned        \* what AwaitReply returned for a request

modeVars == <<status, autoconnect>>
lockVars == <<apiLock, connectLock>>
bgVars   == <<connecting, launch>>
heldVars == <<readLock, writeLock, on>>
sockVars == <<link, conn, reader, readerClosing, wire, heldVars>>
reqVars  == <<req, reqOf, returned>>
vars     == <<modeVars, lockVars, bgVars, pc, sockVars, reqVars>>

Statuses      == {"Disabled", "Disconnected", "Connected"}
Autoconnects  == {"Disabled", "Deactivated", "Enabled"}
Resolutions   == {"Fulfilled", "Timeout", "Canceled", "Disconnected"}
Reconnector   == "reconnector"
Actors        == Callers \cup {Reconnector}
Ids           == 1..MaxRequests
Readers       == 1..MaxDials

ClosePcs   == {"close_check", "close_conn", "close_await"}
RequestPcs == {"auto", "wait", "validate", "created", "await"}
LockPcs    == {"close_lock", "request_lock"}   \* waiting for apiLock
ConnectPcs == {"c_begin", "c_dial"}

\* Actor a goes from one point of its call to the next.
Goto(a, to) == pc' = [pc EXCEPT ![a] = to]
Step(a, from, to) == pc[a] = from /\ Goto(a, to)

\* Status and setStatus, each a critical section of statusLock.
Status == status
SetStatus(s) == status' = s

\* NewClient: disconnected, nothing pending, and a tryAutoconnect goroutine
\* spawned unless the options disable autoconnect.
Init ==
    /\ status = "Disconnected"
    /\ autoconnect \in Options
    /\ launch = (autoconnect = "Enabled")
    /\ apiLock = [excl |-> NULL, shared |-> {}]
    /\ connectLock = NULL /\ connecting = FALSE
    /\ link = "closed" /\ conn = 0 /\ readerClosing = 0 /\ wire = {}
    /\ reader = [g \in Readers |-> "none"] /\ on = [g \in Readers |-> 0]
    /\ readLock = NULL /\ writeLock = FALSE
    /\ req = [i \in Ids |-> "unused"]
    /\ pc = [a \in Actors |-> IF a = Reconnector THEN "off" ELSE "idle"]
    /\ reqOf = [c \in Callers |-> 0]
    /\ returned = [i \in Ids |-> NULL]

-----------------------------------------------------------------------------
(* The request manager.                                                    *)

Pending == {i \in Ids : req[i] = "pending"}

PendingRequests == Cardinality(Pending)

Used == {i \in Ids : req[i] # "unused"}

\* Fulfill and Fail: the first resolution of a request counts, a later one
\* is dropped.
Resolve(i, how) == IF i \in Pending THEN [req EXCEPT ![i] = how] ELSE req

FailAll == [i \in Ids |-> IF i \in Pending THEN "Disconnected" ELSE req[i]]

\* The deadline timer Create started fires.
Timeout(i) ==
    /\ i \in Pending /\ req' = Resolve(i, "Timeout")
    /\ UNCHANGED <<modeVars, lockVars, bgVars, pc, sockVars, reqOf, returned>>

-----------------------------------------------------------------------------
(* Close.                                                                  *)

\* sock.Close(): closes the connection the socket has, if it has one; what
\* the server had to say on it is lost.
SockClose == link' = "closed" /\ wire' = {}

UnlockApi(c) ==
    apiLock' = [excl   |-> IF apiLock.excl = c THEN NULL ELSE apiLock.excl,
                shared |-> apiLock.shared \ {c}]

\* The CompareAndSwap of clt.autoconnect.
Swap(from, to) == autoconnect' = IF autoconnect = from THEN to ELSE autoconnect

\* A caller enters Close or Request, whose first line waits for apiLock.
Enters(c, entry) ==
    /\ Step(c, "idle", entry)
    /\ UNCHANGED <<modeVars, lockVars, bgVars, sockVars, reqVars>>

Close_Enter(c) == Enters(c, "close_lock")

\* apiLock.Lock() returns once nobody holds the lock.
Close_Lock(c) ==
    /\ Step(c, "close_lock", "close_check")
    /\ apiLock = [excl |-> NULL, shared |-> {}]
    /\ apiLock' = [apiLock EXCEPT !.excl = c]
    /\ UNCHANGED <<modeVars, connectLock, bgVars, sockVars, reqVars>>

Close_Check_KeepsLock(c) ==
    /\ Step(c, "close_check", IF Status = "Connected" THEN "close_conn" ELSE "idle")
    /\ Swap("Enabled", "Deactivated") /\ SetStatus("Disabled")
    /\ UNCHANGED <<lockVars, bgVars, sockVars, reqVars>>

\* Under statusLock: autoconnect goes from enabled to deactivated and the
\* status to Disabled; a client that was not connected is done.
Close_Check(c) ==
    /\ Step(c, "close_check", IF Status = "Connected" THEN "close_conn" ELSE "idle")
    /\ Swap("Enabled", "Deactivated") /\ SetStatus("Disabled")
    /\ IF Status = "Connected" THEN UNCHANGED apiLock ELSE UnlockApi(c)
    /\ UNCHANGED <<connectLock, bgVars, sockVars, reqVars>>

Close_Conn_Skipped(c) ==
    /\ Step(c, "close_conn", "close_await")
    /\ UNCHANGED <<modeVars, lockVars, bgVars, sockVars, reqVars>>

\* clt.conn.Close()
Close_Conn(c) ==
    /\ Step(c, "close_conn", "close_await") /\ SockClose
    /\ UNCHANGED <<modeVars, lockVars, bgVars, conn, reader, readerClosing,
                   heldVars, reqVars>>

\* <-clt.readerClosing, then apiLock.Unlock()
Close_Await(c) ==
    /\ Step(c, "close_await", "idle") /\ readerClosing > 0
    /\ readerClosing' = readerClosing - 1 /\ UnlockApi(c)
    /\ UNCHANGED <<modeVars, connectLock, bgVars, link, conn, reader, wire,
                   heldVars, reqVars>>

Close(c) ==
    \/ Close_Enter(c) \/ Close_Lock(c) \/ Close_Check(c)
    \/ Close_Conn(c) \/ Close_Await(c)

-----------------------------------------------------------------------------
(* Connect and connect().                                                  *)

\* Connect: autoconnect goes from deactivated to enabled, then connect().
Connect_Enable(c) ==
    /\ Step(c, "idle", "c_begin") /\ Swap("Deactivated", "Enabled")
    /\ UNCHANGED <<status, lockVars, bgVars, sockVars, reqVars>>

\* connect() returns to the actor that called it: a caller's Connect
\* returns; the reconnector flushes the dam and ends after a success, and
\* tries again after a failure.
ConnectReturns(a, ok) ==
    /\ connectLock' = NULL
    /\ connecting' = (connecting /\ ~(a = Reconnector /\ ok))
    /\ pc' = [x \in Actors |->
                CASE x = a /\ a \in Callers  -> "idle"
                  [] x = a /\ ok             -> "off"
                  [] x = a                   -> "check"
                  [] a = Reconnector /\ ok /\ pc[x] = "wait" -> "validate"
                  [] OTHER                   -> pc[x]]

\* connect() takes connectLock and returns at once when the client is
\* connected.
Connect_Begin(a) ==
    /\ pc[a] = "c_begin" /\ connectLock = NULL
    /\ \/ Status = "Connected" /\ ConnectReturns(a, TRUE)
       \/ Status # "Connected" /\ connectLock' = a /\ Goto(a, "c_dial")
                               /\ UNCHANGED connecting
    /\ UNCHANGED <<modeVars, apiLock, launch, sockVars, reqVars>>

\* Dial succeeds on a socket that is not connected: the configuration is
\* received, the reader is started and the status set to Connected.
Connect_Dial_Ok(a) ==
    /\ pc[a] = "c_dial" /\ link = "closed" /\ conn < MaxDials
    /\ link' = "up" /\ conn' = conn + 1 /\ wire' = {}
    /\ reader' = [reader EXCEPT ![conn + 1] = "loop"]
    /\ SetStatus("Connected") /\ ConnectReturns(a, TRUE)
    /\ UNCHANGED <<autoconnect, apiLock, launch, readerClosing, heldVars, reqVars>>

\* Dial fails: the socket is connected already, or the server is not
\* reached.
Connect_Dial_Fail(a) ==
    /\ pc[a] = "c_dial" /\ ConnectReturns(a, FALSE)
    /\ UNCHANGED <<modeVars, apiLock, launch, sockVars, reqVars>>

ConnectImpl(a) == Connect_Begin(a) \/ Connect_Dial_Ok(a) \/ Connect_Dial_Fail(a)

-----------------------------------------------------------------------------
(* The reconnector and tryAutoconnect.                                     *)

\* The goroutine NewClient or a dying reader spawned runs tryAutoconnect;
\* the connecting flag, tested and set in one critical section, lets one
\* reconnector run at a time.
Autoconnect_Launch ==
    /\ launch /\ launch' = FALSE
    /\ IF Status # "Connected" /\ autoconnect = "Enabled" /\ ~connecting
         THEN connecting' = TRUE /\ Goto(Reconnector, "check")
         ELSE UNCHANGED <<connecting, pc>>
    /\ UNCHANGED <<modeVars, lockVars, sockVars, reqVars>>

\* Before every attempt the reconnector makes sure autoconnect is still
\* enabled, and gives up when it is not.
Reconnect_Check ==
    /\ Step(Reconnector, "check", IF autoconnect = "Enabled" THEN "c_begin" ELSE "off")
    /\ connecting' = (autoconnect = "Enabled")
    /\ UNCHANGED <<modeVars, lockVars, launch, sockVars, reqVars>>

-----------------------------------------------------------------------------
(* Request and sendRequest.                                                *)

\* Identifiers taken and about to be taken; bounded by MaxRequests.
Reserved ==
    Cardinality(Used)
    + Cardinality({c \in Callers : pc[c] \in {"request_lock", "auto", "wait", "validate"}})

\* The call returns to its caller from where it stands.
Return(c, from) ==
    Step(c, from, "idle") /\ UnlockApi(c) /\ reqOf' = [reqOf EXCEPT ![c] = 0]

Request_Enter(c) == Reserved < MaxRequests /\ Enters(c, "request_lock")

\* apiLock.RLock() returns once nobody holds the lock exclusively.
Request_Begin(c) ==
    /\ Step(c, "request_lock", "auto") /\ apiLock.excl = NULL
    /\ apiLock' = [apiLock EXCEPT !.shared = @ \cup {c}]
    /\ UNCHANGED <<modeVars, connectLock, bgVars, sockVars, reqVars>>

\* tryAutoconnect: a connected client goes on; a disconnected one fails
\* unless autoconnect is enabled, and then waits for the reconnector.
TryAutoconnect(c) ==
    /\ \/ /\ Status = "Connected"
          /\ Step(c, "auto", "validate") /\ UNCHANGED <<apiLock, connecting, reqOf>>
       \/ /\ Status # "Connected" /\ autoconnect # "Enabled"
          /\ Return(c, "auto") /\ UNCHANGED connecting
       \/ /\ Status # "Connected" /\ autoconnect = "Enabled" /\ pc[c] = "auto"
          /\ connecting' = TRUE
          /\ pc' = [pc EXCEPT ![c] = "wait",
                              ![Reconnector] = IF connecting THEN @ ELSE "check"]
          /\ UNCHANGED <<apiLock, reqOf>>
    /\ UNCHANGED <<modeVars, connectLock, launch, sockVars, req, returned>>

\* The deadline of the call passes while it waits for the reconnector.
Wait_Timeout(c) ==
    /\ Return(c, "wait")
    /\ UNCHANGED <<modeVars, connectLock, bgVars, sockVars, req, returned>>

\* A request with neither name nor payload is refused.
SendRequest_Invalid(c) ==
    /\ Return(c, "validate")
    /\ UNCHANGED <<modeVars, connectLock, bgVars, sockVars, req, returned>>

\* Request c is created under identifier i.
Created(c, i) ==
    /\ Step(c, "validate", "created")
    /\ req' = [req EXCEPT ![i] = "pending"] /\ reqOf' = [reqOf EXCEPT ![c] = i]
    /\ UNCHANGED <<modeVars, lockVars, bgVars, sockVars, returned>>

SendRequest_Create_SameId(c) == Created(c, IF Used = {} THEN 1 ELSE Cardinality(Used))

\* requestManager.Create: the next identifier, pending from now on.
SendRequest_Create(c) == Created(c, Cardinality(Used) + 1)

\* The context is done already: the request is failed and the call returns.
SendRequest_Canceled(c) ==
    /\ Return(c, "created") /\ req' = Resolve(reqOf[c], "Canceled")
    /\ UNCHANGED <<modeVars, connectLock, bgVars, sockVars, returned>>

\* GetWriter on a socket that is not connected returns its error with
\* writeLock locked.
GetWriter_Disconnected == link = "closed"

\* conn.Write takes the socket's writer, which waits for writeLock: after a
\* failure the call returns; after a success it goes on to wait for the
\* reply.  A write to a connection the peer has broken can go either way,
\* and reaches nobody.
SendRequest_Write(c) ==
    /\ ~writeLock
    /\ \/ /\ link \in {"up", "broken"} /\ Step(c, "created", "await")
          /\ wire' = IF link = "up" THEN wire \cup {reqOf[c]} ELSE {}
          /\ UNCHANGED <<apiLock, reqOf, writeLock>>
       \/ /\ link \in {"closed", "broken"} /\ Return(c, "created")
          /\ writeLock' = GetWriter_Disconnected /\ UNCHANGED wire
    /\ UNCHANGED <<modeVars, connectLock, bgVars, link, conn, reader,
                   readerClosing, readLock, on, req, returned>>

AwaitReply_Unresolved(c) ==
    /\ Return(c, "await")
    /\ returned' = [returned EXCEPT ![reqOf[c]] = req[reqOf[c]]]
    /\ UNCHANGED <<modeVars, connectLock, bgVars, sockVars, req>>

\* AwaitReply returns what the request was resolved with.
AwaitReply(c) ==
    /\ Return(c, "await") /\ reqOf[c] \notin Pending
    /\ returned' = [returned EXCEPT ![reqOf[c]] = req[reqOf[c]]]
    /\ UNCHANGED <<modeVars, connectLock, bgVars, sockVars, req>>

\* The caller cancels the context while the call waits.
AwaitReply_Canceled(c) ==
    /\ Return(c, "await") /\ reqOf[c] \in Pending
    /\ req' = Resolve(reqOf[c], "Canceled")
    /\ returned' = [returned EXCEPT ![reqOf[c]] = "Canceled"]
    /\ UNCHANGED <<modeVars, connectLock, bgVars, sockVars>>

Request(c) ==
    \/ Request_Enter(c) \/ Request_Begin(c)
    \/ TryAutoconnect(c) \/ Wait_Timeout(c)
    \/ SendRequest_Invalid(c) \/ SendRequest_Create(c)
    \/ SendRequest_Canceled(c) \/ SendRequest_Write(c)
    \/ AwaitReply(c) \/ AwaitReply_Canceled(c)

-----------------------------------------------------------------------------
(* The reader of a connection, and what happens to the connection.         *)

\* The reader of connection g goes on, waiting on connection n.
Reads(g, from, to, n) ==
    /\ reader[g] = from /\ reader' = [reader EXCEPT ![g] = to]
    /\ on' = [on EXCEPT ![g] = n]

\* The reader calls Read, which takes readLock.  On a socket that is not
\* connected it returns its error with readLock locked; on a connected one
\* it waits for a frame of the connection the socket has now.
Read_Enter(g) ==
    /\ readLock = NULL /\ readLock' = g
    /\ IF link = "closed" THEN Reads(g, "loop", "failed", on[g])
                          ELSE Reads(g, "loop", "reading", conn)
    /\ UNCHANGED <<modeVars, lockVars, bgVars, pc, link, conn, readerClosing,
                   wire, writeLock, reqVars>>

\* Read unlocks readLock and returns to the reader, which goes on at "to".
ReadReturns(g, to) == readLock' = NULL /\ Reads(g, "reading", to, 0)

\* A reply arrives: Read unlocks and returns it, and the reader fulfills
\* its request and calls Read again.
Reader_Frame(g, i) ==
    /\ on[g] = conn /\ link = "up" /\ i \in wire
    /\ wire' = wire \ {i} /\ req' = Resolve(i, "Fulfilled")
    /\ ReadReturns(g, "loop")
    /\ UNCHANGED <<modeVars, lockVars, bgVars, pc, link, conn, readerClosing,
                   writeLock, reqOf, returned>>

\* NextReader fails on a connection that is closed, broken or replaced:
\* Read closes the socket, whichever connection it has by now, and unlocks.
Reader_Error(g) ==
    /\ on[g] # conn \/ link # "up"
    /\ SockClose /\ ReadReturns(g, "failed")
    /\ UNCHANGED <<modeVars, lockVars, bgVars, pc, conn, readerClosing,
                   writeLock, reqVars>>

\* The connection breaks after a frame has begun: Read unlocks and returns
\* the error of the frame, and the socket stays connected.
Reader_BadFrame(g) ==
    /\ on[g] = conn /\ link = "broken"
    /\ ReadReturns(g, "failed")
    /\ UNCHANGED <<modeVars, lockVars, bgVars, pc, link, conn, readerClosing,
                   wire, writeLock, reqVars>>

\* The reader ends: every pending request fails, a reconnection is
\* triggered if autoconnect is enabled, and readerClosing, which holds one
\* token, is signalled.
Reader_Ends(g) ==
    /\ reader[g] = "failed" /\ reader' = [reader EXCEPT ![g] = "gone"]
    /\ req' = FailAll
    /\ launch' = (launch \/ autoconnect = "Enabled")
    /\ readerClosing' = 1
    /\ UNCHANGED <<autoconnect, lockVars, connecting, pc, link, conn, wire,
                   heldVars, reqOf, returned>>

Reader_React_KeepsStatus(g) == Reader_Ends(g) /\ UNCHANGED status

\* A connected client becomes disconnected when its reader ends.
Reader_React(g) ==
    Reader_Ends(g) /\ SetStatus(IF Status = "Connected" THEN "Disconnected" ELSE Status)

\* The server or the network breaks the connection.
PeerBreak ==
    /\ link = "up" /\ link' = "broken" /\ wire' = {}
    /\ UNCHANGED <<modeVars, lockVars, bgVars, pc, conn, reader,
                   readerClosing, heldVars, reqVars>>

\* The heartbeat saw nothing arrive in time and closes the connection.
Heartbeat_Dead ==
    /\ link # "closed" /\ SockClose
    /\ UNCHANGED <<modeVars, lockVars, bgVars, pc, conn, reader,
                   readerClosing, heldVars, reqVars>>

-----------------------------------------------------------------------------
Next ==
    \/ \E c \in Callers : Close(c) \/ Connect_Enable(c) \/ Request(c)
    \/ \E a \in Actors : ConnectImpl(a)
    \/ Autoconnect_Launch \/ Reconnect_Check
    \/ \E i \in Ids : Timeout(i)
    \/ \E g \in Readers : Read_Enter(g) \/ Reader_Error(g) \/ Reader_React(g)
                          \/ Reader_BadFrame(g)
                          \/ \E i \in Ids : Reader_Frame(g, i)
    \/ PeerBreak \/ Heartbeat_Dead

Spec == Init /\ [][Next]_vars

\* Every goroutine that can take a step of a call, of the reconnector or of
\* a reader takes it; a timer that was started fires; the mutexes apiLock,
\* connectLock and readLock are handed to a goroutine that keeps waiting for
\* them.  Nothing is assumed of the server, the network, or of when users
\* call.
Fairness ==
    /\ \A c \in Callers :
        WF_vars(Close_Check(c) \/ Close_Conn(c) \/ Close_Await(c)
                \/ TryAutoconnect(c) \/ Wait_Timeout(c) \/ SendRequest_Create(c)
                \/ SendRequest_Write(c) \/ AwaitReply(c)
                \/ Connect_Dial_Ok(c) \/ Connect_Dial_Fail(c))
    /\ WF_vars(Autoconnect_Launch \/ Reconnect_Check
               \/ Connect_Dial_Ok(Reconnector) \/ Connect_Dial_Fail(Reconnector))
    /\ \A c \in Callers : SF_vars(Close_Lock(c) \/ Request_Begin(c) \/ Connect_Begin(c))
    /\ SF_vars(Connect_Begin(Reconnector))
    /\ \A i \in Ids : WF_vars(Timeout(i))
    /\ \A g \in Readers : /\ SF_vars(Read_Enter(g))
                          /\ WF_vars(Reader_Error(g) \/ Reader_BadFrame(g)
                                     \/ Reader_React(g))

FairSpec == Spec /\ Fairness

-----------------------------------------------------------------------------
(* Properties.                                                             *)

\* The variables hold values of their types; readerClosing never holds
\* more than the one token the channel has room for, and the reconnector
\* runs exactly while the connecting flag is set.
TypeOK ==
    /\ status \in Statuses /\ autoconnect \in Autoconnects
    /\ apiLock \in [excl : Callers \cup {NULL}, shared : SUBSET Callers]
    /\ connectLock \in Actors \cup {NULL}
    /\ link \in {"closed", "up", "broken"} /\ conn \in 0..MaxDials
    /\ reader \in [Readers -> {"none", "loop", "reading", "failed", "gone"}]
    /\ on \in [Readers -> 0..MaxDials]
    /\ readLock \in Readers \cup {NULL} /\ writeLock \in BOOLEAN
    /\ readerClosing \in 0..1
    /\ connecting \in BOOLEAN /\ launch \in BOOLEAN
    /\ connecting = (pc[Reconnector] # "off")
    /\ req \in [Ids -> {"unused", "pending"} \cup Resolutions]
    /\ wire \subseteq Ids
    /\ pc \in [Actors -> {"idle", "off", "check"} \cup LockPcs \cup ClosePcs
                          \cup RequestPcs \cup ConnectPcs]
    /\ reqOf \in [Callers -> 0..MaxRequests]
    /\ returned \in [Ids -> Resolutions \cup {NULL}]

\* No call returns with apiLock held, and a call that needs it has it:
\* Close holds apiLock exclusively up to whichever of its two returns it
\* takes, a Request holds it shared up to whichever of its seven returns it
\* takes, and a caller that is in neither holds nothing.  So no request is
\* in progress while Close disables the client, and a later call finds the
\* lock free.  Nothing is said here of Connect, which the comment on apiLock
\* lists among the calls "locked exclusively" and which takes no lock in
\* the code: what follows from that is the subject of CloseReturns.
ApiLockScopedToCalls ==
    \A c \in Callers :
        /\ pc[c] \in ClosePcs => apiLock.excl = c
        /\ pc[c] \in RequestPcs => c \in apiLock.shared
        /\ pc[c] \in {"idle"} \cup LockPcs =>
              apiLock.excl # c /\ c \notin apiLock.shared

\* The request manager as RequestSpec sees it.
Requests == INSTANCE RequestSpec WITH state <- req, result <- returned

\* "Exactly one of Fulfill, Fail, timeout and cancel resolves a request":
\* the request manager, with sendRequest and the reader driving it,
\* implements RequestSpec.  A request sendRequest created is resolved once,
\* whatever arrives later (a reply after the timeout, the failure of all
\* requests when the reader ends), and AwaitReply returns only once it is
\* resolved, and returns that resolution.
ImplementsRequestSpec == Requests!Spec

\* A client whose status is Connected has a reader on its current
\* connection that has not ended, so that Close, which waits for a token of
\* a reader after it saw Connected, is not left waiting, and replies are
\* read.
ConnectedHasReader ==
    status = "Connected" =>
        conn > 0 /\ reader[conn] \in {"loop", "reading", "failed"}

\* Read or GetWriter has returned from a socket that was not connected and
\* left its mutex locked: no later Read, or write, gets past it.
LockLeft ==
    \/ writeLock
    \/ readLock # NULL /\ reader[readLock] # "reading"

\* The reader of a connection that was closed has not noticed, and reads
\* the connection that replaced it.
StaleReader == \E g \in Readers : g < conn /\ reader[g] \in {"loop", "reading"}

\* Every call of Close, Connect and Request returns, as long as the socket
\* has not left a mutex locked and every reader reads its own connection: a
\* request by its reply, its timer, its cancellation or the failure of the
\* connection; Close by the token of the reader, which its closing the
\* connection makes end.
CallsReturn ==
    \A c \in Callers :
        (pc[c] # "idle") ~> (pc[c] = "idle" \/ LockLeft \/ StaleReader)

\* "Wait for the reader goroutine to die before returning": Close, which
\* holds apiLock exclusively so that no call runs beside it, closes the
\* connection and returns once the reader has ended.  The hang that follows
\* from a mutex the socket left locked is set aside, so that what is left
\* is what the calls of the client do to one another.
CloseReturns ==
    \A c \in Callers : (pc[c] \in ClosePcs) ~> (pc[c] = "idle" \/ LockLeft)

\* "PendingRequests() equals the number of parked callers": the requests
\* pending in the request manager are those of the calls of sendRequest
\* that have not returned.
PendingHaveCallers ==
    PendingRequests = Cardinality({c \in Callers : reqOf[c] \in Pending})

=============================================================================
