------------------------------- MODULE Server -------------------------------
(***************************************************************************)
(* The webwire server: the accept path and read loop of ServeHTTP, the     *)
(* handler tasks it dispatches (request, signal, session restoration,      *)
(* session closure), the session registry they share, the server-side      *)
(* CloseSession call and the graceful Shutdown.                            *)
(*                                                                         *)
(* Every critical section under srv.opsLock or the registry's lock is one  *)
(* step.  A handler is a task that takes one step per call that other      *)
(* tasks can observe.  A frame from a client is a record of its kind and,  *)
(* for a restoration, the session key; of the frames written to a client   *)
(* the model keeps how many were replies and what the session              *)
(* notifications have told the client so far.                              *)
(***************************************************************************)
EXTENDS Integers, Sequences, FiniteSets, FiniteSetsExt

CONSTANTS
    Conns,                  \* connection attempts made by clients
    Keys,                   \* session keys the key generator can produce
    NULL,                   \* no session, no key
    MsgKinds,               \* kinds of frame the clients send
    MaxMsgs,                \* bound: frames read from one connection
    Slots,                  \* bound: the handler tasks one connection can
                            \* have running at a time
    MaxCloseSessionCalls,   \* bound: calls of Server.CloseSession
    MaxSessionConnections,  \* ServerOptions.MaxSessionConnections, 0 = no limit
    MaxUint32               \* the largest uint32, what zero wraps around to

ASSUME /\ IsFiniteSet(Conns) /\ IsFiniteSet(Keys) /\ NULL \notin Keys
       /\ MaxMsgs \in Nat /\ IsFiniteSet(Slots) /\ Slots # {}
       /\ MaxCloseSessionCalls \in Nat
       /\ MaxSessionConnections \in Nat
       /\ MaxUint32 \in Nat /\ MaxUint32 > Cardinality(Conns) * Cardinality(Slots)
       /\ MsgKinds \subseteq {"request", "signal", "closeSession",
                              "restoreSession", "heartbeat", "garbage"}

VARIABLES
    sessionsEnabled,  \* srv.sessionsEnabled, fixed when the server is built
    shutdown,         \* srv.shutdown
    currentOps,       \* srv.currentOps, a uint32
    shutdownRdy,      \* srv.shutdownRdy: TRUE once the latch was released
    httpUp,           \* srv.httpServer is serving
    admin,            \* where the caller of Shutdown() stands
    closer,           \* the caller of CloseSession(key) and its locals
    clients,          \* srv.clients
    connPc,           \* where the ServeHTTP call of each connection stands
    open,             \* the socket of the connection is intact
    session,          \* connection.session, reduced to its key
    registry,         \* srv.sessionRegistry: key -> connections
    task,             \* handler tasks of each connection
    writeLock,        \* sock.writeLock of the connection is held
    outbox,           \* what the frames written to the client amount to
    read,             \* number of frames read from the connection
    asked             \* number of them that call for a reply

srvVars  == <<sessionsEnabled, shutdown, currentOps, shutdownRdy, httpUp, admin>>
connVars == <<clients, connPc, open, session, registry>>
ioVars   == <<writeLock, outbox, read, asked>>
vars     == <<srvVars, closer, connVars, task, ioVars>>

Free == [pc |-> "free", key |-> NULL]

\* The first step of the handler of each kind of message.
Entry == [request |-> "req_run", signal |-> "sig_run",
          restoreSession |-> "restore", closeSession |-> "close_check"]

TaskPcs == {"free", "req_run", "req_reply", "sig_run", "restore", "close_check",
            "close_dereg", "close_notify", "close_fail", "close_reset",
            "close_confirm", "exit"}

\* The kinds of frame the client awaits a reply to.
ReplyKinds == {"request", "restoreSession", "closeSession"}

\* The caller of CloseSession between two calls, after so many of them.
Returned(n) == [pc |-> "idle", key |-> NULL, todo |-> {}, errNum |-> 0,
                calls |-> n]

Running(c) == {s \in Slots : task[c][s].pc # "free"}
At(c, s, pc) == task[c][s].pc = pc
Goto(c, s, pc) == task' = [task EXCEPT ![c][s].pc = pc]

\* The decrement of a uint32: zero wraps around to the largest value.
Dec32(n) == IF n = 0 THEN MaxUint32 ELSE n - 1


-----------------------------------------------------------------------------
(* The session registry and the writes to a connection.                    *)

Register(c, k) == [registry EXCEPT ![k] = @ \cup {c}]

Deregister(c) ==
    IF session[c] = NULL THEN registry
    ELSE [registry EXCEPT ![session[c]] = @ \ {c}]

ActiveSessionsNum == Cardinality({k \in Keys : registry[k] # {}})

SessionConnectionsNum(k) ==
    IF registry[k] = {} THEN -1 ELSE Cardinality(registry[k])

SessionConnections(k) == registry[k]

Active(c) == connPc[c] = "reading" /\ open[c]

\* sock.connected: set by the upgrade and cleared by Close(), which Read
\* calls when NextReader fails and ServeHTTP calls, deferred, when it
\* returns.  After a Read that failed on the frame it had begun the socket
\* is connected until ServeHTTP returns.
Connected(c) == connPc[c] \in {"reading", "errored"}

\* One frame written through the socket: GetWriter waits for the write lock,
\* and the lock is released by the Close() of the writer or by GetWriter
\* itself when NextWriter fails.  On a socket that is no longer connected
\* GetWriter returns the error with the lock held.
GetWriter(c) ==
    ~writeLock[c] /\ writeLock' = [writeLock EXCEPT ![c] = ~Connected(c)]

\* A write reaches the client only while the socket is intact.  A reply of
\* any kind counts as one reply; a session notification replaces what the
\* client holds as its session.
Replied(c) ==
    IF open[c] THEN [outbox EXCEPT ![c].replies = @ + 1] ELSE outbox

Notified(c, k) ==
    IF open[c] THEN [outbox EXCEPT ![c].session = k] ELSE outbox

\* fulfillMsg and failMsg write one reply frame each, the reply, an error
\* reply or a special reply; a failed write is logged and ignored.
FulfillMsg(c) == GetWriter(c) /\ outbox' = Replied(c)

FailMsg(c) == GetWriter(c) /\ outbox' = Replied(c)

\* notifySessionCreated and notifySessionClosed.
Notify(c, k) == GetWriter(c) /\ outbox' = Notified(c, k)

\* A step that writes nothing.
Silent == UNCHANGED <<writeLock, outbox>>

\* What was read from and written to a connection is history once the
\* client is gone.
Forget(c) ==
    /\ outbox' = [outbox EXCEPT ![c] = [replies |-> 0, session |-> NULL]]
    /\ read' = [read EXCEPT ![c] = 0] /\ asked' = [asked EXCEPT ![c] = 0]

-----------------------------------------------------------------------------
Init ==
    /\ sessionsEnabled \in BOOLEAN
    /\ shutdown = FALSE /\ currentOps = 0 /\ shutdownRdy = FALSE
    /\ httpUp = TRUE /\ admin = "idle"
    /\ closer = Returned(0)
    /\ clients = {}
    /\ connPc = [c \in Conns |-> "idle"]
    /\ open = [c \in Conns |-> FALSE]
    /\ session = [c \in Conns |-> NULL]
    /\ registry = [k \in Keys |-> {}]
    /\ task = [c \in Conns |-> [s \in Slots |-> Free]]
    /\ writeLock = [c \in Conns |-> FALSE]
    /\ outbox = [c \in Conns |-> [replies |-> 0, session |-> NULL]]
    /\ read = [c \in Conns |-> 0]
    /\ asked = [c \in Conns |-> 0]

-----------------------------------------------------------------------------
(* The clients and the network.                                            *)

\* The frames a client can have sent: conn.Read returns any of them.
Messages ==
    {m \in [kind : MsgKinds, key : Keys \cup {NULL}] :
        (m.kind = "restoreSession") = (m.key # NULL)}

\* conn.Read returned the next frame of the connection.
Receive(c, m) ==
    /\ Active(c) /\ read[c] < MaxMsgs
    /\ read' = [read EXCEPT ![c] = @ + 1]
    /\ asked' = [asked EXCEPT ![c] = IF m.kind \in ReplyKinds THEN @ + 1 ELSE @]

ClientDrop(c) ==
    /\ Active(c)
    /\ open' = [open EXCEPT ![c] = FALSE] /\ Forget(c)
    /\ UNCHANGED <<srvVars, closer, clients, connPc, session, registry, task,
                   writeLock>>

-----------------------------------------------------------------------------
(* ServeHTTP: the accept path and the read loop.                           *)

\* The ServeHTTP call of connection c goes from one point to the next.
Serve(c, from, to) ==
    /\ connPc[c] = from /\ connPc' = [connPc EXCEPT ![c] = to]
    /\ UNCHANGED <<srvVars, closer, session, task, writeLock>>

ServeHTTP_Check(c) ==
    /\ httpUp /\ Serve(c, "idle", IF shutdown THEN "rejected" ELSE "upgrading")
    /\ UNCHANGED <<clients, open, registry, outbox, read, asked>>

\* An OPTIONS or metadata request, a refusal by BeforeUpgrade, a failed
\* upgrade: the call returns without a connection.
ServeHTTP_Decline(c) ==
    Serve(c, "upgrading", "rejected") /\ UNCHANGED <<clients, open, registry, outbox, read, asked>>

ServeHTTP_Upgrade(c) ==
    /\ Serve(c, "upgrading", "reading")
    /\ clients' = clients \cup {c} /\ open' = [open EXCEPT ![c] = TRUE]
    /\ UNCHANGED <<registry, outbox, read, asked>>

\* conn.Read returns an error, at any time: NextReader failed (the client
\* is gone, the deadline passed) and Read has closed the socket, or a frame
\* arrived that Read rejects, and the socket is still connected.
ServeHTTP_ReadFail(c) ==
    /\ UNCHANGED <<clients, registry>>
    /\ \/ /\ Serve(c, "reading", "failed")
          /\ open' = [open EXCEPT ![c] = FALSE] /\ Forget(c)
       \/ /\ "garbage" \in MsgKinds /\ Active(c) /\ read[c] < MaxMsgs
          /\ Serve(c, "reading", "errored")
          /\ UNCHANGED <<open, outbox, read, asked>>

\* The error path of the read loop: the session is deregistered, the
\* client unlinked, and the deferred conn.Close() runs.
ServeHTTP_ReadError(c) ==
    /\ connPc[c] \in {"failed", "errored"} /\ Serve(c, connPc[c], "closed")
    /\ registry' = Deregister(c) /\ clients' = clients \ {c}
    /\ open' = [open EXCEPT ![c] = FALSE] /\ Forget(c)

\* The frame does not parse: the loop breaks and the deferred conn.Close()
\* runs; nothing else is undone.
ServeHTTP_Break(c) ==
    /\ "garbage" \in MsgKinds /\ Active(c) /\ read[c] < MaxMsgs
    /\ Serve(c, "reading", "closed") /\ open' = [open EXCEPT ![c] = FALSE]
    /\ Forget(c) /\ UNCHANGED <<clients, registry>>

\* registerHandler: a handler is admitted and counted unless the server is
\* shutting down.
RegisterHandler(c, m) ==
    /\ ~shutdown
    /\ currentOps' = currentOps + 1
    /\ \E s \in Slots \ Running(c) :
         task' = [task EXCEPT ![c][s] = [pc |-> Entry[m.kind], key |-> m.key]]
    /\ Silent

\* During shutdown a signal is dropped and anything else is answered with
\* ReplyShutdown.
Refuse(c, m) ==
    /\ shutdown /\ UNCHANGED task
    /\ IF m.kind = "signal" THEN Silent ELSE FailMsg(c)

HandleMessage_CountsRefused(c, m) ==
    \/ m.kind = "heartbeat" /\ UNCHANGED <<currentOps, task>> /\ Silent
    \/ m.kind # "heartbeat" /\ Refuse(c, m) /\ currentOps' = currentOps + 1
    \/ m.kind # "heartbeat" /\ RegisterHandler(c, m)

\* What the read loop does with a frame that parses: a heartbeat is
\* discarded, a frame read during shutdown refused; otherwise a handler
\* task is started.
HandleMessage(c, m) ==
    \/ m.kind = "heartbeat" /\ UNCHANGED <<currentOps, task>> /\ Silent
    \/ m.kind # "heartbeat" /\ Refuse(c, m) /\ UNCHANGED currentOps
    \/ m.kind # "heartbeat" /\ RegisterHandler(c, m)

ServeHTTP_Handle(c) ==
    /\ \E m \in Messages :
         m.kind # "garbage" /\ Receive(c, m) /\ HandleMessage(c, m)
    /\ UNCHANGED <<sessionsEnabled, shutdown, shutdownRdy, httpUp, admin,
                   closer, connVars>>

\* deregisterHandler: the last handler to leave during shutdown releases
\* the latch Shutdown() waits on.
DeregisterHandler ==
    /\ currentOps' = Dec32(currentOps)
    /\ shutdownRdy' = (shutdownRdy \/ (shutdown /\ currentOps' < 1))

HandlerExit(c, s) ==
    /\ At(c, s, "exit")
    /\ DeregisterHandler
    /\ task' = [task EXCEPT ![c][s] = Free]
    /\ UNCHANGED <<sessionsEnabled, shutdown, httpUp, admin, closer, connVars,
                   ioVars>>

-----------------------------------------------------------------------------
(* The handlers.                                                           *)

\* The handler task s of connection c goes from one point to the next; what
\* it does to sessions and to the socket is said beside it.
Step(c, s, from, to) ==
    /\ At(c, s, from) /\ Goto(c, s, to)
    /\ UNCHANGED <<srvVars, closer, clients, connPc, open, read, asked>>

SameSessions == UNCHANGED <<session, registry>>

\* connection.CreateSession: a fresh key, the registry entry, the
\* notification to the client.  It changes nothing when it returns an error
\* (sessions disabled, connection closed, a session already there).
CreateSession(c) ==
    /\ sessionsEnabled /\ Active(c) /\ session[c] = NULL
    /\ \E k \in Keys :
         /\ registry[k] = {}
         /\ session' = [session EXCEPT ![c] = k]
         /\ registry' = Register(c, k)
         /\ Notify(c, k)

\* The OnRequest hook runs; it may create a session for its connection.
OnRequest(c, s) ==
    /\ Step(c, s, "req_run", "req_reply")
    /\ CreateSession(c) \/ (SameSessions /\ Silent)

HandleRequest_Reply_Twice(c, s) ==
    /\ Step(c, s, "req_reply", "exit") /\ SameSessions /\ GetWriter(c)
    /\ outbox' = IF open[c] THEN [outbox EXCEPT ![c].replies = @ + 2] ELSE outbox

\* The hook returned nil, a RequestErr or any other error: the reply, the
\* error reply or the internal error reply is written.
HandleRequest_Reply(c, s) ==
    Step(c, s, "req_reply", "exit") /\ SameSessions /\ FulfillMsg(c)

HandleSignal(c, s) ==
    Step(c, s, "sig_run", "exit") /\ SameSessions /\ Silent

\* The session limit as the restoration handler tests it.
MaxSessConnsReached(k) ==
    MaxSessionConnections > 0 /\ Cardinality(registry[k]) >= MaxSessionConnections

\* The restoration binds the connection to the session of the key and
\* replies with the session.
RestoreSession(c, k) ==
    /\ sessionsEnabled /\ ~MaxSessConnsReached(k)
    /\ Active(c) /\ session[c] = NULL
    /\ session' = [session EXCEPT ![c] = k]
    /\ registry' = Register(c, k)
    /\ GetWriter(c)
    /\ outbox' = [outbox EXCEPT ![c] = [replies |-> @.replies + 1, session |-> k]]

\* Session restoration.  It fails with an error reply when sessions are
\* disabled, the limit of connections is reached, the session manager does
\* not find the key (which is up to the persistence behind it), or the
\* connection cannot be bound.
HandleSessionRestore(c, s) ==
    /\ Step(c, s, "restore", "exit")
    /\ RestoreSession(c, task[c][s].key) \/ (FailMsg(c) /\ SameSessions)

SessionClosure_Check_NoConfirm(c, s) ==
    /\ SameSessions
    /\ \/ ~sessionsEnabled /\ Step(c, s, "close_check", "exit") /\ FailMsg(c)
       \/ /\ sessionsEnabled /\ Silent
          /\ Step(c, s, "close_check",
                  IF session[c] = NULL THEN "exit" ELSE "close_dereg")

\* handleSessionClosure, one step per call that other tasks can observe:
\* sessions are disabled, the connection has no session, or it has one.
SessionClosure_Check(c, s) ==
    /\ SameSessions
    /\ \/ ~sessionsEnabled /\ Step(c, s, "close_check", "exit") /\ FailMsg(c)
       \/ /\ sessionsEnabled /\ session[c] = NULL
          /\ Step(c, s, "close_check", "exit") /\ FulfillMsg(c)
       \/ /\ sessionsEnabled /\ session[c] # NULL
          /\ Step(c, s, "close_check", "close_dereg") /\ Silent

SessionClosure_Deregister_Skipped(c, s) ==
    Step(c, s, "close_dereg", "close_notify") /\ SameSessions /\ Silent

SessionClosure_Deregister(c, s) ==
    /\ Step(c, s, "close_dereg", "close_notify")
    /\ registry' = Deregister(c) /\ UNCHANGED session /\ Silent

SessionClosure_Notify_Silent(c, s) ==
    Step(c, s, "close_notify", "close_reset") /\ SameSessions /\ Silent

\* notifySessionClosed, which fails when the socket is broken.
SessionClosure_Notify(c, s) ==
    /\ Step(c, s, "close_notify", IF open[c] THEN "close_reset" ELSE "close_fail")
    /\ SameSessions /\ Notify(c, NULL)

\* The notification failed: the handler answers with an error and returns
\* with the session still set on the connection.
SessionClosure_Fail(c, s) ==
    Step(c, s, "close_fail", "exit") /\ SameSessions /\ FailMsg(c)

SessionClosure_Reset(c, s) ==
    /\ Step(c, s, "close_reset", "close_confirm")
    /\ session' = [session EXCEPT ![c] = NULL] /\ UNCHANGED registry /\ Silent

SessionClosure_Confirm(c, s) ==
    Step(c, s, "close_confirm", "exit") /\ SameSessions /\ FulfillMsg(c)

-----------------------------------------------------------------------------
(* Server.Shutdown.                                                        *)

\* A step of the caller of Shutdown().
Admin(from, to) ==
    /\ admin = from /\ admin' = to
    /\ UNCHANGED <<sessionsEnabled, currentOps, shutdownRdy, closer, connVars,
                   task, ioVars>>

Shutdown_Begin_NoWait == Admin("idle", "stopping") /\ shutdown' = TRUE /\ UNCHANGED httpUp

Shutdown_Begin_AlwaysWaits == Admin("idle", "waiting") /\ shutdown' = TRUE /\ UNCHANGED httpUp

\* Under opsLock: set the flag and see whether handlers are running.
Shutdown_Begin ==
    /\ Admin("idle", IF currentOps < 1 THEN "stopping" ELSE "waiting")
    /\ shutdown' = TRUE /\ UNCHANGED httpUp

\* <-srv.shutdownRdy
Shutdown_Await == shutdownRdy /\ Admin("waiting", "stopping") /\ UNCHANGED <<shutdown, httpUp>>

\* shutdownHTTPServer: the HTTP server stops, or fails to and stays as it is.
ShutdownHTTPServer ==
    /\ UNCHANGED shutdown
    /\ \/ Admin("stopping", "done") /\ httpUp' = FALSE
       \/ Admin("stopping", "failed") /\ UNCHANGED httpUp

-----------------------------------------------------------------------------
(* Server.CloseSession(key).                                               *)

\* connection.CloseSession: a connection without a session is left alone;
\* otherwise deregister, notify the client, clear the session.  err tells
\* whether the notification failed.
ConnCloseSession(c, err) ==
    \/ session[c] = NULL /\ ~err /\ SameSessions /\ Silent
    \/ /\ session[c] # NULL /\ err = ~open[c]
       /\ registry' = Deregister(c) /\ Notify(c, NULL)
       /\ session' = [session EXCEPT ![c] = IF err THEN @ ELSE NULL]

\* The connections of the key are read once; with none of them the call
\* returns at once.
CloseSession_Begin(k) ==
    /\ closer.pc = "idle" /\ closer.calls < MaxCloseSessionCalls
    /\ closer' = IF SessionConnections(k) = {} THEN Returned(closer.calls + 1)
                 ELSE [closer EXCEPT !.pc = "closing", !.key = k,
                                     !.todo = SessionConnections(k)]
    /\ UNCHANGED <<srvVars, connVars, task, ioVars>>

CloseSession_Each(c) ==
    /\ closer.pc = "closing" /\ c \in closer.todo
    /\ \E err \in BOOLEAN :
         /\ ConnCloseSession(c, err)
         /\ closer' = [closer EXCEPT !.todo = @ \ {c},
                                     !.errNum = IF err THEN @ + 1 ELSE @]
    /\ UNCHANGED <<srvVars, clients, connPc, open, task, read, asked>>

\* The generalError result of the call.
GeneralError == closer.errNum > 0

CloseSession_Return ==
    /\ closer.pc = "closing" /\ closer.todo = {}
    /\ closer' = Returned(closer.calls + 1)
    /\ UNCHANGED <<srvVars, connVars, task, ioVars>>

-----------------------------------------------------------------------------
Handler(c, s) ==
    \/ OnRequest(c, s) \/ HandleRequest_Reply(c, s) \/ HandleSignal(c, s)
    \/ HandleSessionRestore(c, s)
    \/ SessionClosure_Check(c, s) \/ SessionClosure_Deregister(c, s)
    \/ SessionClosure_Notify(c, s) \/ SessionClosure_Fail(c, s)
    \/ SessionClosure_Reset(c, s) \/ SessionClosure_Confirm(c, s)
    \/ HandlerExit(c, s)

ServeHTTP(c) ==
    \/ ServeHTTP_Check(c) \/ ServeHTTP_Decline(c) \/ ServeHTTP_Upgrade(c)
    \/ ServeHTTP_ReadFail(c) \/ ServeHTTP_ReadError(c)
    \/ ServeHTTP_Break(c) \/ ServeHTTP_Handle(c)

Shutdown == Shutdown_Begin \/ Shutdown_Await \/ ShutdownHTTPServer

CloseSession ==
    \/ \E k \in Keys : CloseSession_Begin(k)
    \/ \E c \in Conns : CloseSession_Each(c)
    \/ CloseSession_Return

Next ==
    \/ \E c \in Conns : ClientDrop(c) \/ ServeHTTP(c)
    \/ \E c \in Conns, s \in Slots : Handler(c, s)
    \/ Shutdown
    \/ CloseSession

Spec == Init /\ [][Next]_vars

\* Hooks return and a goroutine that can run does: every handler step, the
\* wait of Shutdown and the stop of the HTTP server are weakly fair.  That a
\* client drops, a frame arrives or a read fails is up to the environment.
Fairness ==
    /\ \A c \in Conns, s \in Slots : WF_vars(Handler(c, s))
    /\ WF_vars(Shutdown)

FairSpec == Spec /\ Fairness

-----------------------------------------------------------------------------
(* Properties.                                                             *)

\* The variables hold values of the types the code gives them; the
\* operations counter never wraps around below zero, and a connection is
\* sent no more replies than frames were read from it.
TypeOK ==
    /\ sessionsEnabled \in BOOLEAN /\ shutdown \in BOOLEAN
    /\ shutdownRdy \in BOOLEAN /\ httpUp \in BOOLEAN
    /\ currentOps \in 0..(Cardinality(Conns) * Cardinality(Slots))
    /\ admin \in {"idle", "waiting", "stopping", "done", "failed"}
    /\ closer \in [pc : {"idle", "closing"}, key : Keys \cup {NULL},
                   todo : SUBSET Conns, errNum : 0..Cardinality(Conns),
                   calls : 0..MaxCloseSessionCalls]
    /\ clients \subseteq Conns
    /\ connPc \in [Conns -> {"idle", "upgrading", "rejected", "reading", "failed",
                           "errored", "closed"}]
    /\ open \in [Conns -> BOOLEAN]
    /\ session \in [Conns -> Keys \cup {NULL}]
    /\ registry \in [Keys -> SUBSET Conns]
    /\ task \in [Conns -> [Slots -> [pc : TaskPcs, key : Keys \cup {NULL}]]]
    /\ writeLock \in [Conns -> BOOLEAN]
    /\ \A c \in Conns :
         /\ outbox[c] \in [replies : 0..MaxMsgs, session : Keys \cup {NULL}]
         /\ asked[c] <= read[c] /\ read[c] \in 0..MaxMsgs

\* Graceful shutdown: srv.currentOps is the number of handlers that were
\* admitted by registerHandler and have not left through deregisterHandler.
OpsCountRunningHandlers ==
    currentOps = MapThenSumSet(LAMBDA c : Cardinality(Running(c)), Conns)

\* The server as ShutdownSpec sees it: the handler tasks that are not free,
\* and how far Shutdown() has come.
Graceful == INSTANCE ShutdownSpec WITH
    Tasks   <- Conns \X Slots,
    running <- {t \in Conns \X Slots : task[t[1]][t[2]].pc # "free"},
    phase   <- CASE ~shutdown                  -> "serving"
                 [] admin \in {"done", "failed"} -> "stopped"
                 [] OTHER                      -> "draining"

\* Graceful shutdown: the flag, the operations counter and the shutdownRdy
\* latch implement ShutdownSpec.  Once Shutdown() has set the flag no
\* handler is started, and Shutdown() returns from shutdownHTTPServer only
\* when no handler is running, whether it found currentOps at zero or was
\* woken by the last handler.
ImplementsShutdownSpec == Graceful!Spec

Unanswered == {"req_run", "req_reply", "restore", "close_check", "close_dereg",
               "close_notify", "close_fail", "close_reset", "close_confirm"}

\* Every request, restoration and closure read from a connection that is
\* still up is in a handler that has not replied yet or was answered by
\* exactly one reply: no path through handleMessage, handleRequest or
\* handleSessionClosure replies twice or not at all.
AnsweredExactlyOnce ==
    \A c \in Conns : Active(c) =>
        asked[c] = outbox[c].replies
                 + Cardinality({s \in Slots : task[c][s].pc \in Unanswered})

\* A handler of c is between two steps of a session closure.
MidClosure(c) == \E s \in Slots : task[c][s].pc \in {"close_notify", "close_reset"}

\* The session registry and the connections agree: a connection registered
\* under a key has the session of that key, and an active connection with a
\* session is registered under its key unless handleSessionClosure is in the
\* middle of closing it.
RegistryMatchesSessions ==
    /\ \A k \in Keys : \A c \in registry[k] : session[c] = k
    /\ \A c \in Conns :
         Active(c) /\ session[c] # NULL /\ ~MidClosure(c) => c \in registry[session[c]]

\* The session the client holds after the frames written to it so far.
View(c) == outbox[c].session

\* Client and server agree on the session of an active connection, except
\* between notifySessionClosed and setSession(nil) in handleSessionClosure.
ClientViewConsistent ==
    \A c \in Conns :
        Active(c) /\ (\A s \in Slots : ~At(c, s, "close_reset")) => View(c) = session[c]

\* The handler task s of c is at a step that writes to the socket.
WritesNext(c, s) ==
    \/ task[c][s].pc \in {"req_reply", "restore", "close_notify", "close_fail",
                          "close_confirm"}
    \/ At(c, s, "close_check") /\ (sessionsEnabled => session[c] = NULL)

\* A handler waits for a write lock that GetWriter left locked.
Stuck == \E c \in Conns, s \in Slots : writeLock[c] /\ WritesNext(c, s)

\* Shutdown() returns: the handlers that were running when it was called
\* finish, the last of them opens shutdownRdy, and the HTTP server is
\* stopped.  The one exception is a handler that waits forever for the write
\* lock of a socket on which GetWriter failed before: its currentOps count
\* is never given back.
ShutdownTerminates == (admin # "idle") ~> (admin \in {"done", "failed"} \/ Stuck)

\* The registry holds live connections only: a connection whose ServeHTTP
\* call has returned, by a failed read or by a frame that does not parse, is
\* in no entry of the session registry.
ClosedConnectionsLeaveRegistry ==
    \A c \in Conns : connPc[c] = "closed" => \A k \in Keys : c \notin registry[k]

\* "Reject incoming connections during shutdown" (ServeHTTP): no connection
\* joins the clients once srv.shutdown is set.
NoAcceptDuringShutdown == [][shutdown => clients' \subseteq clients]_vars

=============================================================================
