# Model checking webwire

webwire is a client/server messaging library over a full-duplex, framed
transport. This directory holds TLA+ models of its concurrent parts, the TLC
configurations that check them, and `PROJECT.json`, which maps every
definition to the source lines it models and lists the runs, the mutants that
show each property can fail, the findings and the hazards.

Line numbers are those of the files under `src/`. The source tree is a partial
snapshot: `serverHttp.go` calls `handleMessage`, `newClientAgent` and
`unlink`, and `handleSessionClosure.go` calls `sessionRegistry.deregister` and
`notifySessionClosed`, none of which are in the tree. Such code is modelled
from `spec.md` and marked `spec_modelled` in the map; everything else is
translated from the source.

## 1. Inventory

| Part | Source | State | Operations | Talks to |
|---|---|---|---|---|
| Transport socket | `transport/fasthttp/socket.go`, `clientTransport.go` | `connected`, `conn`, mutexes `lock`, `readLock`, `writeLock` | `Dial`, `Close`, `GetWriter` + writer `Close`, `Read`, `IsConnected`, `RemoteAddr` | used by client and by server connections |
| Server core | `server.go`, `serverHttp.go` | `shutdown`, `currentOps` (uint32), `shutdownRdy` latch, `clients`, `sessionsEnabled` | `ServeHTTP` (accept + read loop), `Shutdown`, `CloseSession`, `ActiveSessionsNum`, `SessionConnectionsNum`, `SessionConnections`, `Run` | sockets, handlers, session registry |
| Handlers | `handleRequest.go`, `handleSessionClosure.go` (source); `handleMessage`, `handleSignal`, `handleSessionRestore`, `registerHandler`, `deregisterHandler` (specification) | the connection's session, the operations counter | one task per frame read | user hooks, registry, socket |
| Session registry | specification only | key -> set of connections | `register`, `deregister`, queries | handlers, `CloseSession`, read loop |
| Client connection | `client/client.go`, `newClient.go`, `sendRequest.go`, `hooks.go` | `status`, `autoconnect`, `session`, `readerClosing`, `apiLock`, `statusLock`, `sessionLock` | `Connect`, `Close`, `Request`/`sendRequest`, `Status`, `Session`, `SessionInfo`, `PendingRequests` | socket, request manager, heartbeat |
| Request manager | specification only | pending requests by identifier | `Create`, `Fulfill`, `Fail`, `AwaitReply`, `PendingRequests` | client |
| Heartbeat | specification only | timer | `start`, `reset`, `stop` | client, socket |
| Message codec | `message/writeMsgReply.go`, `writeMsgSignal.go` | the frame being written, the writer | `WriteMsgReply`, `WriteMsgSignal`; the parser is not in the tree | socket writer |
| Examples, benchmarks, tests | `examples/`, `benchmark/`, `test/`, `*_test.go` | none of the library's | hooks, load generator | library API |

What is hard in this code, and where:

* **Three mutexes in one socket.** `GetWriter` takes `writeLock` and hands
  it to the writer, whose `Close` releases it; `Read` holds `readLock`; both
  read `connected` under `lock` and use `conn` after releasing it, while
  `Close` and `Dial` of other goroutines change both
  (`socket.go:80-156`).
* **Graceful shutdown.** `Shutdown` sets a flag, reads a counter once and
  waits on a latch that the last handler opens (`server.go:93-105`).
  Handlers start and finish concurrently with it; connections are being
  accepted concurrently with it (`serverHttp.go:11-18`).
* **Sessions shared by three parties.** The session of a connection is
  changed by handlers of that connection (`handleSessionClosure.go`, the
  hooks' `CreateSession`), by the read loop when the connection drops
  (`serverHttp.go:54-57`) and by `Server.CloseSession` from any goroutine
  (`server.go:133-167`), each in several critical sections.
* **Requests that must resolve exactly once** on the client, with a reply,
  a timeout or a disconnect racing each other (`sendRequest.go`).
* **One socket, many connections, one reader each.** `Close` closes the
  connection and waits for the reader to end (`client.go:168-173`), but
  `Socket.Read` works on whatever connection the socket has when it is
  called, and `connect()` runs without `apiLock`.
* **Encoders with many exits**, each of which must close the writer, and
  an alignment rule that depends on the parity of the name length
  (`writeMsgSignal.go:92`).

`PROJECT.json` lists these as hazards at their lines, with the properties
that cover them.

## 2. Plan

| Order | Module | Content | State of work |
|---|---|---|---|
| 1 | `Socket` | the transport socket of one endpoint, several goroutines | done |
| 2 | `Server` | accept path, read loop, handlers, registry, `CloseSession`, `Shutdown` | done |
| 3 | `Client` | status machine, `Connect`/`Close`, `sendRequest`, request manager, reader, reconnector | done; sessions, `Signal` and `RestoreSession` of the client are left |
| 4 | `MsgWriter` | the two encoders against a reference layout, a writer that can fail at any write | done |
| 5 | `Client` over the socket | the reader's `Read` and the request's writer with `readLock` and `writeLock` as `socket.go` has them, against `Close` and redial | done, inside `Client` |
| 6 | `ShutdownSpec`, `RequestSpec` | abstract specifications: shutdown stops only after quiescence; a request resolves exactly once; `Server` and `Client` shown to implement them by refinement | done |
| 7 | `Server` over the socket | every write of the read loop, of a handler and of `CloseSession` through `GetWriter` and the write lock of the connection's socket | done, inside `Server` |
| 8 | `Wire` | `Client` and `Server` joined by two channels of frames | not built, see section 7 |
| 9 | client sessions | `RestoreSession`, `CloseSession`, `Signal`, the session notifications | not built: their code is not in the tree |

The server comes before the client because its source is the more complete
and because its shutdown and session logic is where several actors meet.

The run list is kept short, one run for each question asked. The
refinements are `PROPERTY` lines of `server_shutdown` and `client_calls`,
in place of the invariants they imply. Two modules, `ShutdownSpec` and
`RequestSpec`, model no code: they say what a component promises.

## 3. Module `Socket`

One socket used by the goroutines in `Threads`. `conn` is the number of the
current connection (0: none yet; `Dial` sets the next number), `closed` and
`broken` are the connections closed locally and broken by the peer, `lock`,
`readLock` and `writeLock` hold the thread that owns them or `NULL`, `pc`
is where each thread stands inside its call and `using` the connection it
obtained a frame writer or reader for. A call begins by waiting for a
mutex (`Dial` and `Close` for `lock`, `GetWriter` for `writeLock`, `Read`
for `readLock`), and that wait is a state of the caller (`d_lock`,
`c_lock`, `w_lock`, `r_lock`): a goroutine that waits for a mutex nobody
will release is inside the socket and can be seen there.

| Action | Code |
|---|---|
| `Dial_Enter`, `Close_Enter`, `GetWriter_Enter`, `Read_Enter` | the call is made and waits for its first mutex |
| `Dial_Begin`, `Dial_Fail`, `Dial_Ok` | `Dial`: `lock` is taken; on a connected socket the call returns "already connected", otherwise the dial and its two outcomes |
| `Close` / `CloseConn` | `Close`: under `lock`, close the connection if connected |
| `GetWriter_Lock`, `GetWriter_Check`, `GetWriter_NextWriter`, `Writer_Close` | `GetWriter` and the writer's `Close`, which unlocks `writeLock` |
| `Read_Lock`, `Read_Check`, `Read_SetDeadline`, `Read_Frame`, `Read_Error`, `Read_CloseAfterError` | `Read` with its error exits |
| `PeerBreak` | the remote end or the network breaks the current connection |

`GetWriter_Check` and `Read_Check` return to the caller with the mutex held
when the socket is disconnected, as lines 85-89 and 113-117 do.

Runs:

* `socket_safety` (`MCSocket.cfg`, passes): three threads, two dials.
  `ExclusiveFrameAccess`: no two threads hold a frame writer, or a frame
  reader, at once. `NeverUsesNilConn`: `NextWriter` and `SetReadDeadline`
  are never called while `conn` is unset. `TypeOK`.
  `NoCallStuckInSocket`: a goroutine that has entered a method of the
  socket, one that waits for a mutex included, gets on, with two
  exceptions that the property names. `HeldOff`: it waits for `writeLock`
  while a writer is open, or for `readLock` while a `Read` waits for a
  frame; when these end is up to the caller and to the peer. `LeftLocked`:
  `GetWriter` or `Read` has returned with its mutex locked (the finding of
  `socket_lock_leak`), after which the next `GetWriter` or `Read` waits for
  ever. Without either exception the property fails. What is left is what
  could go wrong with `sock.lock`, taken inside `writeLock` and `readLock`,
  held over the dial and taken again by the `Close` of `Read`'s error path:
  a `Dial` that returned its error without unlocking violates the
  property. The run is checked under `FairSpec`: weak fairness of the end
  of a dial and of `NextWriter` and `SetReadDeadline`, which wait for no
  lock; strong fairness of the steps that take a mutex, which Go's mutex
  hands to a goroutine that keeps waiting. Nothing is assumed of when
  callers call or close a writer, nor of the peer.
* `socket_lock_leak` (`MCSocketLeak.cfg`, violation):
  `LocksScopedToCalls`, a thread that is in no call holds no mutex, is
  violated in three steps by `GetWriter` on a socket that was never dialled.

Bounds: three threads give a writer, a reader and a closer or dialler at the
same time, which is every role the socket has; two dials give a connection, its
loss and a second connection, so that every action meets a stale connection.
Threads are symmetric in `socket_lock_leak`; `socket_safety` checks a
liveness property and so does without symmetry. Deadlock is not checked:
once `GetWriter` and `Read` have left their mutexes locked and every
goroutine has called one of them, all wait and nothing moves again. That
is the state `LeftLocked` is about, and it is reported by
`socket_lock_leak`, not as a deadlock of this run. `socket_safety` has
82,076 distinct states.

## 4. Module `Server`

State: the fields of `server` that change (`shutdown`, `currentOps`,
`shutdownRdy`, `clients`, `sessionsEnabled`, and `httpUp` for the HTTP
server), the registry, and per connection the position of its `ServeHTTP`
call (`connPc`), whether its socket is intact (`open`), whether the write
lock of its socket is held (`writeLock`), its session, and its handler tasks
(`task`). Two callers of the API are part of the model:
`admin` calls `Shutdown`, `closer` calls `CloseSession`.

Abstractions:

* A frame read from a connection is chosen when it is read (`Receive`): the
  clients are unconstrained, so the frames in flight add nothing. A frame has
  a kind and, for a restoration, a key.
* Of the frames written to a client the model keeps the number of replies
  and the session the notifications leave the client with (`outbox`).
  All replies count alike: the three cases of the switch in `handleRequest`
  each write one reply.
* A handler task takes one step per critical section. `handleSessionClosure`
  has six: the `HasSession` test, `deregister`, `notifySessionClosed`, the
  `failMsg` after a notification that failed, `setSession(nil)` and the
  confirmation.
* `read` and `asked` count the frames read and those that call for a reply;
  `asked` is a history variable used by `AnsweredExactlyOnce` only. The
  properties speak of connections that are up, so the counters and `outbox`
  of a connection are reset when its client is gone (`Forget`).
* A write is one step: `GetWriter`, the `Write` calls of the encoder and the
  writer's `Close` exclude every other write to the socket, so nothing can
  come between them. What is left of the write lock is what the step leaves
  behind: free after a frame was written and after `NextWriter` failed
  (`socket.go:91-102`), held for good after `GetWriter` found the socket
  disconnected (`socket.go:84-89`). The socket of a connection is connected
  (`Connected`) from the upgrade to the first `Close()`: the one `Read`
  calls when `NextReader` fails (`socket.go:125`), or the deferred one of
  `serverHttp.go:39` when `ServeHTTP` returns after a frame that `Read`
  rejected or that did not parse. Between the loss of the client and that
  `Close()` a write fails in `NextWriter` or in `Write`, and the lock is
  released. That the server
  writes through `GetWriter` is taken from the specification ("a write path
  symmetric to the client"): `fulfillMsg`, `failMsg` and the notifications
  are not in the tree.
* TLC's integers are 32 bits wide and signed, so the value a `uint32` wraps
  to is the constant `MaxUint32`, set to the largest integer TLC has.

| Action | Code |
|---|---|
| `ServeHTTP_Check` | `serverHttp.go:11-18`, the shutdown test under `opsLock` |
| `ServeHTTP_Decline` | `:20-38`, `OPTIONS`, metadata, `BeforeUpgrade`, failed upgrade |
| `ServeHTTP_Upgrade` | `:33-49`, upgrade and registration in `clients` |
| `ServeHTTP_ReadFail` | `:53` and `socket.go:119-152`: `conn.Read` returns an error, at any time, because `NextReader` failed and `Read` closed the socket, or because of the frame, with the socket still connected |
| `ServeHTTP_ReadError` | `:54-67`, deregister the session, unlink, and the deferred `conn.Close()` of `:39` |
| `ServeHTTP_Break` | `:69-74` and the deferred `conn.Close()` of `:39` |
| `ServeHTTP_Handle` | `:76-80`, `handleMessage` (specification): heartbeat, refusal during shutdown, `registerHandler` |
| `OnRequest`, `HandleRequest_Reply` | `handleRequest.go`, the hook (which may call `CreateSession`) and the reply |
| `SessionClosure_*` | `handleSessionClosure.go`, one action per step |
| `GetWriter` | `socket.go:80-103`, as part of every step that writes |
| `HandleSignal`, `HandleSessionRestore`, `HandlerExit` | specification: signal hook, restoration, `deregisterHandler` |
| `Shutdown_Begin`, `Shutdown_Await`, `ShutdownHTTPServer` | `server.go:93-105` and `:51-59` |
| `CloseSession_Begin`, `CloseSession_Each`, `CloseSession_Return` | `server.go:133-167` |
| `ClientDrop` | the client or the network ends the connection |

Choices made where the specification is silent: a restoration on a
connection that already has a session, or that is no longer active, fails
with an error reply and binds nothing; `CreateSession` on such a connection
returns an error and changes nothing (the second is what
`sessionCreationOnClosedConn_test.go` expects); `connection.CloseSession`
on a connection that has no session writes nothing and returns. These
choices make the model report fewer inconsistencies, never more. `handleMessage` never fails in the
model, so the exit of `serverHttp.go:77-80` is taken by no run of its own; it
does what `ServeHTTP_Break` does.

### Runs that pass

* `server_shutdown` (`MCServer.cfg`): two connections, two handlers at a
  time on each, two frames per connection: requests, signals, closures
  and heartbeats, with reads that fail and clients that drop at any time;
  checked under `FairSpec`. 717,264 distinct states.
  * `OpsCountRunningHandlers`: `currentOps` is the number of handlers
    admitted and not yet deregistered.
  * `ImplementsShutdownSpec`: the server implements `ShutdownSpec`
    (below).
  * `AnsweredExactlyOnce`: on a connection that is up, the frames that call
    for a reply are those in handlers that have not replied plus the replies
    written.
  * `ShutdownTerminates`: a call of `Shutdown` returns, whether it found
    the counter at zero or has to be woken by the last handler, unless a
    handler is `Stuck`: it is about to write to a socket whose write lock
    `GetWriter` left locked. Such a handler never moves again and the lock
    is never released, so `Stuck` is an exception that lasts. Without it the
    property fails: a client sends a request and a closure and goes away,
    `ServeHTTP` returns, the first handler's reply fails in `GetWriter`, the
    second handler waits for the lock, and `currentOps` stays at one.
  * `TypeOK`, which includes that `currentOps` never wraps and that a
    connection is sent no more replies than frames were read from it.

  Fairness: weak fairness of every handler step and of the steps of
  `Shutdown`. The code justifies it as far as the user's hooks return: a
  handler is a goroutine that waits for nothing but the write lock, and a
  handler that waits for a lock that is never released has no step to be
  fair to. No fairness is assumed for clients, for the read loops or for
  `CloseSession`. Symmetry is not used in this run, because it checks a
  liveness property.
* `server_sessions` (`MCServerSessions.cfg`): two connections, one handler
  at a time on each, three frames per connection (create, close, create
  again), one call of `Server.CloseSession`, restorations with a limit of
  one connection per session, malformed frames and drops.
  * `RegistryMatchesSessions`: a connection registered under a key has the
    session of that key; an active connection with a session is registered
    under it, except in the middle of a closure.
  * `ClientViewConsistent`: the session the client was last told of is the
    session of the connection, except between the notification and the reset
    inside a closure.

  The run checks invariants only, under `Spec`, with connections and keys
  symmetric; 494,534 distinct states.

  This run serialises the handlers of one connection, which is how the
  integration tests drive the server (`gracefulShutdown_test.go:69-72`) and
  what a client does that waits for the reply of a session request. Handlers
  of different connections, `CloseSession` and the read loops interleave
  freely. With two handlers of one connection at a time the first property
  fails: that is run `server_closure_race`.

The server stops for good once it is shut down and its connections are
closed, so these runs do not check for deadlock.

### Refinement: `ShutdownSpec`

`ShutdownSpec` is graceful shutdown with nothing but a set of running
handlers and a phase: handlers start only while `serving`, `Drain` ends
that, and `Stop` happens only when no handler runs. `Server` instantiates
it (`Graceful`) with

| `ShutdownSpec` | `Server` |
|---|---|
| `Tasks` | `Conns \X Slots` |
| `running` | the handler tasks whose `pc` is not `free` |
| `phase` | `serving` until `shutdown` is set, `stopped` once `Shutdown` has gone past its wait (`admin` is `done` or `failed`), `draining` between |

and `ImplementsShutdownSpec` is `Graceful!Spec`, checked as a property of
`server_shutdown`. It says in one statement what the flag, the counter
read once under `opsLock` and the `shutdownRdy` latch are for: no handler
starts after `Shutdown` has set the flag, and `Shutdown` passes
`server.go:98` or `:102` only when none runs. A `Shutdown` that does not
wait violates it.

### Runs that find a violation

* `server_closure_race`: `RegistryMatchesSessions` with two handlers at a
  time on one connection and four frames. Two closures overlap, a request
  creates a new session between their steps, and the second closure resets
  the new session on the connection while the registry keeps it.
* `server_parse_failure`: `ClosedConnectionsLeaveRegistry`. A connection
  with a session sends a frame that does not parse; the loop breaks without
  deregistering.
* `server_accept_race`: `NoAcceptDuringShutdown`. `Shutdown` runs between
  the test of the flag and the registration of the connection.

The lock that `GetWriter` leaves locked has no run of its own in `Server`:
it is the finding of `socket_lock_leak`, and `Server` shows what follows
from it: a handler that never returns and a `Shutdown` that waits for it
(the exception of `ShutdownTerminates`), and a `Server.CloseSession` whose
loop waits for the lock of a connection that dropped after the call read
it from the registry, so that its caller never returns. The model has
that loop (`CloseSession_Each` writes through `GetWriter`); with one
connection for every session it has one step, and no property is stated
about it.

### Bounds

Two connections are needed for a session shared by restoration and for
handlers of different connections to race at shutdown; a third adds nothing
the properties tell apart. Two keys allow a connection to close one session
and hold another; `server_shutdown`, whose properties do not look at keys,
has one. `MaxMsgs` is the smallest number of frames with which a
session is created, closed and created again (3), or two closures overlap
around a creation (4, in `server_closure_race`); `server_shutdown` has two,
which is two handlers of one connection running when it closes, by a drop or
by a read that fails. Frames that do not parse and reads that fail on a
connected socket are in `server_sessions` and `server_parse_failure`. `Slots` bounds the handlers
of one connection that run at the same time; when all are taken the read
loop waits, as in a behaviour where no more frames arrive in the meantime.
`MaxCloseSessionCalls` bounds the calls of `Server.CloseSession`.

## 5. Module `MsgWriter`

One call of `WriteMsgSignal` or `WriteMsgReply` at a time, on a writer of
its own. `call` holds the arguments, `pc` the step the call has reached,
`buf` the bytes the writer has accepted, `closed` how often the writer was
closed and `result` what the call returned. Names, payloads and identifiers
are sequences of bytes: here the bytes are what the properties are about.

| Action | Code |
|---|---|
| `Sig_Validate` | `writeMsgSignal.go:19-56`: name longer than 255, UTF-16 payload of odd length, in safe mode a name byte outside 32..126; each closes the writer and returns an error |
| `Sig_WriteType`, `Sig_WriteNameLen`, `Sig_WriteName`, `Sig_WritePad`, `Sig_WritePayload` | `:58-107`, one `Write` each, which succeeds or fails; a failed `Write` closes the writer and returns |
| `Sig_Close` | `:109-113`, the final `Close`, whose error is the result |
| `Rep_Validate` ... `Rep_Close` | `writeMsgReply.go:18-77`, the same shape with the 8-byte identifier in place of the name |

`byte(len(name))` is `Len(name) % 256`. The parser is not in the source
tree; `Parse` reads a frame by the layout of the specification (tag, length
byte, name or identifier, payload) and finds the payload of a UTF-16 frame
at the next 2-byte boundary after the header.

Runs:

* `codec_encoders` (`MCMsgWriter.cfg`, passes).
  * `WriterClosedExactlyOnce`: the writer is closed once when the call has
    returned, on every one of its exits, and not before.
  * `InvalidWritesNothing`: a call the codec must reject returns an error
    with nothing written.
  * `RoundTrip`: a frame written without error parses back to the message.
  * `TypeOK`, which includes that every element of the frame is a byte and
    that the writer is never closed twice.

The specification words the alignment rule of a UTF-16 signal as "padded
when 1 + N is odd"; `writeMsgSignal.go:92` pads when N is odd, which is the
rule that aligns the payload after a header of 2 + N bytes, and the one
`Parse` and `RoundTrip` follow.

Bounds: names of length 0, 1, 2, 3, 255 and 256 (both parities, and both
sides of the length limit), with the bytes 31, 32, 126 and 127 (both sides
of the limits of safe mode); payloads of length 0 to 3, beginning with a
zero byte, which an alignment error would swallow, and with another. One
identifier: the encoder only copies it. Deadlock is checked: a call always
returns and another can begin.

## 6. Module `Client`

One client used by the goroutines in `Callers`, each of which calls `Close`,
`Connect` and `Request` in any order, and the goroutines the client starts
itself: the reconnector and one reader per connection.

State: `status` and `autoconnect` (the two atomics of `client.go:15-41`),
`apiLock` (a read/write mutex: `excl` is the writer, `shared` the readers),
`connectLock`, the socket (`link`: closed, up, or broken by the peer; `conn`
numbers the connections; `readLock` holds the reader that locked it;
`writeLock` is set when the mutex was left locked), `reader` (what the
reader started with each connection is doing: between two calls of `Read`,
inside `Read`, failed, gone), `on` (the connection a reader inside `Read`
waits on), `readerClosing` (the channel of capacity 1 of `newClient.go:60`,
as the number of tokens in it), `connecting` and `launch` (the reconnector
runs; a goroutine running `tryAutoconnect` was started and has not run yet),
the request manager `req`, the frames the server has and may answer
(`wire`), and per caller `pc`, the request it waits for (`reqOf`) and, per
request, what `AwaitReply` returned (`returned`, a history variable).

| Action | Code |
|---|---|
| `Status`, `SetStatus` | `client.go:87-92` and `:179-183`, the read and the write of the status under `statusLock` |
| `Close_Enter`, `Close_Lock`, `Close_Check`, `Close_Conn`, `Close_Await` | `client.go:147-176`: the call and its wait for `apiLock`; `apiLock.Lock()` returns; the compare-and-swap of `autoconnect`, status `Disabled` and the return of a client that was not connected; `conn.Close()`; `<-readerClosing` |
| `Connect_Enable` | `client.go:98-106`: the compare-and-swap from deactivated to enabled, then `connect()` |
| `Connect_Begin`, `Connect_Dial_Ok`, `Connect_Dial_Fail` | `connect()` (specification): `connectLock`, the return of a connected client, the dial |
| `Autoconnect_Launch`, `Reconnect_Check` | `tryAutoconnect` and the reconnector (specification) |
| `Request_Enter`, `Request_Begin`, `TryAutoconnect`, `Wait_Timeout` | `Request` (specification): the call and its wait for `apiLock`, `apiLock.RLock()` returns, the wait for a connection |
| `SendRequest_Invalid`, `SendRequest_Create`, `SendRequest_Canceled`, `SendRequest_Write`, `AwaitReply` | `sendRequest.go:12-64`, one action per exit and per call that changes state |
| `AwaitReply_Canceled`, `Timeout` | the request manager (specification): cancellation and the deadline timer |
| `Read_Enter` | `socket.go:106-117`: `readLock.Lock()` and the connected test, whose failure returns with the mutex locked |
| `Reader_Error` | `socket.go:123-128`: `NextReader` fails, `Read` closes the socket and unlocks |
| `Reader_BadFrame` | `socket.go:131-152`: the exits after `NextReader` succeeded, which unlock and leave the socket connected |
| `Reader_Frame` | `socket.go:154-155` and the reader (specification): a reply fulfills its request |
| `Reader_React` | the reader (specification) after a failed `Read` |
| `PeerBreak`, `Heartbeat_Dead` | the network breaks the connection; the heartbeat closes it |

Decisions, each taken from the source where the source has the code:

* `Connect` takes no `apiLock`: `client.go:98-106` does not, although the
  comment on the field (`client.go:55-61`) lists `Connect` among the calls
  "locked exclusively" and the specification (4.D) says the same. The model
  follows the code. `connect()` cannot take it either, because the
  reconnector runs `connect()` while requests wait for it with the lock
  held shared. No property says that `Connect` holds the lock or that it
  does not; what comes of its running beside `Close` is run
  `client_close_hangs`.
* A caller that waits for `apiLock` is in a state of its own
  (`close_lock`, `request_lock`), so that a call kept waiting by a lock
  nobody releases is a call that does not return.
* The socket is one object for all connections of the client. `Read`
  waits on the connection the socket has when `Read` is entered (`on`),
  whoever calls it: the reader started for a connection that was closed and
  replaced reads the new one. A failed `NextReader` closes the connection
  the socket has at that moment (`socket.go:123-127`), which can be the
  successor of the one that failed.
* `Read_Enter` takes `readLock` and tests `connected` in one step. The test
  reads one variable under `sock.lock`, and what the other goroutines do
  between the two is the same as before the first or after the second.
* `sendRequest` writes with `conn.Write`, which is not in the tree. The
  model takes it to write through `GetWriter`, the only way to write the
  socket of the tree has: it waits for `writeLock`, and `GetWriter` on a
  socket that is not connected returns with the mutex locked
  (`socket.go:82-89`). Taking the writer, writing and closing it are one
  step; module `Socket` has them apart.
* `Reader_BadFrame` is taken on a connection the peer has broken: the
  server of the model sends only replies, which parse.
* A frame on a connection is lost when the connection is closed or breaks.
* `SendRequest_Write` returns after a failed write without failing the
  request, as `sendRequest.go:56-58` does.
* From the specification: the reader sets `Disconnected` only if it finds
  `Connected`; a request on a disconnected client waits for the
  reconnector if autoconnect is enabled.
* Assumed, where neither the tree nor the specification says: a request on
  a disconnected client whose autoconnect is not enabled fails at once
  (`clientRequestDisconnected_test.go:34-47` expects no error from a client
  built with `Autoconnect: wwrclt.Disabled`; that constant is the status
  `Disabled` of `client.go:20`, while `NewClient` compares the option with
  `webwire.Disabled`, which is not in the tree, so the tree does not decide
  which mode the client of the test has); the reader's send on
  `readerClosing` does not block, the channel having room for one token
  (`newClient.go:60`), so a reader nobody waits for can end; the
  reconnector tests `autoconnect` before every attempt.
* Where the code is not in the tree and the specification leaves the order
  open, the model takes the order that is kindest to the code: a successful
  dial, the start of the reader and the status `Connected` are one step, and
  the test of `tryAutoconnect` and the wait for the reconnector are one
  step.

### Runs

* `client_calls` (`MCClient.cfg`, passes): two callers, two requests, two
  connections.
  * `ApiLockScopedToCalls`: a caller inside `Close` holds `apiLock`
    exclusively and a caller inside `Request` holds it shared, up to
    whichever return the call takes (two in `Close`, seven in `Request`),
    and a caller that is in no call, or waits for the lock, holds nothing.
    A `Close` that returned at `client.go:162` without its `Unlock`
    violates it. It says nothing of `Connect`.
  * `ConnectedHasReader`: while the status is `Connected` the current
    connection has a reader that has not ended.
  * `ImplementsRequestSpec`: the client implements `RequestSpec` (below).
  * `TypeOK`, which includes that `readerClosing` never holds a second
    token and that the reconnector runs exactly while `connecting` is set.
* `client_calls_return` (`MCClientLive.cfg`, passes): two callers, one
  request, two connections, autoconnect enabled.
  * `CallsReturn`: every call of `Close`, `Connect` and `Request`, one
    that waits for `apiLock` included, returns or comes to a state in which
    a mutex of the socket was left locked (`LockLeft`) or a reader has not
    noticed that its connection was replaced (`StaleReader`). A `Close`
    that kept `apiLock`, or that did not close the connection, violates it.
    458,593 distinct states.
* `client_close_hangs` (`MCClientCloseHangs.cfg`, violation):
  `CloseReturns`, every call of `Close` returns unless a mutex of the
  socket was left locked. `Close` closes the connection and waits for the
  token of the reader; before the reader calls `Read` again, the `Connect`
  of another goroutine, which takes no `apiLock`, dials and starts a second
  reader. The second reader enters `Read` and waits for a frame, holding
  `readLock`; the first waits for `readLock` and, when it gets it, finds
  the socket connected and waits for a frame of the new connection. No
  token comes while that connection lives, and `Close` keeps `apiLock`.
  The run has autoconnect disabled: there is no reconnector, and the
  `connect()` of the counterexample is the one `client.go:105` calls. With
  autoconnect enabled the reconnector does the same. The exception for
  `LockLeft` keeps this hang apart from the one `socket_lock_leak` leads
  to, which takes one goroutine: `Connect`, `Close` before the reader has
  called `Read`, the reader's `Read` on the closed socket returns with
  `readLock` locked, `Connect`, and the `Close` after it waits for a reader
  that waits for `readLock`.
* `client_request_leak` (`MCClientLeak.cfg`, violation):
  `PendingHaveCallers`, the requests pending are those of the calls that
  have not returned. A write on a broken connection fails, `sendRequest`
  returns, and the request stays pending until its timer fires.

The two exceptions of `CallsReturn` are the two ways in which the model
was found to have a call that never returns. The second is run
`client_close_hangs`. The first is the consequence, in the client, of what
run `socket_lock_leak` shows of the socket: a reader that is between two
reads when the connection is closed enters `Read` on a disconnected socket
and returns with `readLock` locked; the reader of the next connection
blocks on it, the client is `Connected` and reads nothing, and its `Close`
waits for a reader that cannot end. Without either exception `CallsReturn`
fails. `LockLeft`, once true, stays true. `StaleReader` does not: a stale
reader that fails ends, so a call that meets a stale reader for a while is
excused by the property whatever becomes of it later. The property is
therefore weaker than "these are the only two hangs": it says that a call
that never returns has met one of the two.

Fairness of `client_calls_return`: weak fairness of the steps of a call
that runs (a goroutine that can go on does), of the reconnector, of the
readers (a `Read` on a closed or broken connection fails, and the reader
reacts), and of the timer of a request; strong fairness of the acquisition
of `apiLock`, of `connectLock` and of `readLock`, which Go's mutexes give
to a goroutine that keeps waiting. Nothing is assumed of the server (a reply need not
come, so `Reader_Frame` is not fair), of the network, of the heartbeat, of
cancellation or of when users call. The calls return all the same: a
request by its timer, `Close` by the token of the reader whose connection it
closed.

Bounds: two callers give `Close` against `Connect`, `Close` against
`Request` and two requests at once; the reconnector is a third actor.
`MaxDials` = 2 gives a connection, its loss and a reconnection, which is
what a stale reader, a stale token and a mutex left locked need.
`MaxRequests` = 2 gives a request resolved and returned while another is
pending; the runs under `FairSpec` have one, for their time. `Options` is
the set of autoconnect modes `NewClient` may be given; `client_calls_return`
has the enabled one only, for its time: with autoconnect disabled there is
no reconnector and less can happen. Callers are symmetric in the safety run. The client may stop for
good (closed, nothing to do, dials used up), so deadlock is not checked.

### Refinement: `RequestSpec`

`RequestSpec` is the request manager as its callers see it: `state` of an
identifier goes from `unused` to `pending` (`Create`) and from there to one
resolution (`Resolve`, for one request or for all that wait), and `result`
is set once, to that resolution (`Deliver`), or together with it when the
caller gives up (`Abandon`). `Client` instantiates it with `state <- req`
and `result <- returned`, and `ImplementsRequestSpec`, a property of
`client_calls`, is the specification of that instance. Every step of the
client that touches a request must be one of the four: a reply that arrives
after the timeout, the failure of all requests when a reader ends, a
second reader fulfilling what the first has failed, an identifier given
out twice, an `AwaitReply` that returns before the resolution, each would
be a step `RequestSpec` does not have.

### Open questions

Four behaviours of the model rest on code that is not in the tree, so
they are recorded here and as hazards, and no run states them.

* **A stale token ends `Close` early.** `Connect`; the peer breaks the
  connection and the reader leaves its token in `readerClosing`, where
  nobody waits for it; `Connect` again; `Close` closes the connection and
  takes the old token at `client.go:173` while the second reader is still
  running. `Close` has returned and a reader of the client still sets its
  status and fails its requests.
* **The reconnector connects a closed client.** The reconnector holds no
  lock of the API, so `Close` cannot wait for it and only deactivates
  autoconnect (`client.go:153`). If the reconnector tests the mode before
  every attempt, as the model assumes, it stops after the attempt it is in;
  that attempt can still succeed. The reconnector tests
  `autoconnect`, `Close` deactivates it and sets `Disabled`
  (`client.go:150-166`), the reconnector dials and sets `Connected`. It
  takes the reconnector to test `autoconnect` and set the status in one
  critical section with `Close` to exclude this; `Close` takes `apiLock`,
  which the reconnector cannot.
* **A socket that stays connected.** After an exit of `Read` that does not
  close the socket (`socket.go:131-152`) the reader ends and the client is
  `Disconnected` with a socket that says connected: `Dial` fails with
  "already connected" until something closes the socket, and `Close` does
  so only for a client whose status is `Connected`. Whether `connect()`
  closes the socket before it dials is not in the tree.
* **`Server.CloseSession` closes another session than the one asked for.**
  The loop of `server.go:147-157` calls `connection.CloseSession` on the
  connections the key had when the call began. A connection that has
  closed that session and created another in the meantime has the new one
  closed, if `connection.CloseSession` closes whatever session the
  connection has, as the model assumes; the registry and the client stay
  consistent through it.

## 7. Not modelled

* `Run`, `Address` and `AddressURL` of the server: `Run` hands the
  listener to the HTTP library and returns what `Serve` returns, which is
  the library's business (`httpUp` is what the model keeps of it); the
  other two read a field that is set once. The construction of server and
  client, options and their defaults (`hooks.go`): sequential code that
  runs before any concurrency.
* `Wire`, client and server joined by channels of frames. Each side is
  checked against a peer that may do anything: `Server` reads any frame of
  any kind in any order from a connection (`Receive`) and loses the client
  at any time; `Client` is sent any reply to a request it wrote, or none,
  and loses the connection at any time. The behaviours of the two joined
  are among those of each alone, so the invariants and action properties
  checked here hold of the composition as well. What the composition would
  add is the client's side of the sessions, whose code is not in the tree.
* On the client: sessions (`Session`, `SessionInfo`, `RestoreSession`,
  `CloseSession`), `Signal` and the hooks: everything that writes the
  session of the client is outside the tree, and `Session` and
  `SessionInfo` only copy it under `sessionLock`. Of the heartbeat the
  model keeps the one effect that changes state, closing the connection.
  The socket inside `Client` has `Dial`, `Close`, `Read` and the writer as
  single steps with `readLock` and `writeLock`; `sock.lock` and the steps
  inside each call are in `Socket`.
* The encoders of the codec other than the two in the tree, and the parser
  beyond what the round trip of those two needs.
* In `Server` and `Socket`: payloads, identifiers, names, user agent,
  logging, HTTP details of the upgrade, data their properties do not tell
  apart.
* The session manager and the key generator behind the hooks: a lookup may
  find a key or not, a generated key is one no session is registered under.
* Examples, benchmarks and tests. The chat hook of `examples/` is written
  against an earlier interface of the library (the message in a context, a
  public `Session` field read without a lock) and calls `broadcastMessage`,
  which is not in the tree. The tests are read as statements of intent.
