------------------------------- MODULE Socket -------------------------------
(***************************************************************************)
(* The websocket-backed transport socket of                                *)
(* transport/fasthttp/socket.go, shared by the goroutines of one peer.     *)
(*                                                                         *)
(* Three mutexes guard it: `lock' guards the connected flag and the        *)
(* connection pointer, `readLock' and `writeLock' serialize whole frame    *)
(* reads and whole frame emissions.  A thread is a goroutine that calls    *)
(* the socket's methods; every step below is one critical section or one   *)
(* blocking call of a method, so that every interleaving the mutexes allow *)
(* is explored.  A goroutine that has called a method and waits for its    *)
(* first mutex stands at a step of its own: it is inside the socket, and   *)
(* whether it ever gets the mutex is a question the model can ask.         *)
(*                                                                         *)
(* Data: a websocket connection is its generation number (the n-th         *)
(* successful Dial), 0 is the nil pointer.  Frames carry no content here;  *)
(* what is written into a frame is the business of module MsgWriter.       *)
(***************************************************************************)
EXTENDS Naturals, FiniteSets

CONSTANTS
  Threads,   \* the goroutines using the socket
  MaxDials,  \* bound on the number of successful dials (model bound)
  NULL       \* "no holder" of a mutex

ASSUME MaxDials \in Nat \ {0}
ASSUME NULL \notin Threads

VARIABLES
  connected,  \* sock.connected
  conn,       \* sock.conn: 0 is nil, g > 0 the g-th dialed connection
  closed,     \* connections closed by this side (websocket.Conn.Close)
  broken,     \* connections the peer or the network has torn down
  lock,       \* holder of sock.lock
  readLock,   \* holder of sock.readLock
  writeLock,  \* holder of sock.writeLock
  pc,         \* pc[t]: the method step thread t is at
  using       \* using[t]: the connection t's NextReader or frame writer works on

net  == <<connected, conn, closed, broken>>
vars == <<net, lock, readLock, writeLock, pc, using>>

Conns == 1..MaxDials

\* The steps at which a goroutine holds writeLock, or readLock, by right.
InWrite == {"w_check", "w_next", "writing"}
InRead  == {"r_check", "r_begin", "r_wait", "r_fail"}
\* The steps at which it waits for the first mutex of Dial, Close,
\* GetWriter and Read.
Entries == {"d_lock", "c_lock", "w_lock", "r_lock"}
Steps   == {"idle", "dialing"} \cup Entries \cup InWrite \cup InRead

\* A connection on which reads and writes fail.
Dead(g) == g \in closed \cup broken

\* Thread t goes from one step of a method to the next.
Call(t, from, to) == pc[t] = from /\ pc' = [pc EXCEPT ![t] = to]

\* Thread t starts or stops working on a connection.
Use(t, g) == using' = [using EXCEPT ![t] = g]

-----------------------------------------------------------------------------
(***************************************************************************)
(* Construction.  NewSocket makes a disconnected client socket without a   *)
(* connection; NewConnectedSocket wraps an accepted connection and is      *)
(* connected iff that connection is not nil.                               *)
(***************************************************************************)
NewSocket == conn = 0 /\ connected = FALSE

NewConnectedSocket == conn \in {0, 1} /\ connected = (conn # 0)

Init ==
  /\ NewSocket \/ NewConnectedSocket
  /\ closed = {} /\ broken = {}
  /\ lock = NULL /\ readLock = NULL /\ writeLock = NULL
  /\ pc = [t \in Threads |-> "idle"]
  /\ using = [t \in Threads |-> 0]

\* IsConnected reads the flag under sock.lock: it waits while a dial holds it.
IsConnected == connected

\* RemoteAddr: the address of the current connection, nil when disconnected.
RemoteAddr == IF connected THEN conn ELSE 0

CanLock == lock = NULL

\* A goroutine calls a method and arrives at the Lock() of its first line.
Enters(t, entry) ==
  /\ Call(t, "idle", entry)
  /\ UNCHANGED <<net, lock, readLock, writeLock, using>>

-----------------------------------------------------------------------------
(***************************************************************************)
(* Dial.  The mutex is held over the whole network dial; a socket that is  *)
(* already connected returns an error and changes nothing.                 *)
(***************************************************************************)
Dial_Enter(t) == Enters(t, "d_lock")

Dial_Begin(t) ==
  /\ CanLock
  /\ \/ connected /\ Call(t, "d_lock", "idle") /\ UNCHANGED lock
     \/ ~connected /\ Call(t, "d_lock", "dialing") /\ lock' = t
  /\ UNCHANGED <<net, readLock, writeLock, using>>

Dial_Fail_KeepsLock(t) ==
  /\ Call(t, "dialing", "idle")
  /\ UNCHANGED <<net, lock, readLock, writeLock, using>>

Dial_Fail(t) ==
  /\ Call(t, "dialing", "idle")
  /\ lock' = NULL
  /\ UNCHANGED <<net, readLock, writeLock, using>>

Dial_Ok(t) ==
  /\ Call(t, "dialing", "idle") /\ conn < MaxDials
  /\ conn' = conn + 1 /\ connected' = TRUE /\ lock' = NULL
  /\ UNCHANGED <<closed, broken, readLock, writeLock, using>>

(***************************************************************************)
(* Close.  Closes the connection the socket points at now and clears the   *)
(* flag; on a disconnected socket it does nothing.                         *)
(***************************************************************************)
CloseConn_Unguarded == closed' = closed \cup {conn} /\ connected' = FALSE

CloseConn ==
  /\ closed' = IF connected THEN closed \cup {conn} ELSE closed
  /\ connected' = FALSE

Close_Enter(t) == Enters(t, "c_lock")

Close(t) ==
  /\ Call(t, "c_lock", "idle") /\ CanLock
  /\ CloseConn
  /\ UNCHANGED <<conn, broken, lock, readLock, writeLock, using>>

-----------------------------------------------------------------------------
(***************************************************************************)
(* GetWriter and the writer it returns.  The write mutex is taken first    *)
(* and is meant to stay held until the returned writer is closed.          *)
(***************************************************************************)
GetWriter_Enter(t) == Enters(t, "w_lock")

GetWriter_Lock_NoMutex(t) ==
  /\ Call(t, "w_lock", "w_check")
  /\ writeLock' = t
  /\ UNCHANGED <<net, lock, readLock, using>>

GetWriter_Lock(t) ==
  /\ Call(t, "w_lock", "w_check") /\ writeLock = NULL
  /\ writeLock' = t
  /\ UNCHANGED <<net, lock, readLock, using>>

GetWriter_Check_Unchecked(t) ==
  /\ Call(t, "w_check", "w_next") /\ CanLock
  /\ UNCHANGED <<net, lock, readLock, writeLock, using>>

\* On a disconnected socket the method returns its error with the write
\* mutex still held: no Unlock precedes that return.
GetWriter_Check(t) ==
  /\ Call(t, "w_check", IF IsConnected THEN "w_next" ELSE "idle") /\ CanLock
  /\ UNCHANGED <<net, lock, readLock, writeLock, using>>

\* NextWriter on the connection read from sock.conn: it fails on a closed
\* connection, and may fail or not on one the peer has torn down.
GetWriter_NextWriter(t) ==
  /\ \/ conn \notin closed /\ Call(t, "w_next", "writing") /\ Use(t, conn)
                           /\ UNCHANGED writeLock
     \/ Dead(conn) /\ Call(t, "w_next", "idle") /\ writeLock' = NULL
                   /\ UNCHANGED using
  /\ UNCHANGED <<net, lock, readLock>>

\* fasthttpWriteCloser.Close: closes the frame and runs onClose, the unlock.
Writer_Close(t) ==
  /\ Call(t, "writing", "idle")
  /\ writeLock' = NULL /\ Use(t, 0)
  /\ UNCHANGED <<net, lock, readLock>>

-----------------------------------------------------------------------------
(***************************************************************************)
(* Read.  One frame is read under the read mutex.  NextReader blocks until *)
(* a frame arrives, the deadline passes or the connection fails; on        *)
(* failure the socket closes itself before returning.                      *)
(***************************************************************************)
Read_Enter(t) == Enters(t, "r_lock")

Read_Lock(t) ==
  /\ Call(t, "r_lock", "r_check") /\ readLock = NULL
  /\ readLock' = t
  /\ UNCHANGED <<net, lock, writeLock, using>>

\* As in GetWriter, the disconnected return leaves the read mutex held.
Read_Check(t) ==
  /\ Call(t, "r_check", IF IsConnected THEN "r_begin" ELSE "idle") /\ CanLock
  /\ UNCHANGED <<net, lock, readLock, writeLock, using>>

\* SetReadDeadline fails on a connection closed by this side; otherwise
\* NextReader is entered on the connection sock.conn points at.
Read_SetDeadline(t) ==
  /\ \/ conn \notin closed /\ Call(t, "r_begin", "r_wait") /\ Use(t, conn)
                           /\ UNCHANGED readLock
     \/ conn \in closed /\ Call(t, "r_begin", "idle") /\ readLock' = NULL
                        /\ UNCHANGED using
  /\ UNCHANGED <<net, lock, writeLock>>

\* A frame arrived.  Whatever becomes of it (deadline reset failing, a
\* non-binary frame discarded, a parse error, a good message) the read
\* mutex is released and the method returns.
Read_Frame(t) ==
  /\ Call(t, "r_wait", "idle") /\ ~Dead(using[t])
  /\ readLock' = NULL /\ Use(t, 0)
  /\ UNCHANGED <<net, lock, writeLock>>

\* NextReader returned an error: the connection failed or the read
\* deadline passed (the deadline may pass at any time).
Read_Error(t) ==
  Call(t, "r_wait", "r_fail") /\ UNCHANGED <<net, lock, readLock, writeLock, using>>

\* sock.Close() of the error path, then the unlock and the return.
Read_CloseAfterError(t) ==
  /\ Call(t, "r_fail", "idle") /\ CanLock
  /\ CloseConn
  /\ readLock' = NULL /\ Use(t, 0)
  /\ UNCHANGED <<conn, broken, lock, writeLock>>

-----------------------------------------------------------------------------
\* The peer or the network tears the current connection down; the socket
\* still believes it is connected until a read notices.
PeerBreak ==
  /\ connected /\ ~Dead(conn)
  /\ broken' = broken \cup {conn}
  /\ UNCHANGED <<connected, conn, closed, lock, readLock, writeLock, pc, using>>

Next ==
  \/ \E t \in Threads :
       \/ Dial_Enter(t) \/ Dial_Begin(t) \/ Dial_Fail(t) \/ Dial_Ok(t)
       \/ Close_Enter(t) \/ Close(t)
       \/ GetWriter_Enter(t) \/ GetWriter_Lock(t) \/ GetWriter_Check(t)
       \/ GetWriter_NextWriter(t) \/ Writer_Close(t)
       \/ Read_Enter(t) \/ Read_Lock(t) \/ Read_Check(t) \/ Read_SetDeadline(t)
       \/ Read_Frame(t) \/ Read_Error(t) \/ Read_CloseAfterError(t)
  \/ PeerBreak

Spec == Init /\ [][Next]_vars

\* A goroutine inside a method of the socket goes on when it can: the dial
\* ends, by its timeout if by nothing else, and each of the three mutexes
\* is handed to a goroutine that keeps asking for it.  Nothing is assumed
\* of the callers (when they call, when they close a writer) nor of the
\* peer (whether a frame ever arrives).
Fairness ==
  \A t \in Threads :
    /\ WF_vars(Dial_Fail(t) \/ Dial_Ok(t)
               \/ GetWriter_NextWriter(t) \/ Read_SetDeadline(t))
    /\ SF_vars(Dial_Begin(t) \/ Close(t) \/ GetWriter_Lock(t) \/ Read_Lock(t)
               \/ GetWriter_Check(t) \/ Read_Check(t) \/ Read_CloseAfterError(t))

FairSpec == Spec /\ Fairness

-----------------------------------------------------------------------------
TypeOK ==
  /\ connected \in BOOLEAN /\ conn \in 0..MaxDials
  /\ closed \subseteq Conns /\ broken \subseteq Conns
  /\ {lock, readLock, writeLock} \subseteq Threads \cup {NULL}
  /\ pc \in [Threads -> Steps]
  /\ using \in [Threads -> 0..MaxDials]

(***************************************************************************)
(* Frames are never interleaved: at most one goroutine is inside a frame   *)
(* emission (between GetWriter and the writer's Close) and at most one is  *)
(* inside a frame read, whatever the order of dials, closes and failures.  *)
(* This is what writeLock and readLock in socket.go are for.               *)
(***************************************************************************)
ExclusiveFrameAccess ==
  \A t1, t2 \in Threads :
    t1 # t2 => /\ ~(pc[t1] \in InWrite /\ pc[t2] \in InWrite)
               /\ ~(pc[t1] \in InRead /\ pc[t2] \in InRead)

(***************************************************************************)
(* sock.conn is nil on a socket that was never dialed.  NextWriter and     *)
(* SetReadDeadline dereference it without holding sock.lock, relying on    *)
(* the IsConnected check made one critical section earlier; the check must *)
(* still be good when the pointer is used, even if Close and Dial ran in   *)
(* between.                                                                *)
(***************************************************************************)
NeverUsesNilConn ==
  \A t \in Threads : pc[t] \in {"w_next", "r_begin"} => conn # 0

(***************************************************************************)
(* The read and write mutexes are scoped to one call: a goroutine that     *)
(* holds one is inside GetWriter, owns an open frame writer, or is inside  *)
(* Read.  The writer's onClose in GetWriter ("Unlock the writer lock on    *)
(* writer closure") and every other error return of both methods release   *)
(* the mutex; the returns taken when the socket is not connected do not.   *)
(***************************************************************************)
LocksScopedToCalls ==
  /\ writeLock # NULL => pc[writeLock] \in InWrite
  /\ readLock # NULL => pc[readLock] \in InRead

\* A mutex is held by a goroutine that has returned from the call that
\* locked it.  Nothing unlocks it again.
LeftLocked == ~LocksScopedToCalls

\* Goroutine t waits for a mutex whose holder waits for something no
\* fairness covers: writeLock while a caller keeps its writer open, readLock
\* while NextReader waits for a frame.
HeldOff(t) ==
  \/ pc[t] = "w_lock" /\ \E u \in Threads : pc[u] = "writing"
  \/ pc[t] = "r_lock" /\ \E u \in Threads : pc[u] = "r_wait"

(***************************************************************************)
(* No goroutine is stuck inside the socket.  The three mutexes are taken   *)
(* in more than one order: GetWriter and Read take sock.lock while they    *)
(* hold writeLock or readLock, Dial holds sock.lock over the whole network *)
(* dial, and the error path of Read calls Close, which takes sock.lock     *)
(* again.  A goroutine that has called Dial, Close, GetWriter or Read,     *)
(* whether it waits for the first mutex of the method or is past it,       *)
(* returns (or has its writer, or waits for its frame), with two           *)
(* exceptions: it waits for a mutex that another goroutine rightly keeps,  *)
(* or a mutex was left locked by the disconnected return of GetWriter or   *)
(* Read, after which every call of that method waits forever.              *)
(***************************************************************************)
NoCallStuckInSocket ==
  LET Inside == Steps \ {"idle", "writing", "r_wait"}
  IN  \A t \in Threads :
        (pc[t] \in Inside) ~> (pc[t] \notin Inside \/ HeldOff(t) \/ LeftLocked)

=============================================================================
