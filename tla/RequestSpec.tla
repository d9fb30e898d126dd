---------------------------- MODULE RequestSpec ----------------------------
(***************************************************************************)
(* What the request manager promises to the callers of Request: a request  *)
(* is created once, stays pending until exactly one of reply, timeout,     *)
(* cancellation and connection failure resolves it, and what its caller is *)
(* given is that resolution.  There are no timers, locks or connections    *)
(* here; module Client is shown to implement this specification.           *)
(***************************************************************************)
CONSTANTS
    Ids,           \* the request identifiers
    Resolutions,   \* the ways a request can end
    NULL

VARIABLES
    state,    \* of every identifier: "unused", "pending" or its resolution
    result    \* what the caller of every request was given, NULL if nothing

vars == <<state, result>>

Waiting == {i \in Ids : state[i] = "pending"}

Init ==
    /\ state = [i \in Ids |-> "unused"]
    /\ result = [i \in Ids |-> NULL]

Create(i) ==
    /\ state[i] = "unused"
    /\ state' = [state EXCEPT ![i] = "pending"]
    /\ UNCHANGED result

\* One event resolves the requests of S, which were all waiting: a reply or
\* a timer resolves one, the loss of the connection all of them.
Resolve(S, how) ==
    /\ S # {} /\ S \subseteq Waiting
    /\ state' = [i \in Ids |-> IF i \in S THEN how ELSE state[i]]
    /\ UNCHANGED result

\* The caller is given the resolution of its request, once.
Deliver(i) ==
    /\ state[i] \in Resolutions /\ result[i] = NULL
    /\ result' = [result EXCEPT ![i] = state[i]]
    /\ UNCHANGED state

\* The caller gives up on a waiting request: resolved and delivered at once.
Abandon(i, how) ==
    /\ i \in Waiting
    /\ state' = [state EXCEPT ![i] = how]
    /\ result' = [result EXCEPT ![i] = how]

Next ==
    \/ \E i \in Ids : Create(i) \/ Deliver(i)
    \/ \E how \in Resolutions :
        \/ \E S \in SUBSET Ids : Resolve(S, how)
        \/ \E i \in Ids : Abandon(i, how)

Spec == Init /\ [][Next]_vars

=============================================================================
