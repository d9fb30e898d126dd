---------------------------- MODULE ShutdownSpec ----------------------------
(***************************************************************************)
(* What graceful shutdown promises, without counters, locks or latches:    *)
(* handlers start only while the server is serving, a server that was told *)
(* to shut down drains, and it stops only when no handler is left.         *)
(***************************************************************************)
CONSTANT Tasks   \* the handlers that can run

VARIABLES
    running,   \* the handlers running
    phase      \* "serving", "draining" or "stopped"

vars == <<running, phase>>

Init == running = {} /\ phase = "serving"

Start(t) ==
    /\ phase = "serving" /\ t \notin running
    /\ running' = running \cup {t}
    /\ UNCHANGED phase

Finish(t) ==
    /\ t \in running
    /\ running' = running \ {t}
    /\ UNCHANGED phase

Drain == phase = "serving" /\ phase' = "draining" /\ UNCHANGED running

Stop ==
    /\ phase = "draining" /\ running = {}
    /\ phase' = "stopped"
    /\ UNCHANGED running

Next == Drain \/ Stop \/ \E t \in Tasks : Start(t) \/ Finish(t)

Spec == Init /\ [][Next]_vars

=============================================================================
