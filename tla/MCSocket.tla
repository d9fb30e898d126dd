------------------------------ MODULE MCSocket ------------------------------
(***************************************************************************)
(* Socket instantiated for TLC: three goroutines (enough for a reader, a   *)
(* writer and a third that closes and redials) and two dials (enough for a *)
(* connection to be replaced while a call is in flight).                   *)
(***************************************************************************)
EXTENDS Socket, TLC

\* The goroutines are interchangeable: no action tells them apart.
ThreadSymmetry == Permutations(Threads)

=============================================================================
