------------------------------ MODULE MCClient ------------------------------
(***************************************************************************)
(* Client for model checking: the callers are interchangeable.             *)
(***************************************************************************)
EXTENDS Client, TLC

CallerSymmetry == Permutations(Callers)

=============================================================================
