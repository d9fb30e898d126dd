------------------------------ MODULE MCServer ------------------------------
(***************************************************************************)
(* Server instantiated for TLC.  Connections and keys are model values and *)
(* interchangeable, so a run that checks invariants only may identify      *)
(* states that differ by a permutation of either.                          *)
(***************************************************************************)
EXTENDS Server, TLC

ConnKeySymmetry == Permutations(Conns) \cup Permutations(Keys)

=============================================================================
