------------------------- MODULE MCAttemptExecutor --------------------------
(***************************************************************************)
(* TLC instances of AttemptExecutor.                                       *)
(***************************************************************************)
EXTENDS AttemptExecutor, TLC

Symmetry == Permutations(Runners)
=============================================================================
