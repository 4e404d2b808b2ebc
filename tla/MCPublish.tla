----------------------------- MODULE MCPublish ------------------------------
(***************************************************************************)
(* TLC instances of Publish.  No symmetry: the first owner is one of the   *)
(* runners, and a liveness property is checked.                            *)
(***************************************************************************)
EXTENDS Publish
=============================================================================
