---------------------------- MODULE MCChainVerify ---------------------------
(* Model values for ChainVerify. *)
EXTENDS ChainVerify, TLC

\* Calls are interchangeable.
Symmetry == Permutations(Calls)
=============================================================================
