---------------------------- MODULE MCForeignSync ---------------------------
(* Model values for ForeignSync. *)
EXTENDS ForeignSync, TLC

\* Importers are interchangeable.
Symmetry == Permutations(Importers)
=============================================================================
