------------------------------ MODULE MCLedger ------------------------------
(* Model values for Ledger: two callers and a few items of every kind.     *)
EXTENDS Ledger, TLC

\* Callers are interchangeable.
Symmetry == Permutations(Callers)
=============================================================================
