------------------------------- MODULE MCJobs -------------------------------
(* Model values for Jobs. *)
EXTENDS Jobs, TLC

\* Workers are interchangeable, and so are keys.
Symmetry == Permutations(Workers) \cup Permutations(Keys)
=============================================================================
