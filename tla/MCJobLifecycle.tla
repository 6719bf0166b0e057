---------------------------- MODULE MCJobLifecycle ----------------------------
(* Instances of JobLifecycle for TLC. *)
EXTENDS JobLifecycle, TLC

\* No definition orders jobs or staff handlers.
Symmetry == Permutations(Jobs) \cup Permutations(Staff)
===============================================================================
