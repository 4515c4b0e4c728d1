--------------------------- MODULE MCJobLifecycle ---------------------------
(* JobLifecycle on small sets of jobs, requests and sheets. *)
EXTENDS JobLifecycle, TLC

\* Requests are interchangeable: no definition orders or names them.
Symmetry == Permutations(Requests)
=============================================================================
