----------------------------- MODULE MCDashboard -----------------------------
(* Dashboard on two pages of one tab, one session and a few connections. *)
EXTENDS Dashboard, TLC

\* Pages, connections and requests are interchangeable.
Symmetry == Permutations(Circuits) \cup Permutations(Connections) \cup Permutations(Requests)
=============================================================================
