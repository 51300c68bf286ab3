---------------------------- MODULE MCLifecycle ----------------------------
(* Lifecycle and Fixtures with two objects of each kind. *)
EXTENDS Fixtures, TLC

Symmetry == Permutations(Namespaces) \cup Permutations(Qpairs)
                \cup Permutations(Addrs) \cup Permutations(Pcies)
=============================================================================
