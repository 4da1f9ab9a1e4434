-------------------------- MODULE MCOrderLifecycle --------------------------
(* Small instances of OrderLifecycle for TLC. *)
EXTENDS OrderLifecycle, TLC

\* Orders, products, requests and events are interchangeable; no liveness
\* property is checked in the runs that use the symmetry.
Symmetry == Permutations(Products) \cup Permutations(Requests)
              \cup Permutations(Orders) \cup Permutations(Events)
=============================================================================
