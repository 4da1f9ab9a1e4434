----------------------------- MODULE MCCheckout -----------------------------
(* Small instances of Checkout for TLC. *)
EXTENDS Checkout, TLC

\* Products and requests are interchangeable; no liveness property is checked
\* in the runs that use the symmetry.
Symmetry == Permutations(Products) \cup Permutations(Requests) \cup Permutations(Customers)
=============================================================================
