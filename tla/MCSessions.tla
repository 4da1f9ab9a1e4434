----------------------------- MODULE MCSessions -----------------------------
(* Small tables, bodies and a symmetry set for model checking Sessions. *)
EXTENDS Sessions, TLC

CONSTANTS u1, u2, u3, e1, e2, e3

Body(e, ro, a) == [email |-> e, role |-> ro, active |-> a]
Row(e, ro, a) == [email |-> e, role |-> ro, active |-> a]

\* Two admins and an id for a new account.
MCTables ==
  {[u \in Users |-> CASE u = u1 -> Row(e1, "admin", TRUE)
                      [] u = u2 -> Row(e2, "admin", TRUE)
                      [] OTHER -> NoUser]}

MCRegistrations == {Body(e3, "customer", Keep)}

\* A demotion, and a deactivation that also changes the address.
MCPatches == {Body(Keep, "customer", Keep), Body(e3, Keep, FALSE)}

\* The two admins are alike, each with an address of its own.
Symmetry == Permutations(Edits) \cup Permutations(Requests \ Edits)
  \cup {u1 :> u2 @@ u2 :> u1 @@ e1 :> e2 @@ e2 :> e1}
=============================================================================
