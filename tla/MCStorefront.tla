----------------------------- MODULE MCStorefront -----------------------------
(* Small tables and bodies for model checking Storefront. *)
EXTENDS Storefront, TLC

CONSTANTS c1, c2, v1, v2

Goods(active, stock) == [active |-> active, deleted |-> FALSE, stock |-> stock]

\* A product on sale, one that is or is not, and an id for a new one.
MCShelved ==
  {[p \in Products |-> CASE p = 2 -> Goods(TRUE, 2)
                         [] p = 3 -> Goods(on, 1)
                         [] OTHER -> NoRow] : on \in BOOLEAN}

MCProductForms == {[active |-> TRUE, stock |-> 1], [active |-> FALSE, stock |-> Keep]}

MCCarts == {[p \in Products |-> IF p = 3 THEN 1 ELSE 0]}

Opinion(c, t) == [product |-> 2, customer |-> c, created |-> t, rating |-> 1, body |-> 1]

MCReviewed ==
  {[i \in ReviewIds |-> CASE i = v1 -> Opinion(c1, 0) [] i = v2 -> Opinion(c2, 1)
                          [] OTHER -> NoRow]}

MCReviewForms == {[rating |-> 1, body |-> Keep]}

Symmetry == Permutations(Requests)
=============================================================================
