------------------------------ MODULE MCReports ------------------------------
(* Small orders and coupons for model checking Reports. *)
EXTENDS Reports, TLC

CONSTANTS o1, o2, m1, m2

MCWindows == [o \in Orders |-> IF o = o1 THEN "w7" ELSE "w90"]
MCLines == [o \in Orders |-> [m \in Merchants |-> IF o = o1 THEN (IF m = m1 THEN 3 ELSE 2)
                                                  ELSE (IF m = m1 THEN 4 ELSE 0)]]
\* Half off, which rounds, and more off than any order is worth.
MCCoupons == {[percent |-> TRUE, value |-> 5000], [percent |-> FALSE, value |-> 6]}
MCStarts == {[o \in Orders |-> IF o = o1 THEN "none" ELSE s] : s \in {"open", "delivered"}}

Symmetry == Permutations(Requests)
=============================================================================
