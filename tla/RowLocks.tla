------------------------------ MODULE RowLocks ------------------------------
(***************************************************************************)
(* The row locks PostgreSQL grants to SELECT ... FOR UPDATE, as the order  *)
(* code uses them: order_service.checkout and order_service._restock_order *)
(* each lock a set of product rows with one statement, in whatever order   *)
(* the scan returns them (neither statement has an ORDER BY), and keep the *)
(* locks to the end of their transaction.  External to the repository:     *)
(* modelled from those two statements.                                     *)
(***************************************************************************)
EXTENDS FiniteSets

CONSTANTS Products,      \* rows of table products
          Requests,      \* HTTP requests, one database transaction each
          Nobody         \* the holder of a free row

ASSUME NobodyAssumption == Nobody \notin Requests

VARIABLES locker,        \* locker[p]: the request whose transaction holds row p
          todo           \* todo[r]: rows the statement of r still has to lock

LocksTypeOK == /\ locker \in [Products -> Requests \cup {Nobody}]
               /\ todo \in [Requests -> SUBSET Products]

LocksInit == /\ locker = [p \in Products |-> Nobody]
             /\ todo = [r \in Requests |-> {}]

Free(p) == locker[p] = Nobody

HeldBy(r) == {p \in Products : locker[p] = r}

\* Mutant: a SELECT without FOR UPDATE, which waits for nobody.
TakeShared(r, p) == /\ p \in todo[r]
                    /\ locker' = [locker EXCEPT ![p] = r]
                    /\ todo' = [todo EXCEPT ![r] = @ \ {p}]

\* The statement of r takes row p and goes on to the next row.
Take(r, p) == /\ p \in todo[r]
              /\ Free(p)
              /\ locker' = [locker EXCEPT ![p] = r]
              /\ todo' = [todo EXCEPT ![r] = @ \ {p}]

\* The row no longer satisfies the WHERE clause when its turn comes.
Skip(r, p) == /\ p \in todo[r]
              /\ Free(p)
              /\ todo' = [todo EXCEPT ![r] = @ \ {p}]
              /\ UNCHANGED locker

\* Mutant: the session is not closed, and its transaction stays open.
EndTransactionLeaking(r) == /\ UNCHANGED locker
                            /\ todo' = [todo EXCEPT ![r] = {}]

\* Commit and rollback both give every row of the transaction back.
EndTransaction(r) ==
  /\ locker' = [p \in Products |-> IF locker[p] = r THEN Nobody ELSE locker[p]]
  /\ todo' = [todo EXCEPT ![r] = {}]

\* r waits in a cycle: every row it still needs is held by a transaction that
\* waits in the same way.  PostgreSQL aborts a member of such a cycle.
Deadlocked(r) ==
  \E S \in SUBSET Requests :
    /\ r \in S
    /\ \A s \in S : /\ todo[s] # {}
                    /\ \A p \in todo[s] : locker[p] \in S \ {s}
=============================================================================
