------------------------------ MODULE Catalogue ------------------------------
(***************************************************************************)
(* The products table and the merchant's writes: POST, PATCH and DELETE    *)
(* /products, one action per transaction step.  A write reads its row,     *)
(* checks it and then UPDATEs the columns that differ from what was read;  *)
(* nothing is locked in between.                                           *)
(*                                                                         *)
(* Requests are used once, each for any operation.  Cart and Reviews       *)
(* extend this module, Storefront puts them together.                      *)
(***************************************************************************)
EXTENDS Integers, FiniteSets

CONSTANTS Products,      \* ids, those not created yet included; 0 is no product
          Customers,
          Requests,
          Shelved,       \* the contents of the products table to start from
          ProductForms,  \* bodies of POST and PATCH /products
          MaxInFlight,   \* how many requests may be under way at once
          Keep,          \* a field the body leaves out
          NoRow,         \* no row
          Nobody         \* no customer

ProductRow == [active : BOOLEAN, deleted : BOOLEAN, stock : Nat]
ProductForm == [active : BOOLEAN \cup {Keep}, stock : Nat \cup {Keep}]

ASSUME ProductsAssumption == Products \subseteq Nat \ {0} /\ IsFiniteSet(Products)
ASSUME ShelvedAssumption  == Shelved \subseteq [Products -> ProductRow \cup {NoRow}]
ASSUME FormsAssumption    == ProductForms \subseteq ProductForm
ASSUME NothingAssumption  == NoRow \notin ProductRow /\ Nobody \notin Customers
ASSUME FlightAssumption   == IsFiniteSet(Requests) /\ MaxInFlight \in Nat

VARIABLES
  product,  \* product[p]: the row of p
  pc,       \* where the handler of r stands
  who,      \* the customer r acts for
  item,     \* the product r is about
  form,     \* the body of r
  seen      \* the product row as r has read it

localVars == <<who, item, form, seen>>

Visible(p) == product[p] # NoRow /\ product[p].active /\ ~product[p].deleted

NoForm == [active |-> Keep, stock |-> Keep]

EditPoints == {"edit", "withdraw"}
Ended == {"done", "refused", "failed", "crashed", "listed"}
Busy == {r \in Requests : pc[r] \notin Ended \cup {"idle"}}
MayBegin(r) == pc[r] = "idle" /\ Cardinality(Busy) < MaxInFlight

Goto(r, to) == pc' = [pc EXCEPT ![r] = to]

\* The answer: the request ends, and what it had in memory is gone.
Answer(r, how) ==
  /\ Goto(r, how)
  /\ who' = [who EXCEPT ![r] = Nobody]
  /\ item' = [item EXCEPT ![r] = 0]
  /\ form' = [form EXCEPT ![r] = NoForm]
  /\ seen' = [seen EXCEPT ![r] = NoRow]

Proceed(r, to) == Goto(r, to) /\ UNCHANGED localVars

CatalogueTypeOK ==
  /\ product \in [Products -> ProductRow \cup {NoRow}]
  /\ who \in [Requests -> Customers \cup {Nobody}]
  /\ item \in [Requests -> Products \cup {0}]
  /\ form \in [Requests -> ProductForm]
  /\ seen \in [Requests -> ProductRow \cup {NoRow}]

CatalogueInit ==
  /\ product \in Shelved
  /\ pc = [r \in Requests |-> "idle"]
  /\ who = [r \in Requests |-> Nobody]
  /\ item = [r \in Requests |-> 0]
  /\ form = [r \in Requests |-> NoForm]
  /\ seen = [r \in Requests |-> NoRow]

-----------------------------------------------------------------------------
\* create_product: the INSERT, under an id nobody has seen.
CreateProduct(r, p, f) ==
  /\ MayBegin(r)
  /\ product[p] = NoRow
  /\ Keep \notin {f.active, f.stock}
  /\ product' = [product EXCEPT ![p] = [active |-> f.active, deleted |-> FALSE,
                                        stock |-> f.stock]]
  /\ Proceed(r, "done")

\* _load_owned for a PATCH or a DELETE.  A row that is missing or deleted is a 404,
\* and somebody else's a 403: neither changes anything.
LoadOwned(r, p, f, to) ==
  /\ MayBegin(r)
  /\ product[p] # NoRow /\ ~product[p].deleted
  /\ item' = [item EXCEPT ![r] = p]
  /\ form' = [form EXCEPT ![r] = f]
  /\ seen' = [seen EXCEPT ![r] = product[p]]
  /\ Goto(r, to)
  /\ UNCHANGED <<product, who>>

ColumnUnset(asked, loaded, now) == asked  \* Mutant: fields left out are assigned too

Column(asked, loaded, now) == IF asked \in {Keep, loaded} THEN now ELSE asked

\* update_product: the UPDATE names the columns that the body changes.
CommitEditWhole(r) ==  \* Mutant: the whole row is written back as it was loaded
  /\ pc[r] = "edit"
  /\ product' = [product EXCEPT ![item[r]] =
       [active  |-> Column(form[r].active, seen[r].active, seen[r].active),
        deleted |-> seen[r].deleted,
        stock   |-> Column(form[r].stock, seen[r].stock, seen[r].stock)]]
  /\ Answer(r, "done")

CommitEdit(r) ==
  /\ pc[r] = "edit"
  /\ product' = [product EXCEPT
       ![item[r]].active = Column(form[r].active, seen[r].active, @),
       ![item[r]].stock  = Column(form[r].stock, seen[r].stock, @)]
  /\ Answer(r, "done")

\* soft_delete_product: the UPDATE of deleted_at.
CommitWithdrawal(r) ==
  /\ pc[r] = "withdraw"
  /\ product' = [product EXCEPT ![item[r]].deleted = TRUE]
  /\ Answer(r, "done")

CatalogueBegin(r) ==
  \E p \in Products :
    \/ \E f \in ProductForms : CreateProduct(r, p, f) \/ LoadOwned(r, p, f, "edit")
    \/ LoadOwned(r, p, NoForm, "withdraw")

CatalogueStep(r) == CommitEdit(r) \/ CommitWithdrawal(r)

\* A product that was deleted stays so, whatever PATCH had read it before the DELETE
\* committed (update_product, soft_delete_product).
DeletedStaysDeleted ==
  [][\A p \in Products :
       product[p] # NoRow /\ product[p].deleted =>
         product'[p] # NoRow /\ product'[p].deleted]_product
=============================================================================
