------------------------------ MODULE Inventory ------------------------------
(***************************************************************************)
(* What the shop promises about stock, with no locks and no partial reads: *)
(* a sale happens in one step against the rows as they are at that moment, *)
(* a sale that is voided gives its units back once, and a merchant may     *)
(* overwrite a row.  Checkout and OrderLifecycle implement it.             *)
(***************************************************************************)
EXTENDS Naturals

CONSTANTS Products,
          Quantities,    \* units a line of a sale may hold, 0 for no line
          Sales,         \* identities of the sales that may happen
          NoSale         \* the value of a sale that has not happened

VARIABLES stock,         \* stock[p]: units on the shelf
          price,         \* price[p]: asking price
          shelf,         \* shelf[p]: "active", "inactive" or "deleted"
          sale           \* sale[s]: NoSale or [qty, unit, live]

inventoryVars == <<stock, price, shelf, sale>>

Shelves == {"active", "inactive", "deleted"}

Init == /\ stock \in [Products -> Nat]
        /\ price \in [Products -> Nat]
        /\ shelf \in [Products -> Shelves]
        /\ sale \in [Sales -> {NoSale} \cup
                              [qty : [Products -> Quantities],
                               unit : [Products -> Nat],
                               live : BOOLEAN]]

\* Every line is on sale and in stock now, and is charged its price of now.
Sell(s, qty) ==
  /\ sale[s] = NoSale
  /\ \E p \in Products : qty[p] > 0
  /\ \A p \in Products : qty[p] > 0 => shelf[p] = "active" /\ qty[p] <= stock[p]
  /\ stock' = [p \in Products |-> stock[p] - qty[p]]
  /\ sale' = [sale EXCEPT ![s] =
                [qty  |-> qty,
                 unit |-> [p \in Products |-> IF qty[p] > 0 THEN price[p] ELSE 0],
                 live |-> TRUE]]
  /\ UNCHANGED <<price, shelf>>

\* A live sale is voided and its units go back, in one step and never again.
Void(s) ==
  /\ sale[s] # NoSale
  /\ sale[s].live
  /\ stock' = [p \in Products |-> stock[p] + sale[s].qty[p]]
  /\ sale' = [sale EXCEPT ![s] = [qty |-> @.qty, unit |-> @.unit, live |-> FALSE]]
  /\ UNCHANGED <<price, shelf>>

\* The merchant overwrites one row; a deleted product stays deleted.
Overwrite(p) ==
  /\ shelf[p] # "deleted"
  /\ <<stock'[p], price'[p], shelf'[p]>> \in Nat \X Nat \X Shelves
  /\ stock' = [stock EXCEPT ![p] = stock'[p]]
  /\ price' = [price EXCEPT ![p] = price'[p]]
  /\ shelf' = [shelf EXCEPT ![p] = shelf'[p]]
  /\ UNCHANGED sale

Next == \/ \E s \in Sales, qty \in [Products -> Quantities] : Sell(s, qty)
        \/ \E s \in Sales : Void(s)
        \/ \E p \in Products : Overwrite(p)

Spec == Init /\ [][Next]_inventoryVars
=============================================================================
