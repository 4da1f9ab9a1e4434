--------------------------- MODULE CheckoutProofs ---------------------------
(***************************************************************************)
(* Theorems about Checkout, for every number of products, requests and     *)
(* customers and every fault.  The inductive invariant IInv says what a    *)
(* request may rely on at each point of the handler; it is needed because  *)
(* neither TypeOK nor RowsPinned is inductive alone: that stock stays a    *)
(* natural number at a commit follows from the validation, and that the    *)
(* validation still holds follows from the locks.                          *)
(***************************************************************************)
EXTENDS Checkout, TLAPS

\* Only a statement in progress has rows left to lock.
TodoWhileLocking == \A r \in Requests : todo[r] # {} => pc[r] = "locking"

\* An empty cart never gets past its refusal.
LinesKept == \A r \in Requests :
  pc[r] \in {"select"} \cup Locking => InCart(lines[r]) # {}

\* What AcceptLines established.
StillPurchasable == \A r \in Requests :
  pc[r] \in {"coupon", "overflow", "insert"} => Purchasable(r)

\* A request has no order before its commit.
NoOrderYet == \A r \in Requests :
  pc[r] \in {"idle", "select"} \cup Locking => orders[r] = NoOrder

Relied == /\ RowsPinned
          /\ TodoWhileLocking
          /\ LinesKept
          /\ StillPurchasable
          /\ NoOrderYet

IInv == TypeOK /\ Relied

-----------------------------------------------------------------------------
(* The initial states *)

LEMMA InitIInv == Init => IInv
<1> SUFFICES ASSUME Init PROVE IInv
  OBVIOUS
<1>1. TypeOK
  <2>1. stock \in [Products -> Nat] /\ price \in [Products -> Nat]
    BY RowAssumption DEF Init
  <2>2. withCoupon \in [Requests -> BOOLEAN]
    BY LimitAssumption DEF Init
  <2>3. Nothing \in [Products -> Quantities] /\ Nothing \in [Products -> Nat]
    BY QtyAssumption DEF Nothing, Quantities
  <2> QED
    BY <2>1, <2>2, <2>3 DEF Init, TypeOK, LocksInit, LocksTypeOK, Shelves
<1>2. \A r \in Requests : HeldBy(r) = {} /\ todo[r] = {} /\ pc[r] = "idle"
  BY NobodyAssumption DEF Init, LocksInit, HeldBy
<1> QED
  BY <1>1, <1>2 DEF IInv, Relied, Init, RowsPinned, TodoWhileLocking, LinesKept,
                    StillPurchasable, NoOrderYet, Locking

-----------------------------------------------------------------------------
(* Steps: first what they do to the types *)

\* The end of a transaction keeps the types of what it touches.
LEMMA FinishTypes ==
  ASSUME TypeOK, NEW r \in Requests, Finish(r)
  PROVE  /\ LocksTypeOK'
         /\ seenStock' \in [Requests -> [Products -> Nat]]
         /\ seenPrice' \in [Requests -> [Products -> Nat]]
  BY DEF TypeOK, Finish, EndTransaction, LocksTypeOK, Nothing

\* What a checkout places is an order row, which NoOrder is not.
LEMMA PlacedOrderType ==
  ASSUME TypeOK, NEW r \in Requests
  PROVE  PlacedOrder(r) \in OrderRow /\ PlacedOrder(r) # NoOrder
<1>1. \A p \in Products : lines[r][p] \in Nat /\ seenPrice[r][p] \in Nat
  BY QtyAssumption DEF TypeOK, Quantities
<1>2. PlacedOrder(r) \in OrderRow
  BY <1>1 DEF TypeOK, PlacedOrder, OrderRow
<1> QED
  BY <1>2, OrderAssumption

\* What a commit stores is an order row and a stock that is not negative.
LEMMA StoreOrderTypes ==
  ASSUME IInv, NEW r \in Requests, pc[r] = "insert", StoreOrder(r)
  PROVE  /\ orders' \in [Requests -> OrderRow \cup {NoOrder}]
         /\ stock' \in [Products -> Nat]
<1>1. \A p \in Products :
        /\ lines[r][p] \in Nat /\ seenStock[r][p] \in Nat /\ seenPrice[r][p] \in Nat
        /\ stock[p] \in Nat
        /\ lines[r][p] > 0 => lines[r][p] <= seenStock[r][p]
  BY QtyAssumption DEF IInv, Relied, TypeOK, StillPurchasable, Purchasable, InCart, Quantities
<1>2. stock' \in [Products -> Nat]
  BY <1>1 DEF StoreOrder
<1>3. PlacedOrder(r) \in OrderRow
  BY PlacedOrderType DEF IInv
<1> QED
  BY <1>2, <1>3 DEF IInv, TypeOK, StoreOrder

LEMMA TypeNext == IInv /\ [Next]_vars => TypeOK'
<1> SUFFICES ASSUME IInv, [Next]_vars PROVE TypeOK'
  OBVIOUS
<1> USE DEF IInv, TypeOK, LocksTypeOK, Goto, Underway, Locking, Ended
<1>1. ASSUME NEW r \in Requests, ReadCart(r) PROVE TypeOK'
  BY <1>1 DEF ReadCart, rowVars, redisVars, seenVars, lockVars
<1>2. ASSUME NEW r \in Requests, SelectRows(r) PROVE TypeOK'
  BY <1>2 DEF SelectRows, InCart, rowVars, redisVars, jobVars, seenVars
<1>3. ASSUME NEW r \in Requests, NEW p \in Products, LockRow(r, p) PROVE TypeOK'
  BY <1>3 DEF LockRow, Take, rowVars, redisVars, jobVars
<1>4. ASSUME NEW r \in Requests, NEW p \in Products, SkipRow(r, p) PROVE TypeOK'
  BY <1>4 DEF SkipRow, Skip, rowVars, redisVars, jobVars, seenVars
<1>5. ASSUME NEW r \in Requests, Finish(r), UNCHANGED <<rowVars, orders, redisVars,
             couponLive, jobVars, holds>>,
             pc' \in [Requests -> {"idle"} \cup Underway \cup Ended]
      PROVE  TypeOK'
  BY <1>5, FinishTypes DEF rowVars, redisVars, jobVars
<1>6. ASSUME NEW r \in Requests, AbortDeadlock(r) PROVE TypeOK'
  BY <1>5, <1>6 DEF AbortDeadlock
<1>7. ASSUME NEW r \in Requests, RefuseLines(r) PROVE TypeOK'
  BY <1>5, <1>7 DEF RefuseLines
<1>8. ASSUME NEW r \in Requests, AcceptLines(r) PROVE TypeOK'
  BY <1>8 DEF AcceptLines, rowVars, redisVars, jobVars, seenVars, lockVars
<1>9. ASSUME NEW r \in Requests, RefuseCoupon(r) PROVE TypeOK'
  BY <1>5, <1>9 DEF RefuseCoupon
<1>10. ASSUME NEW r \in Requests, ReserveUse(r) PROVE TypeOK'
  BY <1>10 DEF ReserveUse, rowVars, jobVars, seenVars, lockVars
<1>11. ASSUME NEW r \in Requests, UndoReserve(r) PROVE TypeOK'
  BY <1>11, FinishTypes DEF UndoReserve, rowVars, jobVars
<1>12. ASSUME NEW r \in Requests, Commit(r) PROVE TypeOK'
  BY <1>12, FinishTypes, StoreOrderTypes DEF Commit, redisVars, jobVars
<1>13. ASSUME NEW r \in Requests, RollBack(r) PROVE TypeOK'
  BY <1>5, <1>13 DEF RollBack
<1>14. ASSUME NEW r \in Requests, LoseCommitAck(r) PROVE TypeOK'
  BY <1>14, FinishTypes, StoreOrderTypes DEF LoseCommitAck, redisVars, jobVars
<1>15. ASSUME NEW r \in Requests, ClearCart(r) PROVE TypeOK'
  BY <1>15, QtyAssumption
     DEF ClearCart, Nothing, Quantities, rowVars, jobVars, seenVars, lockVars
<1>16. ASSUME NEW r \in Requests, OpenSession(r) PROVE TypeOK'
  BY <1>16 DEF OpenSession, rowVars, redisVars, jobVars, seenVars, lockVars
<1>17. ASSUME NEW r \in Requests, Crash(r) PROVE TypeOK'
  BY <1>5, <1>17 DEF Crash
<1>18. ASSUME NEW c \in Customers, NEW p \in Products, WriteLine(c, p) PROVE TypeOK'
  BY <1>18, QtyAssumption
     DEF WriteLine, rowVars, requestVars, jobVars, seenVars, lockVars
<1>19. ASSUME NEW c \in Customers, NEW p \in Products, DropLine(c, p) PROVE TypeOK'
  BY <1>19, QtyAssumption
     DEF DropLine, Quantities, rowVars, requestVars, jobVars, seenVars, lockVars
<1>20. ASSUME NEW p \in Products, EditProduct(p) PROVE TypeOK'
  <2>1. /\ stock' \in [Products -> Nat]
        /\ price' \in [Products -> Nat]
        /\ shelf' \in [Products -> Shelves]
    BY <1>20, RowAssumption DEF EditProduct
  <2> QED
    BY <1>20, <2>1
       DEF EditProduct, redisVars, requestVars, jobVars, seenVars, lockVars
<1>21. CASE ExpireCoupon
  BY <1>21 DEF ExpireCoupon, rowVars, redisVars, requestVars, jobVars, seenVars, lockVars
<1>22. CASE UNCHANGED vars
  BY <1>22 DEF vars, rowVars, redisVars, jobVars, seenVars, lockVars
<1> QED
  BY <1>1, <1>2, <1>3, <1>4, <1>6, <1>7, <1>8, <1>9, <1>10, <1>11, <1>12, <1>13,
     <1>14, <1>15, <1>16, <1>17, <1>18, <1>19, <1>20, <1>21, <1>22
     DEF Next, Step, Environment, AllAnswered

-----------------------------------------------------------------------------
(* Steps: then what a request relies on *)

\* A request whose transaction ends without a write disturbs no other request.
LEMMA FinishRelied ==
  ASSUME IInv, NEW r \in Requests, Finish(r), UNCHANGED <<rowVars, orders, jobVars>>,
         NEW to \in Ended, Goto(r, to)
  PROVE  Relied'
<1> USE DEF IInv, Relied, TypeOK, LocksTypeOK, Finish, EndTransaction, Goto,
            rowVars, jobVars, Locking, Ended, InCart, HeldBy
<1>1. RowsPinned'
  BY NobodyAssumption DEF RowsPinned
<1>2. TodoWhileLocking' /\ LinesKept' /\ NoOrderYet'
  BY DEF TodoWhileLocking, LinesKept, NoOrderYet
<1>3. StillPurchasable'
  BY DEF StillPurchasable, Purchasable
<1> QED
  BY <1>1, <1>2, <1>3

\* A commit changes no row that another request has locked.
LEMMA StoreOrderRelied ==
  ASSUME IInv, NEW r \in Requests, pc[r] = "insert", StoreOrder(r), Finish(r),
         UNCHANGED <<price, shelf, jobVars>>,
         NEW to \in {"committed", "failed"}, Goto(r, to)
  PROVE  Relied'
<1> USE DEF IInv, Relied, TypeOK, LocksTypeOK, Finish, EndTransaction, Goto,
            jobVars, Locking, InCart, HeldBy
<1>1. \A p \in Products : locker[p] # r => stock'[p] = stock[p]
  BY QtyAssumption DEF StoreOrder, StillPurchasable, Purchasable, Quantities
<1>2. RowsPinned'
  BY <1>1, NobodyAssumption DEF RowsPinned
<1>3. TodoWhileLocking' /\ LinesKept' /\ NoOrderYet'
  BY DEF TodoWhileLocking, LinesKept, NoOrderYet, StoreOrder
<1>4. StillPurchasable'
  BY DEF StillPurchasable, Purchasable
<1> QED
  BY <1>2, <1>3, <1>4

\* A step that leaves the rows, the locks and the reads alone and moves one
\* request to a point that relies on nothing more.
LEMMA MoveRelied ==
  ASSUME IInv, NEW r \in Requests, pc[r] \notin {"idle", "select", "locking"},
         UNCHANGED <<rowVars, orders, jobVars, seenVars, lockVars>>,
         NEW to \in Underway \cup Ended, Goto(r, to),
         pc[r] \notin Locking => to \notin {"select"} \cup Locking,
         pc[r] \in Locking => to \in {"coupon", "overflow", "insert"}
  PROVE  Relied'
<1> USE DEF IInv, Relied, TypeOK, LocksTypeOK, Goto,
            rowVars, jobVars, seenVars, lockVars, Locking, Underway, Ended, InCart, HeldBy
<1>1. RowsPinned'
  BY DEF RowsPinned
<1>2. TodoWhileLocking' /\ LinesKept' /\ NoOrderYet'
  BY DEF TodoWhileLocking, LinesKept, NoOrderYet
<1>3. StillPurchasable'
  BY DEF StillPurchasable, Purchasable
<1> QED
  BY <1>1, <1>2, <1>3

\* A step of the environment that changes no row, no lock and no request.
LEMMA OutsideRelied ==
  ASSUME IInv, UNCHANGED <<rowVars, orders, requestVars>>
  PROVE  Relied'
  BY DEF IInv, Relied, rowVars, requestVars, jobVars, seenVars, lockVars, InCart, HeldBy,
         RowsPinned, TodoWhileLocking, LinesKept, NoOrderYet, StillPurchasable, Purchasable

LEMMA ReliedNext == IInv /\ [Next]_vars => Relied'
<1> SUFFICES ASSUME IInv, [Next]_vars PROVE Relied'
  OBVIOUS
<1>1. ASSUME NEW r \in Requests, ReadCart(r) PROVE Relied'
  BY <1>1 DEF ReadCart, IInv, Relied, TypeOK, LocksTypeOK, Goto, rowVars, seenVars,
     lockVars, Locking, InCart, HeldBy, RowsPinned, TodoWhileLocking, LinesKept,
     NoOrderYet, StillPurchasable, Purchasable
<1>2. ASSUME NEW r \in Requests, SelectRows(r) PROVE Relied'
  BY <1>2 DEF SelectRows, IInv, Relied, TypeOK, LocksTypeOK, Goto, rowVars, jobVars,
     seenVars, Locking, InCart, HeldBy, RowsPinned, TodoWhileLocking, LinesKept,
     NoOrderYet, StillPurchasable, Purchasable
<1>3. ASSUME NEW r \in Requests, NEW p \in Products, LockRow(r, p) PROVE Relied'
  <2> USE <1>3 DEF LockRow, Take, Free, IInv, Relied, TypeOK, LocksTypeOK, rowVars,
                   jobVars, Locking, InCart, HeldBy
  <2>1. RowsPinned'
    BY NobodyAssumption DEF RowsPinned
  <2>2. TodoWhileLocking' /\ LinesKept' /\ NoOrderYet'
    BY DEF TodoWhileLocking, LinesKept, NoOrderYet
  <2>3. StillPurchasable'
    BY NobodyAssumption DEF StillPurchasable, Purchasable
  <2> QED
    BY <2>1, <2>2, <2>3
<1>4. ASSUME NEW r \in Requests, NEW p \in Products, SkipRow(r, p) PROVE Relied'
  BY <1>4 DEF SkipRow, Skip, IInv, Relied, TypeOK, LocksTypeOK, rowVars, jobVars,
     seenVars, Locking, InCart, HeldBy, RowsPinned, TodoWhileLocking, LinesKept,
     NoOrderYet, StillPurchasable, Purchasable
<1>5. ASSUME NEW r \in Requests, AbortDeadlock(r) PROVE Relied'
  BY <1>5, FinishRelied DEF AbortDeadlock, Ended
<1>6. ASSUME NEW r \in Requests, RefuseLines(r) PROVE Relied'
  BY <1>6, FinishRelied DEF RefuseLines, Ended
<1>7. ASSUME NEW r \in Requests, AcceptLines(r) PROVE Relied'
  BY <1>7 DEF AcceptLines, IInv, Relied, TypeOK, LocksTypeOK, Goto, rowVars, jobVars,
     seenVars, lockVars, Locking, InCart, HeldBy, RowsPinned, TodoWhileLocking,
     LinesKept, NoOrderYet, StillPurchasable, Purchasable
<1>8. ASSUME NEW r \in Requests, RefuseCoupon(r) PROVE Relied'
  BY <1>8, FinishRelied DEF RefuseCoupon, Ended
<1>9. ASSUME NEW r \in Requests, ReserveUse(r) PROVE Relied'
  BY <1>9, MoveRelied DEF ReserveUse, Locking, Underway
<1>10. ASSUME NEW r \in Requests, UndoReserve(r) PROVE Relied'
  BY <1>10, FinishRelied DEF UndoReserve, Ended
<1>11. ASSUME NEW r \in Requests, Commit(r) PROVE Relied'
  BY <1>11, StoreOrderRelied DEF Commit
<1>12. ASSUME NEW r \in Requests, RollBack(r) PROVE Relied'
  BY <1>12, FinishRelied DEF RollBack, Ended
<1>13. ASSUME NEW r \in Requests, LoseCommitAck(r) PROVE Relied'
  BY <1>13, StoreOrderRelied DEF LoseCommitAck
<1>14. ASSUME NEW r \in Requests, ClearCart(r) PROVE Relied'
  BY <1>14, MoveRelied DEF ClearCart, Locking, Underway
<1>15. ASSUME NEW r \in Requests, OpenSession(r) PROVE Relied'
  BY <1>15, MoveRelied DEF OpenSession, Locking, Ended
<1>16. ASSUME NEW r \in Requests, Crash(r) PROVE Relied'
  BY <1>16, FinishRelied DEF Crash, Ended
<1>17. ASSUME NEW p \in Products, EditProduct(p) PROVE Relied'
  <2>1. \A q \in Products : \A r \in Requests : locker[q] = r =>
          stock'[q] = stock[q] /\ price'[q] = price[q] /\ shelf'[q] = shelf[q]
    BY <1>17, NobodyAssumption DEF EditProduct, Free, IInv, TypeOK
  <2> QED
    BY <1>17, <2>1 DEF EditProduct, IInv, Relied, requestVars, jobVars, seenVars,
       lockVars, InCart, HeldBy, RowsPinned, TodoWhileLocking, LinesKept, NoOrderYet,
       StillPurchasable, Purchasable
<1>18. ASSUME NEW c \in Customers, NEW p \in Products, WriteLine(c, p) \/ DropLine(c, p)
       PROVE  Relied'
  BY <1>18, OutsideRelied DEF WriteLine, DropLine
<1>19. CASE ExpireCoupon
  BY <1>19, OutsideRelied DEF ExpireCoupon
<1>20. CASE UNCHANGED vars
  BY <1>20, OutsideRelied DEF vars, requestVars
<1> QED
  BY <1>1, <1>2, <1>3, <1>4, <1>5, <1>6, <1>7, <1>8, <1>9, <1>10, <1>11, <1>12, <1>13,
     <1>14, <1>15, <1>16, <1>17, <1>18, <1>19, <1>20
     DEF Next, Step, Environment, AllAnswered

LEMMA Invariance == Spec => []IInv
<1>1. IInv /\ [Next]_vars => IInv'
  BY TypeNext, ReliedNext DEF IInv
<1> QED
  BY InitIInv, <1>1, PTL DEF Spec

\* Every variable keeps its type; in particular stock_qty is never negative,
\* whatever checkouts, merchants and faults do (CHECK stock_qty >= 0).
THEOREM TypeCorrect == Spec => []TypeOK
  BY Invariance, PTL DEF IInv

\* A row that a checkout has locked stays as it was read.
THEOREM LockedRowsPinned == Spec => []RowsPinned
  BY Invariance, PTL DEF IInv, Relied

\* What a checkout has validated is still true when it commits.
THEOREM ValidationLasts == Spec => []ValidatedStaysTrue
<1>1. IInv => ValidatedStaysTrue
  BY DEF IInv, Relied, TypeOK, LocksTypeOK, ValidatedStaysTrue, StillPurchasable,
         Purchasable, RowsPinned, HeldBy, InCart
<1> QED
  BY Invariance, <1>1, PTL
-----------------------------------------------------------------------------
(* Checkout implements Inventory *)

SaleMap == [q \in Requests |-> Sale(q)]

\* A commit is a sale of the whole cart against the rows as they are.
LEMMA StoreOrderSells ==
  ASSUME IInv, NEW r \in Requests, pc[r] = "insert", StoreOrder(r), UNCHANGED <<price, shelf>>
  PROVE  Shop!Sell(r, lines[r])
<1>1. \A p \in Products :
        /\ lines[r][p] \in Nat /\ stock[p] \in Nat
        /\ lines[r][p] > 0 => /\ shelf[p] = "active"
                              /\ lines[r][p] <= stock[p]
                              /\ seenStock[r][p] = stock[p]
                              /\ seenPrice[r][p] = price[p]
  BY QtyAssumption DEF IInv, Relied, TypeOK, LocksTypeOK, StillPurchasable,
     Purchasable, RowsPinned, HeldBy, InCart, Quantities
<1>2. \E p \in Products : lines[r][p] > 0
  BY DEF IInv, Relied, LinesKept, Locking, InCart
<1>3. stock' = [p \in Products |-> stock[p] - lines[r][p]]
  <2>1. \A p \in Products : IF lines[r][p] > 0
                              THEN seenStock[r][p] - lines[r][p] = stock[p] - lines[r][p]
                              ELSE stock[p] = stock[p] - lines[r][p]
    BY <1>1
  <2> QED
    BY <2>1 DEF StoreOrder
<1>4. PlacedOrder(r).unit = [p \in Products |-> IF lines[r][p] > 0 THEN price[p] ELSE 0]
  BY <1>1 DEF PlacedOrder
<1>5. orders[r] = NoOrder /\ PlacedOrder(r) # NoOrder
  BY PlacedOrderType DEF IInv, Relied, NoOrderYet, Locking
<1>6. SaleMap' = [SaleMap EXCEPT ![r] = [qty |-> lines[r],
                                         unit |-> PlacedOrder(r).unit, live |-> TRUE]]
  <2>1. orders'[r] = PlacedOrder(r) /\ \A q \in Requests \ {r} : orders'[q] = orders[q]
    BY DEF IInv, TypeOK, StoreOrder
  <2>2. Sale(r)' = [qty |-> lines[r], unit |-> PlacedOrder(r).unit, live |-> TRUE]
    BY <2>1, <1>5 DEF Sale, PlacedOrder
  <2>3. \A q \in Requests \ {r} : Sale(q)' = Sale(q)
    BY <2>1 DEF Sale
  <2> QED
    BY <2>2, <2>3 DEF SaleMap
<1>7. SaleMap[r] = NoOrder
  BY <1>5 DEF SaleMap, Sale
<1> QED
  BY <1>1, <1>2, <1>3, <1>4, <1>6, <1>7 DEF Shop!Sell, SaleMap

\* Nothing the abstract shop sees.
LEMMA StutterUnlessSold ==
  ASSUME UNCHANGED <<rowVars, orders>>
  PROVE  UNCHANGED Shop!inventoryVars
  BY DEF Shop!inventoryVars, rowVars, Sale

LEMMA NextSells == IInv /\ [Next]_vars => [Shop!Next]_(Shop!inventoryVars)
<1> SUFFICES ASSUME IInv, [Next]_vars PROVE [Shop!Next]_(Shop!inventoryVars)
  OBVIOUS
<1>1. ASSUME NEW r \in Requests, Commit(r) \/ LoseCommitAck(r) PROVE Shop!Next
  <2>1. Shop!Sell(r, lines[r])
    BY <1>1, StoreOrderSells DEF Commit, LoseCommitAck
  <2>2. lines[r] \in [Products -> Quantities]
    BY DEF IInv, TypeOK
  <2> QED
    BY <2>1, <2>2 DEF Shop!Next
<1>2. ASSUME NEW p \in Products, EditProduct(p) PROVE Shop!Next
  <2>1. /\ stock'[p] \in Nat /\ price'[p] \in Nat /\ shelf'[p] \in Shelves
        /\ stock' = [stock EXCEPT ![p] = stock'[p]]
        /\ price' = [price EXCEPT ![p] = price'[p]]
        /\ shelf' = [shelf EXCEPT ![p] = shelf'[p]]
    BY <1>2, RowAssumption DEF EditProduct, IInv, TypeOK
  <2>2. SaleMap' = SaleMap
    BY <1>2 DEF EditProduct, SaleMap, Sale
  <2> QED
    BY <1>2, <2>1, <2>2 DEF EditProduct, Shop!Next, Shop!Overwrite, Shop!Shelves,
       Shelves, SaleMap
<1>3. ASSUME NEW r \in Requests, ReadCart(r) \/ Crash(r)
      PROVE  UNCHANGED <<rowVars, orders>>
  BY <1>3 DEF ReadCart, Crash
<1>4. ASSUME NEW r \in Requests, Step(r), ~Commit(r), ~LoseCommitAck(r)
      PROVE  UNCHANGED <<rowVars, orders>>
  BY <1>4 DEF Step, SelectRows, LockRow, SkipRow, AbortDeadlock, RefuseLines,
     AcceptLines, RefuseCoupon, ReserveUse, UndoReserve, RollBack, ClearCart,
     OpenSession
<1>5. ASSUME NEW c \in Customers, NEW p \in Products, WriteLine(c, p) \/ DropLine(c, p)
      PROVE  UNCHANGED <<rowVars, orders>>
  BY <1>5 DEF WriteLine, DropLine
<1>6. CASE ExpireCoupon \/ UNCHANGED vars
  BY <1>6, StutterUnlessSold DEF ExpireCoupon, vars
<1> QED
  BY <1>1, <1>2, <1>3, <1>4, <1>5, <1>6, StutterUnlessSold DEF Next, Environment, AllAnswered

\* Checkouts that interleave and fail in any way amount to atomic sales.
THEOREM ChecksOutAtomically == Spec => SellsAtomically
<1>1. Init => Shop!Init
  <2> SUFFICES ASSUME Init PROVE Shop!Init
    OBVIOUS
  <2>1. \A r \in Requests : Sale(r) = NoOrder
    BY DEF Init, Sale
  <2> QED
    BY <2>1, RowAssumption DEF Init, Shop!Init, Shop!Shelves, SaleMap
<1>2. IInv /\ [Next]_vars => [Shop!Next]_(Shop!inventoryVars)
  BY NextSells
<1> QED
  BY <1>1, <1>2, Invariance, PTL DEF Spec, SellsAtomically, Shop!Spec
=============================================================================
