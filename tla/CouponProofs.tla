---------------------------- MODULE CouponProofs ----------------------------
(***************************************************************************)
(* The limit of a coupon, for every number of requests and every fault.    *)
(* CouponWithinLimit is not inductive: the counter that reserve_usage      *)
(* tests is only a bound on the orders, since INCRs of refused and failed  *)
(* checkouts are in it too.  CInv says what the counter counts, and that   *)
(* the uses that may still become orders (Kept) are within the limit.      *)
(***************************************************************************)
EXTENDS CheckoutProofs, FiniteSetTheorems

Holders == {r \in Requests : holds[r]}

\* The uses that an order has, or will have at the next commit.
Kept == {r \in Requests : holds[r] /\ (pc[r] = "insert" \/ orders[r] # NoOrder)}

\* What reserving and storing have done to r by the point where it stands.
UseInStep(r) ==
  /\ holds[r] => withCoupon[r] /\ pc[r] \notin {"idle", "select", "locking", "coupon"}
  /\ pc[r] \in {"coupon", "overflow"} => withCoupon[r]
  /\ pc[r] = "overflow" \/ (pc[r] = "insert" /\ withCoupon[r]) => holds[r]
  /\ orders[r] # NoOrder /\ withCoupon[r] => holds[r]
  /\ pc[r] = "refused" => orders[r] = NoOrder /\ ~holds[r]
  /\ pc[r] \in {"committed", "cleared", "unpaid", "done"} => orders[r] # NoOrder

CInv == /\ used = Cardinality(Holders)
        /\ Cardinality(Kept) <= UsageLimit
        /\ \A r \in Requests : UseInStep(r)

LEMMA InitCInv == Init => CInv
<1> SUFFICES ASSUME Init PROVE CInv
  OBVIOUS
<1>1. Holders = {} /\ Kept = {}
  BY DEF Init, Holders, Kept
<1>2. Cardinality({}) = 0
  BY FS_EmptySet
<1> QED
  BY <1>1, <1>2, LimitAssumption DEF CInv, Init, UseInStep

\* A step that reserves and releases nothing.
LEMMA QuietCInv ==
  ASSUME IInv, CInv, UNCHANGED <<used, holds>>,
         Kept' \subseteq Kept, \A r \in Requests : UseInStep(r)'
  PROVE  CInv'
<1>1. IsFiniteSet(Kept)
  BY FlightAssumption, FS_Subset DEF Kept
<1>2. Cardinality(Kept') <= Cardinality(Kept)
  BY <1>1, FS_Subset
<1>3. Cardinality(Kept) \in Nat /\ Cardinality(Kept') \in Nat
  BY <1>1, FS_Subset, FS_CardinalityType
<1>4. Holders' = Holders
  BY DEF Holders
<1> QED
  BY <1>2, <1>3, <1>4, LimitAssumption DEF CInv

\* An INCR beyond the limit reaches no order; one within it bounds Kept.
LEMMA ReserveCInv ==
  ASSUME IInv, CInv, NEW r \in Requests, ReserveUse(r)
  PROVE  CInv'
<1> USE DEF IInv, TypeOK
<1>1. ~holds[r] /\ withCoupon[r] /\ orders[r] = NoOrder
  BY DEF CInv, UseInStep, ReserveUse, Relied, NoOrderYet, Locking
<1>2. Holders' = Holders \cup {r} /\ r \notin Holders
  BY <1>1 DEF Holders, ReserveUse
<1>3. IsFiniteSet(Holders) /\ IsFiniteSet(Holders')
  BY <1>2, FlightAssumption, FS_Subset, FS_AddElement DEF Holders
<1>4. Cardinality(Holders') = Cardinality(Holders) + 1
  BY <1>2, <1>3, FS_AddElement
<1>5. used' = Cardinality(Holders')
  BY <1>4 DEF CInv, ReserveUse
<1>6. Cardinality(Kept') <= UsageLimit
  <2>1. CASE used' > UsageLimit
    <3>1. pc' = [pc EXCEPT ![r] = "overflow"]
      BY <2>1 DEF ReserveUse, Goto
    <3>2. \A q \in Requests : q \in Kept' => q \in Kept
      BY <1>1, <3>1 DEF Kept, ReserveUse
    <3>3. Kept' \subseteq Kept
      BY <3>2 DEF Kept
    <3>4. IsFiniteSet(Kept)
      BY FlightAssumption, FS_Subset DEF Kept
    <3>5. Cardinality(Kept') <= Cardinality(Kept)
      BY <3>3, <3>4, FS_Subset
    <3>6. Cardinality(Kept') \in Nat /\ Cardinality(Kept) \in Nat
      BY <3>3, <3>4, FS_Subset, FS_CardinalityType
    <3> QED
      BY <3>5, <3>6, LimitAssumption DEF CInv
  <2>2. CASE ~(used' > UsageLimit)
    <3>1. Kept' \subseteq Holders'
      BY DEF Kept, Holders
    <3>2. Cardinality(Kept') <= Cardinality(Holders')
      BY <3>1, <1>3, FS_Subset
    <3>3. Cardinality(Kept') \in Nat /\ Cardinality(Holders') \in Nat
      BY <3>1, <1>3, FS_Subset, FS_CardinalityType
    <3> QED
      BY <3>2, <3>3, <2>2, <1>5, LimitAssumption
  <2> QED
    BY <2>1, <2>2
<1>7. \A q \in Requests : UseInStep(q)'
  BY <1>1 DEF CInv, UseInStep, ReserveUse, Goto, jobVars
<1> QED
  BY <1>5, <1>6, <1>7 DEF CInv

\* The DECR of a refused reservation takes back the INCR of that request.
LEMMA UndoCInv ==
  ASSUME IInv, CInv, NEW r \in Requests, UndoReserve(r)
  PROVE  CInv'
<1> USE DEF IInv, TypeOK
<1>1. holds[r] /\ orders[r] = NoOrder
  BY DEF CInv, UseInStep, UndoReserve, Relied, NoOrderYet, Locking
<1>2. Holders' = Holders \ {r} /\ r \in Holders
  BY <1>1 DEF Holders, UndoReserve
<1>3. IsFiniteSet(Holders)
  BY FlightAssumption, FS_Subset DEF Holders
<1>4. used' = Cardinality(Holders')
  BY <1>2, <1>3, FS_RemoveElement DEF CInv, UndoReserve
<1>5. Kept' = Kept
  BY <1>1 DEF Kept, UndoReserve, Goto
<1>6. \A q \in Requests : UseInStep(q)'
  BY <1>1 DEF CInv, UseInStep, UndoReserve, Goto, jobVars
<1> QED
  BY <1>4, <1>5, <1>6 DEF CInv

LEMMA NextCInv == IInv /\ CInv /\ [Next]_vars => CInv'
<1> SUFFICES ASSUME IInv, CInv, [Next]_vars PROVE CInv'
  OBVIOUS
<1> USE DEF IInv, TypeOK, Underway, Locking, Ended, jobVars, redisVars
<1>1. ASSUME NEW r \in Requests, NEW to, Goto(r, to), UNCHANGED <<orders, used, withCoupon, holds>>,
             to # "insert", to = "overflow" => pc[r] = "overflow",
             to = "coupon" => withCoupon[r] /\ pc[r] = "locking",
             to \in {"select", "locking"} => pc[r] \in {"idle", "select"},
             to # "idle",
             to = "refused" => pc[r] \in {"idle", "locking", "coupon"},
             to \in {"committed", "cleared", "unpaid", "done"} =>
               pc[r] \in {"committed", "cleared"}
      PROVE  CInv'
  <2>1. Kept' \subseteq Kept
    BY <1>1 DEF Kept, Goto
  <2>2. \A q \in Requests : UseInStep(q)'
    BY <1>1 DEF CInv, UseInStep, Goto, Relied, NoOrderYet
  <2> QED
    BY <1>1, <2>1, <2>2, QuietCInv
<1>2. ASSUME UNCHANGED <<orders, used, withCoupon, holds, pc>> PROVE CInv'
  BY <1>2, QuietCInv DEF CInv, UseInStep, Kept
<1>3. ASSUME NEW r \in Requests, pc[r] = "insert", StoreOrder(r), UNCHANGED <<used, withCoupon, holds>>,
             NEW to \in {"committed", "failed"}, Goto(r, to)
      PROVE  CInv'
  <2>1. orders' = [orders EXCEPT ![r] = PlacedOrder(r)] /\ PlacedOrder(r) # NoOrder
    BY <1>3, PlacedOrderType DEF StoreOrder
  <2>2. Kept' \subseteq Kept
    BY <1>3, <2>1 DEF Kept, Goto
  <2>3. \A q \in Requests : UseInStep(q)'
    BY <1>3, <2>1 DEF CInv, UseInStep, Goto
  <2> QED
    BY <1>3, <2>2, <2>3, QuietCInv
<1>4. ASSUME NEW r \in Requests, AcceptLines(r) PROVE CInv'
  <2>1. orders[r] = NoOrder /\ ~holds[r]
    BY <1>4 DEF AcceptLines, CInv, UseInStep, Relied, NoOrderYet
  <2>2. Kept' \subseteq Kept
    BY <1>4, <2>1 DEF AcceptLines, Kept, Goto
  <2>3. \A q \in Requests : UseInStep(q)'
    BY <1>4, <2>1 DEF AcceptLines, CInv, UseInStep, Goto
  <2> QED
    BY <1>4, <2>2, <2>3, QuietCInv DEF AcceptLines
<1>5. ASSUME NEW r \in Requests, ReadCart(r) PROVE CInv'
  BY <1>1, <1>5 DEF ReadCart
<1>6. ASSUME NEW r \in Requests, SelectRows(r) PROVE CInv'
  BY <1>1, <1>6 DEF SelectRows
<1>7. ASSUME NEW r \in Requests, NEW p \in Products, LockRow(r, p) \/ SkipRow(r, p) PROVE CInv'
  BY <1>2, <1>7 DEF LockRow, SkipRow
<1>8. ASSUME NEW r \in Requests, AbortDeadlock(r) PROVE CInv'
  BY <1>1, <1>8 DEF AbortDeadlock
<1>9. ASSUME NEW r \in Requests, RefuseLines(r) PROVE CInv'
  BY <1>1, <1>9 DEF RefuseLines
<1>10. ASSUME NEW r \in Requests, RefuseCoupon(r) PROVE CInv'
  BY <1>1, <1>10 DEF RefuseCoupon
<1>11. ASSUME NEW r \in Requests, Commit(r) PROVE CInv'
  BY <1>3, <1>11 DEF Commit
<1>12. ASSUME NEW r \in Requests, RollBack(r) PROVE CInv'
  BY <1>1, <1>12 DEF RollBack
<1>13. ASSUME NEW r \in Requests, LoseCommitAck(r) PROVE CInv'
  BY <1>3, <1>13 DEF LoseCommitAck
<1>14. ASSUME NEW r \in Requests, ClearCart(r) PROVE CInv'
  BY <1>1, <1>14 DEF ClearCart
<1>15. ASSUME NEW r \in Requests, OpenSession(r) PROVE CInv'
  BY <1>1, <1>15 DEF OpenSession
<1>16. ASSUME NEW r \in Requests, Crash(r) PROVE CInv'
  BY <1>1, <1>16 DEF Crash
<1>17. ASSUME Environment PROVE CInv'
  BY <1>2, <1>17 DEF Environment, WriteLine, DropLine, EditProduct, ExpireCoupon, requestVars
<1>18. CASE UNCHANGED vars
  BY <1>2, <1>18 DEF vars
<1> QED
  BY <1>4, <1>5, <1>6, <1>7, <1>8, <1>9, <1>10, <1>11, <1>12, <1>13, <1>14, <1>15, <1>16,
     <1>17, <1>18, ReserveCInv, UndoCInv DEF Next, Step, AllAnswered

LEMMA CouponInvariance == Spec => []CInv
  BY InitCInv, NextCInv, Invariance, PTL DEF Spec

\* Committed orders never use the coupon more often than its usage_limit,
\* however many checkouts compete, fail, die or lose the answer of their commit.
THEOREM LimitKept == Spec => []CouponWithinLimit
<1>1. IInv /\ CInv => CouponWithinLimit
  <2> SUFFICES ASSUME IInv, CInv PROVE CouponWithinLimit
    OBVIOUS
  <2>1. CouponOrders \subseteq Kept
    BY DEF CInv, UseInStep, CouponOrders, Kept
  <2>2. IsFiniteSet(Kept)
    BY FlightAssumption, FS_Subset DEF Kept
  <2>3. Cardinality(CouponOrders) <= Cardinality(Kept)
    BY <2>1, <2>2, FS_Subset
  <2>4. Cardinality(CouponOrders) \in Nat /\ Cardinality(Kept) \in Nat
    BY <2>1, <2>2, FS_Subset, FS_CardinalityType
  <2> QED
    BY <2>3, <2>4, LimitAssumption DEF CInv, CouponWithinLimit
<1> QED
  BY <1>1, Invariance, CouponInvariance, PTL

\* The counter counts exactly the uses taken and not given back, and a checkout
\* that was answered keeps one exactly when it has an order with the coupon.
THEOREM UsesAccounted == Spec => []CouponAccounted
<1>1. IInv /\ CInv => CouponAccounted
  BY DEF IInv, TypeOK, CInv, UseInStep, CouponAccounted, CouponOrders, Holders
<1> QED
  BY <1>1, Invariance, CouponInvariance, PTL

=============================================================================
