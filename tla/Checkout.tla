------------------------------ MODULE Checkout ------------------------------
(***************************************************************************)
(* POST /orders/checkout, statement by statement, with everything that can *)
(* happen between two of its statements: other checkouts, the customer's   *)
(* other tabs writing the cart, merchants editing products, a coupon       *)
(* expiring, a failed commit, a dead process.                              *)
(*                                                                         *)
(* The database rows (stock, price, shelf, orders) change only when a      *)
(* transaction commits; a request keeps what it has read in variables of   *)
(* its own.  The Redis keys (cart, used) change one command at a time and  *)
(* are in no transaction.  A request is used once: a client's retry is     *)
(* another request, and an order is named by the request that placed it.   *)
(***************************************************************************)
EXTENDS Integers, FiniteSets, RowLocks

CONSTANTS Customers,
          MaxQty,        \* most units a cart line holds here (the schema says 1000)
          Writes,        \* quantities the cart endpoints write while the model runs
          Stocks,        \* stock_qty values that products have at the start
          Prices,        \* the same for prices
          Edited,        \* products that merchants edit while the model runs
          EditStocks,    \* stock_qty values that a PATCH writes meanwhile
          EditPrices,    \* the same for prices
          EditShelves,   \* the same for status and deleted_at, see Shelves
          CouponUse,     \* whether requests may name the coupon, go without, or both
          UsageLimit,    \* coupons.usage_limit of the one limited coupon
          Faults,        \* faults that may happen, see FaultKinds
          MaxInFlight,   \* how many checkouts may run at once
          NoOrder        \* the value of an order that has not been committed

Quantities == 0..MaxQty
Shelves == {"active", "inactive", "deleted"}
FaultKinds == {"crash",         \* the process dies, or Redis is unreachable
               "commit_fails",  \* flush or commit raises, nothing is stored
               "ack_lost",      \* commit raises, but the database has committed
               "stripe_down"}   \* the Stripe call raises StripeError

OrderRow == [customer : Customers, coupon : BOOLEAN,
             qty : [Products -> Quantities], unit : [Products -> Nat]]

ASSUME QtyAssumption    == MaxQty \in Nat /\ Writes \subseteq Quantities \ {0}
ASSUME RowAssumption    == /\ Stocks \cup EditStocks \subseteq Nat
                           /\ Prices \cup EditPrices \subseteq Nat
                           /\ Edited \subseteq Products /\ EditShelves \subseteq Shelves
ASSUME LimitAssumption  == UsageLimit \in Nat \ {0} /\ CouponUse \subseteq BOOLEAN
ASSUME FaultAssumption  == Faults \subseteq FaultKinds
ASSUME FlightAssumption == MaxInFlight \in Nat \ {0} /\ IsFiniteSet(Requests)
ASSUME OrderAssumption  == NoOrder \notin OrderRow

VARIABLES
  stock, price, shelf,   \* columns of products; shelf is status and deleted_at
  orders,                \* orders[r]: the committed order of r, with its items
  cart,                  \* Redis cart:{user_id}, 0 for a field that is absent
  used,                  \* Redis coupon_usage:{code}
  couponLive,            \* whether the coupon is still unexpired
  pc,                    \* where the handler of r stands
  customer, withCoupon,  \* whose request it is; whether it names the coupon
  lines,                 \* the cart as r has read it (raw)
  seenStock, seenPrice,  \* the product rows as r has locked them
  holds                  \* history: an INCR by r that no DECR has undone

rowVars     == <<stock, price, shelf>>
redisVars   == <<cart, used>>
jobVars     == <<customer, withCoupon, lines>>
seenVars    == <<seenStock, seenPrice>>
lockVars    == <<locker, todo>>
vars == <<rowVars, orders, redisVars, couponLive, pc, jobVars, seenVars,
          holds, lockVars>>

Nothing == [p \in Products |-> 0]
InCart(qty) == {p \in Products : qty[p] > 0}

Locking  == {"locking", "coupon", "overflow", "insert"}
Underway == {"select", "committed", "cleared"} \cup Locking
Ended    == {"refused", "failed", "crashed", "unpaid", "done"}

TypeOK ==
  /\ LocksTypeOK
  /\ stock \in [Products -> Nat]
  /\ price \in [Products -> Nat]
  /\ shelf \in [Products -> Shelves]
  /\ orders \in [Requests -> OrderRow \cup {NoOrder}]
  /\ cart \in [Customers -> [Products -> Quantities]]
  /\ used \in Int
  /\ couponLive \in BOOLEAN
  /\ pc \in [Requests -> {"idle"} \cup Underway \cup Ended]
  /\ customer \in [Requests -> Customers]
  /\ withCoupon \in [Requests -> BOOLEAN]
  /\ lines \in [Requests -> [Products -> Quantities]]
  /\ seenStock \in [Requests -> [Products -> Nat]]
  /\ seenPrice \in [Requests -> [Products -> Nat]]
  /\ holds \in [Requests -> BOOLEAN]

Init ==
  /\ LocksInit
  /\ stock \in [Products -> Stocks]
  /\ price \in [Products -> Prices]
  /\ shelf = [p \in Products |-> "active"]
  /\ orders = [r \in Requests |-> NoOrder]
  /\ cart \in [Customers -> [Products -> Quantities]]
  /\ used = 0
  /\ couponLive = TRUE
  /\ pc = [r \in Requests |-> "idle"]
  /\ customer \in [Requests -> Customers]
  /\ withCoupon \in [Requests -> CouponUse]
  /\ lines = [r \in Requests |-> Nothing]
  /\ seenStock = [r \in Requests |-> Nothing]
  /\ seenPrice = [r \in Requests |-> Nothing]
  /\ holds = [r \in Requests |-> FALSE]

Goto(r, to) == pc' = [pc EXCEPT ![r] = to]

\* The end of the transaction of r: its locks go, and what it read with them.
Finish(r) == /\ EndTransaction(r)
             /\ seenStock' = [seenStock EXCEPT ![r] = Nothing]
             /\ seenPrice' = [seenPrice EXCEPT ![r] = Nothing]
-----------------------------------------------------------------------------
(* The handler, up to the commit *)

\* HGETALL; an empty cart is a 422.
ReadCart(r) ==
  /\ pc[r] = "idle"
  /\ Cardinality({q \in Requests : pc[q] \in Underway}) < MaxInFlight
  /\ lines' = [lines EXCEPT ![r] = cart[customer[r]]]
  /\ Goto(r, IF InCart(cart[customer[r]]) = {} THEN "refused" ELSE "select")
  /\ UNCHANGED <<rowVars, orders, redisVars, couponLive, customer, withCoupon,
                 seenVars, holds, lockVars>>

\* The SELECT ... FOR UPDATE takes its snapshot: the rows it will try to lock.
SelectRows(r) ==
  /\ pc[r] = "select"
  /\ todo' = [todo EXCEPT ![r] = {p \in InCart(lines[r]) : shelf[p] = "active"}]
  /\ Goto(r, "locking")
  /\ UNCHANGED <<rowVars, orders, redisVars, couponLive, jobVars, seenVars,
                 holds, locker>>

\* It locks the next row and reads its current version ...
LockRow(r, p) ==
  /\ pc[r] = "locking"
  /\ shelf[p] = "active"
  /\ Take(r, p)
  /\ seenStock' = [seenStock EXCEPT ![r][p] = stock[p]]
  /\ seenPrice' = [seenPrice EXCEPT ![r][p] = price[p]]
  /\ UNCHANGED <<rowVars, orders, redisVars, couponLive, pc, jobVars, holds>>

\* ... or leaves it out, if it was taken off sale since the snapshot.
SkipRow(r, p) ==
  /\ pc[r] = "locking"
  /\ shelf[p] # "active"
  /\ Skip(r, p)
  /\ UNCHANGED <<rowVars, orders, redisVars, couponLive, pc, jobVars, seenVars,
                 holds>>

\* PostgreSQL aborts a member of a lock cycle: the exception ends the request.
AbortDeadlock(r) ==
  /\ Deadlocked(r)
  /\ Finish(r)
  /\ Goto(r, "failed")
  /\ UNCHANGED <<rowVars, orders, redisVars, couponLive, jobVars, holds>>

\* Mutant: the quantity is not compared with the stock.
PurchasableUnchecked(r) == \A p \in InCart(lines[r]) : locker[p] = r

Purchasable(r) ==
  \A p \in InCart(lines[r]) : locker[p] = r /\ lines[r][p] <= seenStock[r][p]

\* Mutant: the refusal leaves its transaction, and with it the locks, open.
RefuseLinesLocked(r) ==
  /\ pc[r] = "locking"
  /\ todo[r] = {}
  /\ ~Purchasable(r)
  /\ Goto(r, "refused")
  /\ UNCHANGED <<rowVars, orders, redisVars, couponLive, jobVars, seenVars,
                 holds, lockVars>>

\* A line without a row, or with too little stock, is a 409.
RefuseLines(r) ==
  /\ pc[r] = "locking"
  /\ todo[r] = {}
  /\ ~Purchasable(r)
  /\ Finish(r)
  /\ Goto(r, "refused")
  /\ UNCHANGED <<rowVars, orders, redisVars, couponLive, jobVars, holds>>

\* Mutant: a commit after the validation, which lets the locks go too early.
AcceptLinesCommitting(r) ==
  /\ pc[r] = "locking"
  /\ todo[r] = {}
  /\ Purchasable(r)
  /\ Goto(r, IF withCoupon[r] THEN "coupon" ELSE "insert")
  /\ EndTransaction(r)
  /\ UNCHANGED <<rowVars, orders, redisVars, couponLive, jobVars, seenVars,
                 holds>>

AcceptLines(r) ==
  /\ pc[r] = "locking"
  /\ todo[r] = {}
  /\ Purchasable(r)
  /\ Goto(r, IF withCoupon[r] THEN "coupon" ELSE "insert")
  /\ UNCHANGED <<rowVars, orders, redisVars, couponLive, jobVars, seenVars,
                 holds, lockVars>>

\* validate_coupon: an expired coupon is a 422.
RefuseCoupon(r) ==
  /\ pc[r] = "coupon"
  /\ ~couponLive
  /\ Finish(r)
  /\ Goto(r, "refused")
  /\ UNCHANGED <<rowVars, orders, redisVars, couponLive, jobVars, holds>>

\* Mutant: the count is tested before the INCR instead of after it.
ReserveUseUncounted(r) ==
  /\ pc[r] = "coupon"
  /\ couponLive
  /\ used' = used + 1
  /\ holds' = [holds EXCEPT ![r] = TRUE]
  /\ Goto(r, IF used > UsageLimit THEN "overflow" ELSE "insert")
  /\ UNCHANGED <<rowVars, orders, cart, couponLive, jobVars, seenVars, lockVars>>

\* reserve_usage: INCR, and then the test of what INCR returned.
ReserveUse(r) ==
  /\ pc[r] = "coupon"
  /\ couponLive
  /\ used' = used + 1
  /\ holds' = [holds EXCEPT ![r] = TRUE]
  /\ Goto(r, IF used' > UsageLimit THEN "overflow" ELSE "insert")
  /\ UNCHANGED <<rowVars, orders, cart, couponLive, jobVars, seenVars, lockVars>>

\* Mutant: a refused reservation is not undone.
UndoReserveForgotten(r) ==
  /\ pc[r] = "overflow"
  /\ Finish(r)
  /\ Goto(r, "refused")
  /\ UNCHANGED <<rowVars, orders, redisVars, couponLive, jobVars, holds>>

\* Over the limit: DECR, and a 409.
UndoReserve(r) ==
  /\ pc[r] = "overflow"
  /\ used' = used - 1
  /\ holds' = [holds EXCEPT ![r] = FALSE]
  /\ Finish(r)
  /\ Goto(r, "refused")
  /\ UNCHANGED <<rowVars, orders, cart, couponLive, jobVars>>
-----------------------------------------------------------------------------
(* The commit and what follows it *)

PlacedOrder(r) ==
  [customer |-> customer[r], coupon |-> withCoupon[r], qty |-> lines[r],
   unit |-> [p \in Products |-> IF lines[r][p] > 0 THEN seenPrice[r][p] ELSE 0]]

\* The ORM writes the stock it computed from the row it had read.
StoreOrder(r) ==
  /\ orders' = [orders EXCEPT ![r] = PlacedOrder(r)]
  /\ stock' = [p \in Products |->
                 IF lines[r][p] > 0 THEN seenStock[r][p] - lines[r][p]
                                    ELSE stock[p]]

Commit(r) ==
  /\ pc[r] = "insert"
  /\ StoreOrder(r)
  /\ Finish(r)
  /\ Goto(r, "committed")
  /\ UNCHANGED <<price, shelf, redisVars, couponLive, jobVars, holds>>

\* except Exception: rollback, then release_usage(coupon).  rollback has expired
\* the loaded coupon, and the first thing release_usage does is to read
\* coupon.usage_limit (coupon_service.py:71): an AsyncSession cannot reload an
\* attribute on access, so that read raises and the DECR is never sent.
RollBack(r) ==
  /\ "commit_fails" \in Faults
  /\ pc[r] = "insert"
  /\ Finish(r)
  /\ Goto(r, "failed")
  /\ UNCHANGED <<rowVars, orders, redisVars, couponLive, jobVars, holds>>

\* The same handler, when the commit did succeed and only its answer was lost.
LoseCommitAck(r) ==
  /\ "ack_lost" \in Faults
  /\ pc[r] = "insert"
  /\ StoreOrder(r)
  /\ Finish(r)
  /\ Goto(r, "failed")
  /\ UNCHANGED <<price, shelf, redisVars, couponLive, jobVars, holds>>

\* clear_cart deletes whatever the cart holds by now.
ClearCart(r) ==
  /\ pc[r] = "committed"
  /\ cart' = [cart EXCEPT ![customer[r]] = Nothing]
  /\ Goto(r, "cleared")
  /\ UNCHANGED <<rowVars, orders, used, couponLive, jobVars, seenVars, holds,
                 lockVars>>

\* The route asks Stripe for a hosted session: 201, or 502 with the order kept.
OpenSession(r) ==
  /\ pc[r] = "cleared"
  /\ \/ Goto(r, "done")
     \/ "stripe_down" \in Faults /\ Goto(r, "unpaid")
  /\ UNCHANGED <<rowVars, orders, redisVars, couponLive, jobVars, seenVars,
                 holds, lockVars>>

\* The process dies between two statements; PostgreSQL rolls back, Redis does not.
Crash(r) ==
  /\ "crash" \in Faults
  /\ pc[r] \in Underway
  /\ Finish(r)
  /\ Goto(r, "crashed")
  /\ UNCHANGED <<rowVars, orders, redisVars, couponLive, jobVars, holds>>
-----------------------------------------------------------------------------
(* Everyone else *)

requestVars == <<pc, jobVars, seenVars, holds, lockVars>>

\* The HSET that ends add_item and update_item.
WriteLine(c, p) ==
  /\ \E n \in Writes : cart' = [cart EXCEPT ![c][p] = n]
  /\ UNCHANGED <<rowVars, orders, used, couponLive, requestVars>>

\* The HDEL of remove_item and of get_cart's pruning.
DropLine(c, p) ==
  /\ Writes # {}
  /\ cart' = [cart EXCEPT ![c][p] = 0]
  /\ UNCHANGED <<rowVars, orders, used, couponLive, requestVars>>

\* update_product and soft_delete_product: one UPDATE of any of the columns, by
\* primary key, with the values of the PATCH; it waits for a locked row.
EditProduct(p) ==
  /\ p \in Edited
  /\ Free(p)
  /\ shelf[p] # "deleted"
  /\ \E n \in EditStocks \cup {stock[p]} : stock' = [stock EXCEPT ![p] = n]
  /\ \E m \in EditPrices \cup {price[p]} : price' = [price EXCEPT ![p] = m]
  /\ \E s \in EditShelves \cup {shelf[p]} : shelf' = [shelf EXCEPT ![p] = s]
  /\ UNCHANGED <<orders, redisVars, couponLive, requestVars>>

\* expires_at passes.
ExpireCoupon ==
  /\ couponLive
  /\ couponLive' = FALSE
  /\ UNCHANGED <<rowVars, orders, redisVars, requestVars>>
-----------------------------------------------------------------------------
Step(r) ==
  \/ SelectRows(r)
  \/ \E p \in Products : LockRow(r, p) \/ SkipRow(r, p)
  \/ AbortDeadlock(r)
  \/ RefuseLines(r) \/ AcceptLines(r)
  \/ RefuseCoupon(r) \/ ReserveUse(r) \/ UndoReserve(r)
  \/ Commit(r) \/ RollBack(r) \/ LoseCommitAck(r)
  \/ ClearCart(r) \/ OpenSession(r)

Environment ==
  \/ \E c \in Customers, p \in Products : WriteLine(c, p) \/ DropLine(c, p)
  \/ \E p \in Products : EditProduct(p)
  \/ ExpireCoupon

\* Every request has been answered: no more checkouts in this bounded model.
AllAnswered == (\A r \in Requests : pc[r] \in Ended) /\ UNCHANGED vars

Next == \/ \E r \in Requests : ReadCart(r) \/ Step(r) \/ Crash(r)
        \/ Environment
        \/ AllAnswered

Spec == Init /\ [][Next]_vars

\* A handler that has begun is run on by the event loop; PostgreSQL grants a
\* lock that stays free and breaks a cycle that stays closed.
Fairness == \A r \in Requests : WF_vars(Step(r))

FairSpec == Spec /\ Fairness
-----------------------------------------------------------------------------
(* Properties *)

\* A row a checkout has locked stays as the checkout read it: what it validated
\* at order_service.py:123 is still true when it writes at order_service.py:162.
RowsPinned ==
  \A r \in Requests : \A p \in HeldBy(r) :
    /\ pc[r] \in Locking
    /\ shelf[p] = "active"
    /\ seenStock[r][p] = stock[p]
    /\ seenPrice[r][p] = price[p]

\* From its validation to its commit nobody can make a checkout wrong: its lines
\* stay on sale, in stock and at the price it has summed up
\* (order_service.py:99-100).
ValidatedStaysTrue ==
  \A r \in Requests : pc[r] \in {"coupon", "overflow", "insert"} =>
    \A p \in InCart(lines[r]) : /\ locker[p] = r
                               /\ shelf[p] = "active"
                               /\ lines[r][p] <= stock[p]
                               /\ seenPrice[r][p] = price[p]

\* Checkouts and merchant edits, however they interleave and fail, amount to
\* sales and edits done one at a time: no unit is sold twice or below zero, no
\* product off sale is sold, and every line is charged the price of its moment.
Sale(r) == IF orders[r] = NoOrder
             THEN NoOrder
             ELSE [qty |-> orders[r].qty, unit |-> orders[r].unit, live |-> TRUE]

Shop == INSTANCE Inventory WITH Sales  <- Requests,
                                NoSale <- NoOrder,
                                sale   <- [r \in Requests |-> Sale(r)]

SellsAtomically == Shop!Spec

\* coupon_service.py:9-10: committed orders never use the coupon more often than
\* its usage_limit, although INCR, test, commit and DECR are separate steps.
CouponOrders == {r \in Requests : orders[r] # NoOrder /\ withCoupon[r]}

CouponWithinLimit == Cardinality(CouponOrders) <= UsageLimit

\* The counter is the number of INCRs that no DECR has undone; an order with the
\* coupon has one of its own, and a checkout that was answered without an
\* exception keeps one exactly when it has placed such an order.
CouponAccounted ==
  /\ used = Cardinality({r \in Requests : holds[r]})
  /\ \A r \in CouponOrders : holds[r]
  /\ \A r \in Requests : pc[r] \in {"refused", "unpaid", "done"} =>
                           (holds[r] <=> r \in CouponOrders)

\* coupon_service.py:70: a reserved use is returned if checkout fails after
\* reserving it.
UseReturned == \A r \in Requests : pc[r] = "failed" /\ holds[r] => r \in CouponOrders

\* Every checkout that has begun ends, although two may wait for each other's rows.
EveryCheckoutEnds == \A r \in Requests : pc[r] \in Underway ~> pc[r] \in Ended
=============================================================================
