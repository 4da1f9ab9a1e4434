--------------------------- MODULE OrderLifecycle ---------------------------
(***************************************************************************)
(* What happens to orders once they are placed: PATCH /orders/{id}/status  *)
(* by a customer, a merchant or an admin, and POST /webhooks/payment from  *)
(* Stripe, statement by statement.  Both read the order without a lock,    *)
(* decide on what they read, return the order's units to stock under row   *)
(* locks if they cancel it, and write the status at the commit, over       *)
(* whatever it is by then.                                                 *)
(***************************************************************************)
EXTENDS Integers, FiniteSets, Functions, RowLocks

CONSTANTS Orders,
          Events,        \* Stripe event ids
          MaxQty,        \* most units of a product in an order here
          Stocks,        \* stock_qty values of the products at the start
          EditStocks,    \* stock_qty values a merchant writes meanwhile
          Roles,         \* who sends PATCHes: a subset of UserRoles
          Kinds,         \* which kinds of events Stripe sends, see EventKinds
          Faults,        \* a subset of {"crash", "commit_fails"}
          MaxInFlight,   \* how many requests may run at once
          Unknown,       \* an order reference that is missing or names no order
          NoJob          \* the job of a request that has not begun

UserRoles  == {"customer", "merchant", "admin"}
EventKinds == {"success", "failure", "other"}
Status     == {"pending", "confirmed", "shipped", "delivered", "cancelled"}

Patch == [role : UserRoles, order : Orders, target : Status]
Delivery == [role : {"stripe"}, order : Orders \cup {Unknown}, target : Status,
             event : Events]

Quantities == 0..MaxQty
Nothing == [p \in Products |-> 0]

\* An order as the abstract shop sees it, see Shop below.
SaleRow == [qty : [Products -> Quantities], unit : {Nothing}, live : BOOLEAN]

ASSUME QtyAssumption    == MaxQty \in Nat /\ Stocks \subseteq Nat /\ EditStocks \subseteq Nat
ASSUME RoleAssumption   == Roles \subseteq UserRoles /\ Kinds \subseteq EventKinds
ASSUME FaultAssumption  == Faults \subseteq {"crash", "commit_fails"}
ASSUME FlightAssumption == MaxInFlight \in Nat \ {0} /\ IsFiniteSet(Requests)
ASSUME NameAssumption   == Unknown \notin Orders /\ NoJob \notin Patch \cup Delivery \cup SaleRow

VARIABLES
  status,                \* column orders.status
  stock,                 \* column products.stock_qty
  items,                 \* items[o]: the units in o, which nothing changes
  event,                 \* event[e]: what Stripe says; nothing changes it
  claimed,               \* Redis stripe:webhook:event:{id}
  acked,                 \* events Stripe has had a 2xx for
  pc,                    \* where the handler of r stands
  job,                   \* job[r]: what r is asked to do
  current,               \* current[r]: the order's status as r has read it
  seenStock,             \* the product rows as r has locked them
  supply                 \* history: stock_qty as it would be had no order been
                         \* cancelled: the start, and the merchants' edits

rowVars == <<status, stock, items, supply>>
jobVars == <<job, current>>
lockVars == <<locker, todo>>
vars == <<rowVars, event, claimed, acked, pc, jobVars, seenStock, lockVars>>

LinesOf(o) == {p \in Products : items[o][p] > 0}

EventBody == [kind : Kinds, order : Orders \cup {Unknown}, matches : BOOLEAN]

Underway == {"claimed", "restocking", "writing", "reply"}
Ended == {"refused", "ignored", "failed", "crashed", "done"}

TypeOK ==
  /\ LocksTypeOK
  /\ status \in [Orders -> Status]
  /\ stock \in [Products -> Nat]
  /\ items \in [Orders -> [Products -> Quantities]]
  /\ event \in [Events -> EventBody]
  /\ claimed \in SUBSET Events
  /\ acked \in SUBSET Events
  /\ pc \in [Requests -> {"idle"} \cup Underway \cup Ended]
  /\ job \in [Requests -> {NoJob} \cup Patch \cup Delivery]
  /\ current \in [Requests -> Status]
  /\ seenStock \in [Requests -> [Products -> Nat]]
  /\ supply \in [Products -> Int]

\* Orders that checkout has just placed: pending, with at least one line.
Init ==
  /\ LocksInit
  /\ status = [o \in Orders |-> "pending"]
  /\ stock \in [Products -> Stocks]
  /\ items \in [Orders -> [Products -> Quantities]]
  /\ \A o \in Orders : LinesOf(o) # {}
  /\ event \in [Events -> EventBody]
  /\ claimed = {}
  /\ acked = {}
  /\ pc = [r \in Requests |-> "idle"]
  /\ job = [r \in Requests |-> NoJob]
  /\ current = [r \in Requests |-> "pending"]
  /\ seenStock = [r \in Requests |-> Nothing]
  /\ supply = stock

Goto(r, to) == pc' = [pc EXCEPT ![r] = to]

MayBegin(r) == /\ pc[r] = "idle"
               /\ Cardinality({q \in Requests : pc[q] \in Underway}) < MaxInFlight

\* _restock_order begins: it will lock every product row of the order.
BeginRestock(r, o) == /\ todo' = [todo EXCEPT ![r] = LinesOf(o)]
                      /\ Goto(r, "restocking")

\* The end of the transaction of r: its locks go, and what it read with them.
Finish(r) == /\ EndTransaction(r)
             /\ seenStock' = [seenStock EXCEPT ![r] = Nothing]

\* The end of the request.
End(r, to) == /\ Goto(r, to)
              /\ job' = [job EXCEPT ![r] = NoJob]
              /\ current' = [current EXCEPT ![r] = "pending"]
-----------------------------------------------------------------------------
(* PATCH /orders/{id}/status *)

Rank(s) == CASE s = "pending"   -> 0
             [] s = "confirmed" -> 1
             [] s = "shipped"   -> 2
             [] s = "delivered" -> 3
             [] s = "cancelled" -> 4

Forward == Status \ {"cancelled"}

\* Mutant: a merchant's move is not compared with where the order stands.
AllowedUnordered(role, from, to) ==
  \/ role = "admin"
  \/ role = "customer" /\ to = "cancelled" /\ from \in {"pending", "confirmed"}
  \/ role = "merchant" /\ {from, to} \subseteq Forward

\* The table of order_service.py:12-15 as update_status tests it.
Allowed(role, from, to) ==
  \/ role = "admin"
  \/ role = "customer" /\ to = "cancelled" /\ from \in {"pending", "confirmed"}
  \/ role = "merchant" /\ {from, to} \subseteq Forward /\ Rank(to) > Rank(from)

\* _load_visible_order and the role's guard: 403 or 409 ...
RefusePatch(r) ==
  /\ MayBegin(r)
  /\ \E role \in Roles, o \in Orders, to \in Status : ~Allowed(role, status[o], to)
  /\ Goto(r, "refused")
  /\ UNCHANGED <<rowVars, event, claimed, acked, jobVars, seenStock, lockVars>>

\* Mutant: only pending orders are restocked when they are cancelled.
AcceptPatchPendingOnly(r, role, o, to) ==
  /\ MayBegin(r)
  /\ Allowed(role, status[o], to)
  /\ job' = [job EXCEPT ![r] = [role |-> role, order |-> o, target |-> to]]
  /\ current' = [current EXCEPT ![r] = status[o]]
  /\ IF to = "cancelled" /\ status[o] = "pending"
       THEN BeginRestock(r, o)
       ELSE Goto(r, "writing") /\ UNCHANGED todo
  /\ UNCHANGED <<rowVars, event, claimed, acked, seenStock, locker>>

\* ... or the request goes on with the status it has read.
AcceptPatch(r, role, o, to) ==
  /\ MayBegin(r)
  /\ Allowed(role, status[o], to)
  /\ job' = [job EXCEPT ![r] = [role |-> role, order |-> o, target |-> to]]
  /\ current' = [current EXCEPT ![r] = status[o]]
  /\ IF to = "cancelled" /\ status[o] # "cancelled"
       THEN BeginRestock(r, o)
       ELSE Goto(r, "writing") /\ UNCHANGED todo
  /\ UNCHANGED <<rowVars, event, claimed, acked, seenStock, locker>>
-----------------------------------------------------------------------------
(* POST /webhooks/payment *)

Target(e) == IF event[e].kind = "failure" THEN "cancelled" ELSE "confirmed"

\* SET NX before anything else is done: the event is recorded as processed.
ClaimEvent(r, e) ==
  /\ MayBegin(r)
  /\ e \notin claimed
  /\ claimed' = claimed \cup {e}
  /\ job' = [job EXCEPT ![r] = [role |-> "stripe", order |-> event[e].order,
                                target |-> Target(e), event |-> e]]
  /\ Goto(r, "claimed")
  /\ UNCHANGED <<rowVars, event, acked, current, seenStock, lockVars>>

\* A redelivery is answered 200 duplicate_ignored, and Stripe stops.
IgnoreDuplicate(r, e) ==
  /\ MayBegin(r)
  /\ e \in claimed
  /\ acked' = acked \cup {e}
  /\ Goto(r, "ignored")
  /\ UNCHANGED <<rowVars, event, claimed, jobVars, seenStock, lockVars>>

\* Mutant: a failed payment cancels whatever the order's status is.
ActsAnyStatus(e) ==
  /\ event[e].kind # "other"
  /\ event[e].order # Unknown
  /\ event[e].kind = "success" =>
       event[e].matches /\ status[event[e].order] = "pending"

\* Whether handle_event acts: a success confirms a pending order if the amount
\* is the order's, a failure cancels a pending order, nothing else matters.
Acts(e) ==
  /\ event[e].kind # "other"
  /\ event[e].order # Unknown
  /\ status[event[e].order] = "pending"
  /\ event[e].kind = "success" => event[e].matches

IgnoreEvent(r) ==
  /\ pc[r] = "claimed"
  /\ ~Acts(job[r].event)
  /\ Goto(r, "reply")
  /\ UNCHANGED <<rowVars, event, claimed, acked, jobVars, seenStock, lockVars>>

\* Mutant: a success sets the status in the session and never commits it.
ApplyEventNoCommit(r) ==
  /\ pc[r] = "claimed"
  /\ Acts(job[r].event)
  /\ current' = [current EXCEPT ![r] = status[job[r].order]]
  /\ IF job[r].target = "cancelled"
       THEN BeginRestock(r, job[r].order)
       ELSE Goto(r, "reply") /\ UNCHANGED todo
  /\ UNCHANGED <<rowVars, event, claimed, acked, job, seenStock, locker>>

ApplyEvent(r) ==
  /\ pc[r] = "claimed"
  /\ Acts(job[r].event)
  /\ current' = [current EXCEPT ![r] = status[job[r].order]]
  /\ IF job[r].target = "cancelled"
       THEN BeginRestock(r, job[r].order)
       ELSE Goto(r, "writing") /\ UNCHANGED todo
  /\ UNCHANGED <<rowVars, event, claimed, acked, job, seenStock, locker>>

Reply(r) ==
  /\ pc[r] = "reply"
  /\ acked' = acked \cup {job[r].event}
  /\ End(r, "done")
  /\ UNCHANGED <<rowVars, event, claimed, seenStock, lockVars>>
-----------------------------------------------------------------------------
(* Restock and commit, the same for both endpoints *)

LockRow(r, p) ==
  /\ pc[r] = "restocking"
  /\ Take(r, p)
  /\ seenStock' = [seenStock EXCEPT ![r][p] = stock[p]]
  /\ UNCHANGED <<rowVars, event, claimed, acked, pc, jobVars>>

\* PostgreSQL aborts a member of a lock cycle: the exception ends the request.
AbortDeadlock(r) ==
  /\ Deadlocked(r)
  /\ Finish(r)
  /\ End(r, "failed")
  /\ UNCHANGED <<rowVars, event, claimed, acked>>

\* Mutant: the units are taken once more instead of being returned.
RestockedNegated(r) == [p \in Products |-> IF locker[p] = r
                                           THEN seenStock[r][p] - items[job[r].order][p]
                                           ELSE stock[p]]

Restocked(r) == [p \in Products |-> IF locker[p] = r
                                      THEN seenStock[r][p] + items[job[r].order][p]
                                      ELSE stock[p]]

ReadyToWrite(r) == \/ pc[r] = "writing"
                   \/ pc[r] = "restocking" /\ todo[r] = {}

\* The commit writes the rows that were locked and, if it is not the status the
\* request had read, the status: no test of what the status is now.
Write(r) ==
  /\ ReadyToWrite(r)
  /\ status' = IF job[r].target = current[r]
                 THEN status
                 ELSE [status EXCEPT ![job[r].order] = job[r].target]
  /\ stock' = Restocked(r)
  /\ Finish(r)
  /\ IF job[r].role = "stripe"
       THEN Goto(r, "reply") /\ UNCHANGED jobVars
       ELSE End(r, "done")
  /\ UNCHANGED <<items, supply, event, claimed, acked>>

\* The commit raises: rollback, and a 500.
FailWrite(r) ==
  /\ "commit_fails" \in Faults
  /\ ReadyToWrite(r)
  /\ Finish(r)
  /\ End(r, "failed")
  /\ UNCHANGED <<rowVars, event, claimed, acked>>

\* The process dies between two statements; PostgreSQL rolls back, Redis does not.
Crash(r) ==
  /\ "crash" \in Faults
  /\ pc[r] \in Underway
  /\ Finish(r)
  /\ End(r, "crashed")
  /\ UNCHANGED <<rowVars, event, claimed, acked>>

\* update_product writes an absolute stock_qty; the supply follows.
EditStock(p) ==
  /\ Free(p)
  /\ \E n \in EditStocks :
       /\ stock' = [stock EXCEPT ![p] = n]
       /\ supply' = [supply EXCEPT ![p] = @ + n - stock[p]]
  /\ UNCHANGED <<status, items, event, claimed, acked, pc, jobVars,
                 seenStock, lockVars>>
-----------------------------------------------------------------------------
Step(r) ==
  \/ IgnoreEvent(r) \/ ApplyEvent(r) \/ Reply(r)
  \/ \E p \in Products : LockRow(r, p)
  \/ AbortDeadlock(r)
  \/ Write(r) \/ FailWrite(r)

Begin(r) ==
  \/ RefusePatch(r)
  \/ \E role \in Roles, o \in Orders, to \in Status : AcceptPatch(r, role, o, to)
  \/ \E e \in Events : ClaimEvent(r, e) \/ IgnoreDuplicate(r, e)

\* Every request has been answered: no more requests in this bounded model.
AllAnswered == (\A r \in Requests : pc[r] \in Ended) /\ UNCHANGED vars

Next == \/ \E r \in Requests : Begin(r) \/ Step(r) \/ Crash(r)
        \/ \E p \in Products : EditStock(p)
        \/ AllAnswered

Spec == Init /\ [][Next]_vars

\* As in Checkout: the event loop runs a handler on, PostgreSQL grants free locks.
Fairness == \A r \in Requests : WF_vars(Step(r))

FairSpec == Spec /\ Fairness
-----------------------------------------------------------------------------
(* Decisions that do not overlap *)

\* Between the read of an order's status and the commit that relies on it.
Deciding == {"restocking", "writing"}

\* No two requests are there with the same order, as if the SELECT of the order were
\* FOR UPDATE.  The code does not ensure it: it is the condition under which the
\* properties that name it hold.
Apart == \A q, r \in Requests :
           pc[q] \in Deciding /\ pc[r] \in Deciding /\ job[q].order = job[r].order => q = r

ApartSpec == Init /\ [][Next /\ Apart']_vars
-----------------------------------------------------------------------------
(* Properties *)

\* A row locked for a restock stays as it was read, so the absolute stock_qty
\* the commit writes (order_service.py:326) is the current one plus the units.
RowsPinned ==
  \A r \in Requests : \A p \in HeldBy(r) :
    pc[r] = "restocking" /\ seenStock[r][p] = stock[p]

\* stock_qty only ever moves by the whole of one order's units, when that order
\* is being cancelled, or because a merchant edits that one product.
RestocksWhole ==
  [][stock' # stock =>
       \/ \E r \in Requests :
            /\ job[r] # NoJob /\ job[r].target = "cancelled"
            /\ pc[r] = "restocking" /\ pc'[r] \in {"reply", "done"}
            /\ \A p \in Products : stock'[p] = stock[p] + items[job[r].order][p]
       \/ \E p \in Products : Free(p) /\ stock' = [stock EXCEPT ![p] = stock'[p]]]_vars

UnitsIn(S, p) == SumFunctionOnSet([o \in Orders |-> items[o][p]], S)

Cancelled == {o \in Orders : status[o] = "cancelled"}

\* However requests race and fail, no unit disappears: the units of a cancelled
\* order are back on the shelf.
NoUnitLost == \A p \in Products : stock[p] >= supply[p] + UnitsIn(Cancelled, p)

\* With decisions on one order apart and no admin, cancelling an order voids its
\* sale: its units go back with the status, in one step, and never again.
Shop == INSTANCE Inventory WITH
          Sales  <- Orders,
          NoSale <- NoJob,
          price  <- Nothing,
          shelf  <- [p \in Products |-> "active"],
          sale   <- [o \in Orders |-> [qty |-> items[o], unit |-> Nothing,
                                      live |-> status[o] # "cancelled"]]

RestocksOnce == Shop!Spec

\* Cancelling returns reserved stock (order_service.py:302), never more of it than
\* all the orders together had reserved.
NoPhantomUnit == \A p \in Products : stock[p] <= supply[p] + UnitsIn(Orders, p)

\* order_service.py:12-15, with decisions on one order apart and no admin: an order
\* moves forward, or from pending or confirmed to cancelled; what is shipped, delivered or cancelled stays so.
FollowsTable ==
  [][\A o \in Orders : status'[o] # status[o] =>
       \/ {status[o], status'[o]} \subseteq Forward /\ Rank(status'[o]) > Rank(status[o])
       \/ status[o] \in {"pending", "confirmed"} /\ status'[o] = "cancelled"]_vars

\* A payment Stripe will not report again (payment_service.py:27, :32-34) has moved
\* its order, or a handler is about to.
Paid(e) == event[e].kind = "success" /\ event[e].matches /\ event[e].order # Unknown

AckedIsApplied ==
  \A e \in acked : Paid(e) =>
    \/ status[event[e].order] # "pending"
    \/ \E r \in Requests : /\ pc[r] \in Underway
                           /\ job[r].role = "stripe" /\ job[r].event = e

\* Every request that has begun ends.
EveryRequestEnds == \A r \in Requests : pc[r] \in Underway ~> pc[r] \in Ended
=============================================================================
