------------------------ MODULE OrderLifecycleProofs ------------------------
(***************************************************************************)
(* Theorems about OrderLifecycle, for every number of orders, requests,    *)
(* products and events, every role and every fault.  IInv says what a      *)
(* handler may rely on: which rows it has locked or will lock, and that    *)
(* it only holds rows while it cancels an order.                           *)
(***************************************************************************)
EXTENDS OrderLifecycle, Sums

\* Only a statement in progress has rows left to lock.
TodoWhileRestocking == \A r \in Requests : todo[r] # {} => pc[r] = "restocking"

\* A request that restocks cancels its order, and locks exactly its rows.
RestocksItsOrder == \A r \in Requests : pc[r] = "restocking" =>
  /\ job[r] # NoJob
  /\ job[r].order \in Orders
  /\ job[r].target = "cancelled"
  /\ HeldBy(r) \cup todo[r] = LinesOf(job[r].order)

\* A request that is under way knows what it was asked to do.
JobKnown == \A r \in Requests :
  /\ pc[r] \in Underway => job[r] \in Patch \cup Delivery
  /\ pc[r] \in {"claimed", "reply"} => job[r].role = "stripe" /\ job[r] \in Delivery
  /\ pc[r] = "claimed" => job[r].order = event[job[r].event].order
  /\ pc[r] = "writing" => job[r].order \in Orders

Relied == RowsPinned /\ TodoWhileRestocking /\ RestocksItsOrder /\ JobKnown

IInv == TypeOK /\ Relied

-----------------------------------------------------------------------------
LEMMA InitIInv == Init => IInv
<1> SUFFICES ASSUME Init PROVE IInv
  OBVIOUS
<1>1. TypeOK
  <2>1. stock \in [Products -> Nat] /\ supply \in [Products -> Int]
    <3>1. stock \in [Products -> Nat] /\ supply = stock
      BY QtyAssumption DEF Init
    <3>2. \A p \in Products : supply[p] \in Int
      BY <3>1
    <3> QED
      BY <3>1, <3>2
  <2>2. Nothing \in [Products -> Nat]
    BY DEF Nothing
  <2> QED
    BY <2>1, <2>2 DEF Init, TypeOK, LocksInit, LocksTypeOK, Status
<1>2. \A r \in Requests : HeldBy(r) = {} /\ todo[r] = {} /\ pc[r] = "idle"
  BY NobodyAssumption DEF Init, LocksInit, HeldBy
<1> QED
  BY <1>1, <1>2 DEF IInv, Relied, RowsPinned, TodoWhileRestocking, RestocksItsOrder,
     JobKnown, Underway

\* The ends of a transaction and of a request keep the types of what they touch.
LEMMA FinishTypes ==
  ASSUME TypeOK, NEW r \in Requests, Finish(r)
  PROVE  LocksTypeOK' /\ seenStock' \in [Requests -> [Products -> Nat]]
  BY DEF TypeOK, Finish, EndTransaction, LocksTypeOK, Nothing

LEMMA EndTypes ==
  ASSUME TypeOK, NEW r \in Requests, NEW to \in Ended, End(r, to)
  PROVE  /\ pc' \in [Requests -> {"idle"} \cup Underway \cup Ended]
         /\ job' \in [Requests -> {NoJob} \cup Patch \cup Delivery]
         /\ current' \in [Requests -> Status]
  BY DEF TypeOK, End, Goto, Status

\* What a handler is about to write: a status, and naturals for stock_qty.
LEMMA WriteTypes ==
  ASSUME IInv, NEW r \in Requests, ReadyToWrite(r)
  PROVE  /\ job[r] \in Patch \cup Delivery
         /\ job[r].order \in Orders
         /\ job[r].target \in Status
         /\ Restocked(r) \in [Products -> Nat]
<1>1. job[r] \in Patch \cup Delivery /\ job[r].order \in Orders
  BY DEF ReadyToWrite, IInv, Relied, JobKnown, RestocksItsOrder, Underway
<1>2. job[r].target \in Status
  BY <1>1 DEF Patch, Delivery
<1>3. \A p \in Products : /\ seenStock[r][p] \in Nat /\ stock[p] \in Nat
                          /\ items[job[r].order][p] \in Nat
  BY <1>1, QtyAssumption DEF IInv, TypeOK, Quantities
<1>4. Restocked(r) \in [Products -> Nat]
  BY <1>3 DEF Restocked
<1> QED
  BY <1>1, <1>2, <1>4

\* A decision to write: with a restock, or at once.
LEMMA DecideTypes ==
  ASSUME TypeOK, NEW r \in Requests, NEW o \in Orders,
         BeginRestock(r, o) \/ (Goto(r, "writing") /\ UNCHANGED todo)
  PROVE  /\ todo' \in [Requests -> SUBSET Products]
         /\ pc' \in [Requests -> {"idle"} \cup Underway \cup Ended]
<1>1. PICK to \in Underway : pc' = [pc EXCEPT ![r] = to]
  BY DEF BeginRestock, Goto, Underway
<1>2. pc' \in [Requests -> {"idle"} \cup Underway \cup Ended]
  BY <1>1 DEF TypeOK
<1>3. LinesOf(o) \in SUBSET Products
  BY DEF LinesOf
<1>4. todo' = todo \/ todo' = [todo EXCEPT ![r] = LinesOf(o)]
  BY DEF BeginRestock
<1>5. todo' \in [Requests -> SUBSET Products]
  BY <1>3, <1>4 DEF TypeOK, LocksTypeOK
<1> QED
  BY <1>2, <1>5

LEMMA TypeNext == IInv /\ [Next]_vars => TypeOK'
<1> SUFFICES ASSUME IInv, [Next]_vars PROVE TypeOK'
  OBVIOUS
<1> USE DEF IInv, TypeOK, LocksTypeOK, Goto, Underway, Ended, rowVars, jobVars, lockVars
<1>1. ASSUME NEW r \in Requests, RefusePatch(r) PROVE TypeOK'
  BY <1>1 DEF RefusePatch
<1>2. ASSUME NEW r \in Requests, NEW role \in Roles, NEW o \in Orders, NEW to \in Status,
             AcceptPatch(r, role, o, to)
      PROVE  TypeOK'
  <2>1. [role |-> role, order |-> o, target |-> to] \in Patch
    BY RoleAssumption DEF Patch
  <2>2. /\ todo' \in [Requests -> SUBSET Products]
        /\ pc' \in [Requests -> {"idle"} \cup Underway \cup Ended]
    <3>1. BeginRestock(r, o) \/ (Goto(r, "writing") /\ UNCHANGED todo)
      BY <1>2 DEF AcceptPatch
    <3> QED
      BY <3>1, DecideTypes
  <2>3. status[o] \in Status
    OBVIOUS
  <2> QED
    BY <1>2, <2>1, <2>2, <2>3 DEF AcceptPatch
<1>3. ASSUME NEW r \in Requests, NEW e \in Events, ClaimEvent(r, e) PROVE TypeOK'
  <2>1. [role |-> "stripe", order |-> event[e].order, target |-> Target(e), event |-> e]
          \in Delivery
    BY DEF Delivery, EventBody, Target, Status
  <2> QED
    BY <1>3, <2>1 DEF ClaimEvent
<1>4. ASSUME NEW r \in Requests, NEW e \in Events, IgnoreDuplicate(r, e) PROVE TypeOK'
  BY <1>4 DEF IgnoreDuplicate
<1>5. ASSUME NEW r \in Requests, IgnoreEvent(r) PROVE TypeOK'
  BY <1>5 DEF IgnoreEvent
<1>6. ASSUME NEW r \in Requests, ApplyEvent(r) PROVE TypeOK'
  <2>1. job[r].order \in Orders
    BY <1>6 DEF ApplyEvent, Acts, Relied, JobKnown, Delivery
  <2>2. /\ todo' \in [Requests -> SUBSET Products]
        /\ pc' \in [Requests -> {"idle"} \cup Underway \cup Ended]
    <3>1. BeginRestock(r, job[r].order) \/ (Goto(r, "writing") /\ UNCHANGED todo)
      BY <1>6 DEF ApplyEvent
    <3> QED
      BY <3>1, <2>1, DecideTypes
  <2> QED
    BY <1>6, <2>1, <2>2 DEF ApplyEvent
<1>7. ASSUME NEW r \in Requests, Reply(r) PROVE TypeOK'
  <2>1. job[r].event \in Events
    BY <1>7 DEF Reply, Relied, JobKnown, Delivery
  <2> QED
    BY <1>7, <2>1, EndTypes DEF Reply
<1>8. ASSUME NEW r \in Requests, NEW p \in Products, LockRow(r, p) PROVE TypeOK'
  BY <1>8 DEF LockRow, Take
<1>9. ASSUME NEW r \in Requests, Write(r) PROVE TypeOK'
  <2>1. status' \in [Orders -> Status] /\ stock' \in [Products -> Nat]
    BY <1>9, WriteTypes DEF Write
  <2>2. /\ pc' \in [Requests -> {"idle"} \cup Underway \cup Ended]
        /\ job' \in [Requests -> {NoJob} \cup Patch \cup Delivery]
        /\ current' \in [Requests -> Status]
    BY <1>9, EndTypes DEF Write
  <2> QED
    BY <1>9, <2>1, <2>2, FinishTypes DEF Write
<1>10. ASSUME NEW r \in Requests, NEW to \in Ended, Finish(r), End(r, to),
              UNCHANGED <<rowVars, event, claimed, acked>>
       PROVE  TypeOK'
  BY <1>10, FinishTypes, EndTypes
<1>11. ASSUME NEW r \in Requests, AbortDeadlock(r) \/ FailWrite(r) \/ Crash(r) PROVE TypeOK'
  BY <1>10, <1>11 DEF AbortDeadlock, FailWrite, Crash
<1>12. ASSUME NEW p \in Products, EditStock(p) PROVE TypeOK'
  BY <1>12, QtyAssumption DEF EditStock
<1>13. CASE UNCHANGED vars
  BY <1>13 DEF vars
<1> QED
  BY <1>1, <1>2, <1>3, <1>4, <1>5, <1>6, <1>7, <1>8, <1>9, <1>11, <1>12, <1>13
     DEF Next, Begin, Step, AllAnswered

-----------------------------------------------------------------------------
(* What a handler relies on *)

\* A request that ends without a write disturbs no other.
LEMMA EndRelied ==
  ASSUME IInv, NEW r \in Requests, Finish(r), NEW to \in Ended, End(r, to),
         UNCHANGED <<rowVars, event, claimed, acked>>
  PROVE  Relied'
<1> USE DEF IInv, Relied, TypeOK, LocksTypeOK, Finish, End, EndTransaction, Goto,
            rowVars, HeldBy, Underway, Ended
<1>1. RowsPinned'
  BY NobodyAssumption DEF RowsPinned
<1>2. TodoWhileRestocking'
  BY DEF TodoWhileRestocking
<1>3. RestocksItsOrder'
  BY NobodyAssumption DEF RestocksItsOrder, LinesOf
<1>4. JobKnown'
  BY DEF JobKnown
<1> QED
  BY <1>1, <1>2, <1>3, <1>4

\* The rows that a request is about to write are the ones it has locked, and
\* they are as it has read them.
LEMMA WritesPinned ==
  ASSUME IInv, NEW r \in Requests, ReadyToWrite(r)
  PROVE  /\ pc[r] = "writing" => Restocked(r) = stock
         /\ pc[r] = "restocking" =>
              Restocked(r) = [p \in Products |-> stock[p] + items[job[r].order][p]]
         /\ \A p \in Products : locker[p] # r => Restocked(r)[p] = stock[p]
<1> USE DEF IInv, Relied, TypeOK, RowsPinned, HeldBy
<1>1. ASSUME pc[r] = "writing" PROVE Restocked(r) = stock
  <2>1. \A p \in Products : locker[p] # r
    BY <1>1
  <2> QED
    BY <2>1 DEF Restocked
<1>2. ASSUME pc[r] = "restocking"
      PROVE  Restocked(r) = [p \in Products |-> stock[p] + items[job[r].order][p]]
  <2>1. HeldBy(r) = LinesOf(job[r].order) /\ job[r].order \in Orders
    BY <1>2 DEF ReadyToWrite, RestocksItsOrder
  <2>2. ASSUME NEW p \in Products
        PROVE  (IF locker[p] = r THEN seenStock[r][p] + items[job[r].order][p] ELSE stock[p])
                 = stock[p] + items[job[r].order][p]
    <3>1. items[job[r].order][p] \in Nat /\ stock[p] \in Nat
      BY <2>1, QtyAssumption DEF Quantities
    <3>2. CASE locker[p] = r
      BY <3>2
    <3>3. CASE locker[p] # r
      <4>1. p \notin LinesOf(job[r].order)
        BY <2>1, <3>3
      <4> QED
        BY <4>1, <3>1, <3>3 DEF LinesOf
    <3> QED
      BY <3>2, <3>3
  <2> QED
    BY <2>2 DEF Restocked
<1>3. \A p \in Products : locker[p] # r => Restocked(r)[p] = stock[p]
  BY DEF Restocked
<1> QED
  BY <1>1, <1>2, <1>3

\* A commit changes no row that another request has locked.
LEMMA WriteRelied ==
  ASSUME IInv, NEW r \in Requests, Write(r)
  PROVE  Relied'
<1>1. \A p \in Products : locker[p] # r => stock'[p] = stock[p]
  BY WritesPinned DEF Write
<1>2. ReadyToWrite(r) /\ job[r] \in Patch \cup Delivery
  BY WriteTypes DEF Write
<1> USE DEF IInv, Relied, TypeOK, LocksTypeOK, Finish, EndTransaction, HeldBy, Underway
<1>3. RowsPinned'
  BY <1>1, NobodyAssumption DEF Write, End, Goto, RowsPinned
<1>4. TodoWhileRestocking'
  BY DEF Write, End, Goto, TodoWhileRestocking
<1>5. RestocksItsOrder'
  BY NobodyAssumption DEF Write, End, Goto, RestocksItsOrder, LinesOf, jobVars
<1>6. JobKnown'
  <2>1. job[r].role = "stripe" => job[r] \in Delivery
    BY <1>2, RoleAssumption DEF Patch, Delivery, UserRoles
  <2> QED
    BY <1>2, <2>1 DEF Write, End, Goto, JobKnown, jobVars
<1> QED
  BY <1>3, <1>4, <1>5, <1>6

\* A request that begins or goes on without touching a row.
LEMMA MoveRelied ==
  ASSUME IInv, NEW r \in Requests, pc[r] \in {"idle", "claimed"},
         UNCHANGED <<stock, items, event, seenStock, locker>>,
         NEW j \in {NoJob} \cup Patch \cup Delivery, job' = [job EXCEPT ![r] = j],
         \/ BeginRestock(r, j.order) /\ j # NoJob /\ j.order \in Orders /\ j.target = "cancelled"
         \/ /\ UNCHANGED todo
            /\ \/ Goto(r, "writing") /\ j # NoJob /\ j.order \in Orders
               \/ /\ Goto(r, "claimed") \/ Goto(r, "reply")
                  /\ j \in Delivery /\ j.order = event[j.event].order
               \/ Goto(r, "refused") \/ Goto(r, "ignored")
  PROVE  Relied'
<1> USE DEF IInv, Relied, TypeOK, LocksTypeOK, HeldBy, Underway, Goto, BeginRestock
<1>1. \A p \in Products : locker[p] # r
  BY DEF RowsPinned
<1>2. todo[r] = {}
  BY DEF TodoWhileRestocking
<1>3. RowsPinned'
  BY <1>1 DEF RowsPinned
<1>4. TodoWhileRestocking'
  BY <1>2 DEF TodoWhileRestocking
<1>5. RestocksItsOrder'
  BY <1>1 DEF RestocksItsOrder, LinesOf
<1>6. JobKnown'
  BY NameAssumption DEF JobKnown, Delivery
<1> QED
  BY <1>3, <1>4, <1>5, <1>6

LEMMA ReliedNext == IInv /\ [Next]_vars => Relied'
<1> SUFFICES ASSUME IInv, [Next]_vars PROVE Relied'
  OBVIOUS
<1> USE DEF rowVars, jobVars, lockVars
<1>1. ASSUME NEW r \in Requests, RefusePatch(r) PROVE Relied'
  <2>1. job' = [job EXCEPT ![r] = job[r]] /\ job[r] \in {NoJob} \cup Patch \cup Delivery
    BY <1>1 DEF RefusePatch, IInv, TypeOK
  <2> QED
    BY <1>1, <2>1, MoveRelied DEF RefusePatch, MayBegin
<1>2. ASSUME NEW r \in Requests, NEW role \in Roles, NEW o \in Orders, NEW to \in Status,
             AcceptPatch(r, role, o, to)
      PROVE  Relied'
  <2> DEFINE j == [role |-> role, order |-> o, target |-> to]
  <2>1. j \in Patch /\ j # NoJob /\ j.order = o /\ j.target = to
    BY RoleAssumption, NameAssumption DEF Patch
  <2>2. \/ BeginRestock(r, o) /\ to = "cancelled"
        \/ Goto(r, "writing") /\ UNCHANGED todo
    BY <1>2 DEF AcceptPatch
  <2> HIDE DEF j
  <2>3. job' = [job EXCEPT ![r] = j] /\ pc[r] = "idle"
    BY <1>2 DEF AcceptPatch, MayBegin, j
  <2> QED
    BY <1>2, <2>1, <2>2, <2>3, MoveRelied DEF AcceptPatch
<1>3. ASSUME NEW r \in Requests, NEW e \in Events, ClaimEvent(r, e) PROVE Relied'
  <2> DEFINE j == [role |-> "stripe", order |-> event[e].order, target |-> Target(e),
                   event |-> e]
  <2>1. j \in Delivery
    BY DEF IInv, TypeOK, Delivery, EventBody, Target, Status
  <2>2. j.order = event[j.event].order
    OBVIOUS
  <2> HIDE DEF j
  <2>3. job' = [job EXCEPT ![r] = j] /\ pc[r] = "idle"
    BY <1>3 DEF ClaimEvent, MayBegin, j
  <2> QED
    BY <1>3, <2>1, <2>2, <2>3, MoveRelied DEF ClaimEvent
<1>4. ASSUME NEW r \in Requests, NEW e \in Events, IgnoreDuplicate(r, e) PROVE Relied'
  <2>1. job' = [job EXCEPT ![r] = job[r]] /\ job[r] \in {NoJob} \cup Patch \cup Delivery
    BY <1>4 DEF IgnoreDuplicate, IInv, TypeOK
  <2> QED
    BY <1>4, <2>1, MoveRelied DEF IgnoreDuplicate, MayBegin
<1>5. ASSUME NEW r \in Requests, IgnoreEvent(r) \/ ApplyEvent(r) PROVE Relied'
  <2>1. /\ pc[r] = "claimed" /\ job' = [job EXCEPT ![r] = job[r]]
        /\ job[r] \in Delivery /\ job[r].order = event[job[r].event].order
    BY <1>5 DEF IgnoreEvent, ApplyEvent, IInv, TypeOK, Relied, JobKnown
  <2>2. job[r] # NoJob
    BY <2>1, NameAssumption
  <2>3. CASE IgnoreEvent(r)
    BY <2>1, <2>3, MoveRelied DEF IgnoreEvent
  <2>4. CASE ApplyEvent(r)
    <3>1. job[r].order \in Orders
      BY <2>1, <2>4 DEF ApplyEvent, Acts, Delivery
    <3>2. \/ BeginRestock(r, job[r].order) /\ job[r].target = "cancelled"
          \/ Goto(r, "writing") /\ UNCHANGED todo
      BY <2>4 DEF ApplyEvent
    <3> QED
      BY <2>1, <2>2, <2>4, <3>1, <3>2, MoveRelied DEF ApplyEvent
  <2> QED
    BY <1>5, <2>3, <2>4
<1>6. ASSUME NEW r \in Requests, Reply(r) PROVE Relied'
  BY <1>6 DEF Reply, End, Goto, IInv, Relied, TypeOK, LocksTypeOK, HeldBy, Underway,
     RowsPinned, TodoWhileRestocking, RestocksItsOrder, LinesOf, JobKnown
<1>7. ASSUME NEW r \in Requests, NEW p \in Products, LockRow(r, p) PROVE Relied'
  <2> USE <1>7, NobodyAssumption DEF LockRow, Take, Free, IInv, Relied, TypeOK,
          LocksTypeOK, HeldBy
  <2>1. RowsPinned'
    BY DEF RowsPinned
  <2>2. TodoWhileRestocking'
    BY DEF TodoWhileRestocking
  <2>3. RestocksItsOrder'
    BY DEF RestocksItsOrder, LinesOf
  <2>4. JobKnown'
    BY DEF JobKnown
  <2> QED
    BY <2>1, <2>2, <2>3, <2>4
<1>8. ASSUME NEW r \in Requests, Write(r) PROVE Relied'
  BY <1>8, WriteRelied
<1>9. ASSUME NEW r \in Requests, AbortDeadlock(r) \/ FailWrite(r) \/ Crash(r) PROVE Relied'
  BY <1>9, EndRelied DEF AbortDeadlock, FailWrite, Crash, Ended
<1>10. ASSUME NEW p \in Products, EditStock(p) PROVE Relied'
  BY <1>10, NobodyAssumption DEF EditStock, Free, IInv, Relied, TypeOK, HeldBy,
     RowsPinned, TodoWhileRestocking, RestocksItsOrder, LinesOf, JobKnown
<1>11. CASE UNCHANGED vars
  BY <1>11 DEF vars, IInv, Relied, HeldBy, RowsPinned, TodoWhileRestocking,
     RestocksItsOrder, LinesOf, JobKnown
<1> QED
  BY <1>1, <1>2, <1>3, <1>4, <1>5, <1>6, <1>7, <1>8, <1>9, <1>10, <1>11
     DEF Next, Begin, Step, AllAnswered

LEMMA Invariance == Spec => []IInv
<1>1. IInv /\ [Next]_vars => IInv'
  BY TypeNext, ReliedNext DEF IInv
<1> QED
  BY InitIInv, <1>1, PTL DEF Spec

-----------------------------------------------------------------------------
(* Theorems *)

\* Every variable keeps its type, whatever requests race and fail.
THEOREM TypeCorrect == Spec => []TypeOK
  BY Invariance, PTL DEF IInv

\* A row locked for a restock stays as it was read until the commit.
THEOREM LockedRowsPinned == Spec => []RowsPinned
  BY Invariance, PTL DEF IInv, Relied

\* However requests race and fail, a step that moves stock_qty returns the whole
\* of one cancelled order's units, on top of what the rows hold then, or is a
\* merchant's edit of one product.
THEOREM WholeRestocks == Spec => RestocksWhole
<1> DEFINE Returns == \E r \in Requests :
             /\ job[r] # NoJob /\ job[r].target = "cancelled"
             /\ pc[r] = "restocking" /\ pc'[r] \in {"reply", "done"}
             /\ \A p \in Products : stock'[p] = stock[p] + items[job[r].order][p]
           Edits == \E p \in Products : Free(p) /\ stock' = [stock EXCEPT ![p] = stock'[p]]
<1>1. IInv /\ [Next]_vars => [stock' # stock => Returns \/ Edits]_vars
  <2> SUFFICES ASSUME IInv, [Next]_vars, stock' # stock PROVE Returns \/ Edits
    OBVIOUS
  <2>1. ASSUME NEW r \in Requests, Write(r) PROVE Returns
    <3>1. pc[r] = "restocking"
      BY <2>1, WritesPinned DEF Write, ReadyToWrite
    <3>2. job[r] # NoJob /\ job[r].target = "cancelled"
      BY <3>1 DEF IInv, Relied, RestocksItsOrder
    <3>3. pc'[r] \in {"reply", "done"}
      BY <2>1 DEF Write, End, Goto, IInv, TypeOK
    <3>4. stock' = [p \in Products |-> stock[p] + items[job[r].order][p]]
      BY <2>1, <3>1, WritesPinned DEF Write
    <3> QED
      BY <3>1, <3>2, <3>3, <3>4
  <2>2. ASSUME NEW p \in Products, EditStock(p) PROVE Edits
    BY <2>2 DEF EditStock, IInv, TypeOK
  <2>3. ASSUME NEW r \in Requests, Begin(r) \/ Crash(r) PROVE FALSE
    BY <2>3 DEF Begin, RefusePatch, AcceptPatch, ClaimEvent, IgnoreDuplicate, Crash, rowVars
  <2>4. ASSUME NEW r \in Requests, Step(r) PROVE Write(r)
    BY <2>4 DEF Step, IgnoreEvent, ApplyEvent, Reply, LockRow, AbortDeadlock, FailWrite,
       rowVars
  <2>5. CASE UNCHANGED vars
    BY <2>5 DEF vars, rowVars
  <2> QED
    BY <2>1, <2>2, <2>3, <2>4, <2>5 DEF Next, AllAnswered
<1> QED
  BY <1>1, Invariance, PTL DEF Spec, RestocksWhole
-----------------------------------------------------------------------------
(* Units *)

\* A request that is about to cancel an order without a restock has read that it was
\* cancelled, and then the commit leaves the status alone.
CancelsRestock == \A r \in Requests :
  /\ pc[r] = "restocking" => current[r] # "cancelled"
  /\ pc[r] = "writing" /\ job[r].target = "cancelled" => current[r] = "cancelled"

UnitsInv == CancelsRestock /\ IsFiniteSet(Cancelled) /\ NoUnitLost

LEMMA CancelsNext == IInv /\ CancelsRestock /\ [Next]_vars => CancelsRestock'
<1> SUFFICES ASSUME IInv, CancelsRestock, [Next]_vars PROVE CancelsRestock'
  OBVIOUS
<1> USE DEF IInv, TypeOK, CancelsRestock, Goto, rowVars, jobVars
<1>1. ASSUME NEW r \in Requests, Begin(r) PROVE CancelsRestock'
  BY <1>1 DEF Begin, RefusePatch, AcceptPatch, BeginRestock, ClaimEvent, IgnoreDuplicate
<1>2. ASSUME NEW r \in Requests, ApplyEvent(r) PROVE CancelsRestock'
  <2>1. /\ pc[r] = "claimed" /\ UNCHANGED job
        /\ current' = [current EXCEPT ![r] = status[job[r].order]]
        /\ pc' = [pc EXCEPT ![r] = IF job[r].target = "cancelled" THEN "restocking" ELSE "writing"]
    BY <1>2 DEF ApplyEvent, BeginRestock
  <2>2. status[job[r].order] = "pending"
    BY <1>2, <2>1 DEF ApplyEvent, Acts, Relied, JobKnown
  <2> QED
    BY <2>1, <2>2
<1>3. ASSUME NEW r \in Requests, NEW to \in Ended, End(r, to) PROVE CancelsRestock'
  BY <1>3 DEF End, Ended
<1>4. ASSUME NEW r \in Requests, Write(r) PROVE CancelsRestock'
  <2>1. (Goto(r, "reply") /\ UNCHANGED jobVars) \/ End(r, "done")
    BY <1>4 DEF Write
  <2> QED
    BY <1>3, <2>1 DEF Ended
<1>5. ASSUME NEW r \in Requests,
             IgnoreEvent(r) \/ \E p \in Products : LockRow(r, p)
      PROVE  CancelsRestock'
  BY <1>5 DEF IgnoreEvent, LockRow
<1>6. ASSUME NEW r \in Requests,
             Reply(r) \/ AbortDeadlock(r) \/ FailWrite(r) \/ Crash(r)
      PROVE  CancelsRestock'
  BY <1>3, <1>6 DEF Reply, AbortDeadlock, FailWrite, Crash, Ended
<1>7. ASSUME NEW p \in Products, EditStock(p) PROVE CancelsRestock'
  BY <1>7 DEF EditStock
<1>8. CASE UNCHANGED vars
  BY <1>8 DEF vars
<1> QED
  BY <1>1, <1>2, <1>4, <1>5, <1>6, <1>7, <1>8 DEF Next, Step, AllAnswered

\* The units of a set of orders, one order more, and fewer orders.
LEMMA UnitsAdd ==
  ASSUME IInv, NEW S \in SUBSET Orders, IsFiniteSet(S), NEW o \in Orders \ S, NEW p \in Products
  PROVE  UnitsIn(S \cup {o}, p) = items[o][p] + UnitsIn(S, p)
<1> DEFINE f == [q \in Orders |-> items[q][p]]
<1>1. \A q \in Orders : f[q] \in Int
  BY QtyAssumption DEF IInv, TypeOK, Quantities
<1>2. f[o] = items[o][p]
  OBVIOUS
<1> HIDE DEF f
<1>3. SumFunctionOnSet(f, S \cup {o}) = f[o] + SumFunctionOnSet(f, S)
  BY <1>1, SumAdd
<1> QED
  BY <1>2, <1>3 DEF UnitsIn, f

LEMMA UnitsFewer ==
  ASSUME IInv, NEW S \in SUBSET Orders, IsFiniteSet(S), NEW T \in SUBSET S, NEW p \in Products
  PROVE  UnitsIn(T, p) <= UnitsIn(S, p) /\ UnitsIn(S, p) \in Nat /\ UnitsIn(T, p) \in Nat
<1> DEFINE f == [q \in Orders |-> items[q][p]]
<1>1. \A q \in Orders : f[q] \in Nat
  BY QtyAssumption DEF IInv, TypeOK, Quantities
<1> HIDE DEF f
<1>2. IsFiniteSet(T)
  BY FS_Subset
<1>3. /\ SumFunctionOnSet(f, T) <= SumFunctionOnSet(f, S)
      /\ SumFunctionOnSet(f, S) \in Nat /\ SumFunctionOnSet(f, T) \in Nat
  BY <1>1, <1>2, SumMonotone, SumNat
<1> QED
  BY <1>3 DEF UnitsIn, f

\* A commit that cancels an order returns its units, and one that does not cancel one
\* may only take the order out of the cancelled ones.
LEMMA WriteUnits ==
  ASSUME IInv, UnitsInv, NEW r \in Requests, Write(r)
  PROVE  IsFiniteSet(Cancelled') /\ NoUnitLost'
<1> DEFINE o == job[r].order
<1>1. /\ o \in Orders /\ job[r].target \in Status /\ UNCHANGED <<items, supply>>
      /\ stock' = Restocked(r)
      /\ status' = IF job[r].target = current[r] THEN status
                   ELSE [status EXCEPT ![o] = job[r].target]
  BY WriteTypes DEF Write
<1>2. \A S, p : UnitsIn(S, p)' = UnitsIn(S', p)
  BY <1>1 DEF UnitsIn
<1>3. IsFiniteSet(Cancelled) /\ Cancelled \in SUBSET Orders
  BY DEF UnitsInv, Cancelled
<1>4. \A p \in Products : /\ stock[p] \in Nat /\ supply[p] \in Int /\ items[o][p] \in Nat
                          /\ UnitsIn(Cancelled, p) \in Nat
                          /\ stock[p] >= supply[p] + UnitsIn(Cancelled, p)
  BY <1>1, <1>3, UnitsFewer, QtyAssumption DEF IInv, TypeOK, Quantities, UnitsInv, NoUnitLost
<1>5. CASE pc[r] = "restocking"
  <2>1. status' = [status EXCEPT ![o] = "cancelled"]
    BY <1>1, <1>5 DEF UnitsInv, CancelsRestock, IInv, Relied, RestocksItsOrder
  <2>2. Cancelled' = Cancelled \cup {o}
    BY <1>1, <2>1 DEF Cancelled, IInv, TypeOK
  <2>3. \A p \in Products : stock'[p] = stock[p] + items[o][p]
    BY <1>1, <1>5, WritesPinned DEF Write
  <2>4. IsFiniteSet(Cancelled')
    BY <1>3, <2>2, FS_AddElement
  <2>5. ASSUME NEW p \in Products PROVE UnitsIn(Cancelled', p) <= UnitsIn(Cancelled, p) + items[o][p]
    <3>1. CASE o \in Cancelled
      <4>1. Cancelled' = Cancelled
        BY <2>2, <3>1
      <4>2. UnitsIn(Cancelled', p) = UnitsIn(Cancelled, p)
        BY <4>1, Zenon
      <4> QED
        BY <1>4, <4>2
    <3>2. CASE o \notin Cancelled
      <4>1. UnitsIn(Cancelled \cup {o}, p) = items[o][p] + UnitsIn(Cancelled, p)
        BY <1>1, <1>3, <3>2, UnitsAdd
      <4>2. UnitsIn(Cancelled', p) = items[o][p] + UnitsIn(Cancelled, p)
        BY <2>2, <4>1, Zenon
      <4> QED
        BY <1>4, <4>2
    <3> QED
      BY <3>1, <3>2
  <2>6. \A p \in Products : UnitsIn(Cancelled', p) \in Nat
    <3>1. Cancelled' \in SUBSET Orders
      BY DEF Cancelled
    <3> QED
      BY <2>4, <3>1, UnitsFewer
  <2> QED
    BY <1>1, <1>2, <1>4, <2>3, <2>4, <2>5, <2>6 DEF NoUnitLost
<1>6. CASE pc[r] = "writing"
  <2>1. Cancelled' \in SUBSET Cancelled
    BY <1>1, <1>6 DEF Cancelled, UnitsInv, CancelsRestock, IInv, TypeOK
  <2>2. stock' = stock
    BY <1>1, <1>6, WritesPinned DEF Write
  <2>3. IsFiniteSet(Cancelled')
    BY <1>3, <2>1, FS_Subset
  <2>4. \A p \in Products : UnitsIn(Cancelled', p) <= UnitsIn(Cancelled, p) /\ UnitsIn(Cancelled', p) \in Nat
    BY <1>3, <2>1, UnitsFewer
  <2> QED
    BY <1>1, <1>2, <1>4, <2>2, <2>3, <2>4 DEF NoUnitLost
<1> QED
  BY <1>5, <1>6 DEF Write, ReadyToWrite

LEMMA UnitsNext == IInv /\ UnitsInv /\ [Next]_vars => UnitsInv'
<1> SUFFICES ASSUME IInv, UnitsInv, [Next]_vars PROVE IsFiniteSet(Cancelled') /\ NoUnitLost'
  BY CancelsNext DEF UnitsInv
<1>1. ASSUME UNCHANGED <<status, items>>
      PROVE  /\ IsFiniteSet(Cancelled') /\ Cancelled \in SUBSET Orders
             /\ \A p \in Products : UnitsIn(Cancelled, p)' = UnitsIn(Cancelled, p)
                                    /\ UnitsIn(Cancelled, p) \in Nat
  <2>1. Cancelled' = Cancelled /\ Cancelled \in SUBSET Orders
    BY <1>1 DEF Cancelled
  <2>2. IsFiniteSet(Cancelled)
    BY DEF UnitsInv
  <2>3. \A p \in Products : UnitsIn(Cancelled, p) \in Nat
    BY <2>1, <2>2, UnitsFewer
  <2>4. \A p \in Products : UnitsIn(Cancelled, p)' = UnitsIn(Cancelled, p)
    BY <1>1 DEF UnitsIn, Cancelled
  <2> QED
    BY <2>1, <2>2, <2>3, <2>4
<1>2. ASSUME UNCHANGED rowVars PROVE IsFiniteSet(Cancelled') /\ NoUnitLost'
  BY <1>1, <1>2 DEF UnitsInv, NoUnitLost, rowVars
<1>3. ASSUME NEW r \in Requests, Write(r) PROVE IsFiniteSet(Cancelled') /\ NoUnitLost'
  BY <1>3, WriteUnits
<1>4. ASSUME NEW r \in Requests, Begin(r) \/ Crash(r) PROVE UNCHANGED rowVars
  BY <1>4 DEF Begin, RefusePatch, AcceptPatch, ClaimEvent, IgnoreDuplicate, Crash
<1>5. ASSUME NEW r \in Requests, Step(r) PROVE Write(r) \/ UNCHANGED rowVars
  BY <1>5 DEF Step, IgnoreEvent, ApplyEvent, Reply, LockRow, AbortDeadlock, FailWrite
<1>6. ASSUME NEW p \in Products, EditStock(p) PROVE IsFiniteSet(Cancelled') /\ NoUnitLost'
  <2>1. PICK n \in EditStocks : /\ stock' = [stock EXCEPT ![p] = n]
                                /\ supply' = [supply EXCEPT ![p] = @ + n - stock[p]]
    BY <1>6 DEF EditStock
  <2>2. UNCHANGED <<status, items>> /\ n \in Nat
    BY <1>6, QtyAssumption DEF EditStock
  <2>3. \A q \in Products : /\ stock[q] \in Nat /\ supply[q] \in Int
                            /\ stock[q] >= supply[q] + UnitsIn(Cancelled, q)
    BY DEF IInv, TypeOK, UnitsInv, NoUnitLost
  <2>4. ASSUME NEW q \in Products PROVE stock'[q] >= supply'[q] + UnitsIn(Cancelled, q)
    <3>1. stock'[q] - supply'[q] = stock[q] - supply[q]
      BY <2>1, <2>2, <2>3 DEF IInv, TypeOK
    <3>2. stock'[q] \in Int /\ supply'[q] \in Int
      BY <2>1, <2>2, <2>3 DEF IInv, TypeOK
    <3>3. UnitsIn(Cancelled, q) \in Nat
      BY <1>1, <2>2
    <3> QED
      BY <2>3, <3>1, <3>2, <3>3
  <2> QED
    BY <1>1, <2>2, <2>4 DEF NoUnitLost
<1>7. CASE UNCHANGED vars
  BY <1>2, <1>7 DEF vars
<1> QED
  BY <1>2, <1>3, <1>4, <1>5, <1>6, <1>7 DEF Next, AllAnswered

LEMMA UnitsInvariance == Spec => []UnitsInv
<1>1. Init => UnitsInv
  <2> SUFFICES ASSUME Init PROVE UnitsInv
    OBVIOUS
  <2>1. Cancelled = {}
    BY DEF Init, Cancelled
  <2>2. \A p \in Products : stock[p] \in Nat /\ supply[p] = stock[p]
    BY QtyAssumption DEF Init
  <2>3. \A p \in Products : UnitsIn(Cancelled, p) = 0
    BY <2>1, SumEmpty, Zenon DEF UnitsIn
  <2>4. NoUnitLost
    BY <2>2, <2>3 DEF NoUnitLost
  <2> QED
    BY <2>1, <2>4, FS_EmptySet DEF UnitsInv, CancelsRestock, Init
<1>2. IInv /\ UnitsInv /\ [Next]_vars => UnitsInv'
  BY UnitsNext
<1> QED
  BY <1>1, <1>2, Invariance, PTL DEF Spec

\* However requests, payments and faults race, stock_qty is never below the supply plus
\* the units of the cancelled orders (_restock_order, update_product).
THEOREM UnitsKept == Spec => []NoUnitLost
BY UnitsInvariance, PTL DEF UnitsInv

-----------------------------------------------------------------------------
(* Payments, where nothing fails *)

\* A handler that will still move the order of event e.
Applies(r, e) == /\ pc[r] \in {"claimed", "writing"}
                 /\ job[r].role = "stripe" /\ job[r].event = e

\* A claimed payment has moved its order or has such a handler; no request is about to
\* make an order pending, so that what has moved stays moved.
PaymentsTaken ==
  /\ acked \subseteq claimed
  /\ \A e \in claimed : Paid(e) =>
       status[event[e].order] # "pending" \/ \E r \in Requests : Applies(r, e)
  /\ \A r \in Requests :
       /\ pc[r] \in {"writing", "restocking"} => job[r].target # "pending"
       /\ pc[r] \in Underway /\ job[r].role = "stripe" =>
            /\ job[r] \in Delivery /\ job[r].event \in claimed
            /\ job[r].order = event[job[r].event].order
            /\ job[r].target = Target(job[r].event)
            /\ pc[r] = "writing" => current[r] = "pending"
            /\ pc[r] = "restocking" => job[r].target = "cancelled"

\* What a step of r does to a payment: at the most it takes the handler away from an event
\* whose order has moved.
LEMMA PaymentStep ==
  ASSUME IInv, PaymentsTaken, NEW r \in Requests, UNCHANGED event,
         claimed \subseteq claimed', acked' \subseteq claimed',
         \A o \in Orders : status[o] # "pending" => status'[o] # "pending",
         \A q \in Requests \ {r} :
           pc'[q] = pc[q] /\ job'[q] = job[q] /\ current'[q] = current[q],
         \A e \in claimed : Paid(e) /\ Applies(r, e) =>
           Applies(r, e)' \/ status'[event[e].order] # "pending",
         \A e \in claimed' \ claimed : Applies(r, e)',
         pc'[r] \in {"writing", "restocking"} => job'[r].target # "pending",
         pc'[r] \in Underway /\ job'[r].role = "stripe" =>
            /\ job'[r] \in Delivery /\ job'[r].event \in claimed'
            /\ job'[r].order = event[job'[r].event].order
            /\ job'[r].target = Target(job'[r].event)
            /\ pc'[r] = "writing" => current'[r] = "pending"
            /\ pc'[r] = "restocking" => job'[r].target = "cancelled"
  PROVE  PaymentsTaken'
<1>1. ASSUME NEW e \in claimed', Paid(e)'
      PROVE  (status[event[e].order] # "pending")' \/ \E q \in Requests : Applies(q, e)'
  <2>1. CASE e \in claimed
    <3>1. Paid(e) /\ event[e].order \in Orders /\ event'[e] = event[e]
      BY <1>1, <2>1 DEF Paid, IInv, TypeOK, EventBody
    <3>2. status[event[e].order] # "pending" \/ \E q \in Requests : Applies(q, e)
      BY <2>1, <3>1 DEF PaymentsTaken
    <3>3. ASSUME NEW q \in Requests \ {r}, Applies(q, e) PROVE Applies(q, e)'
      BY <3>3 DEF Applies
    <3> QED
      BY <2>1, <3>1, <3>2, <3>3
  <2>2. CASE e \notin claimed
    BY <1>1, <2>2
  <2> QED
    BY <2>1, <2>2
<1>2. \A e : Target(e)' = Target(e)
  BY DEF Target
<1> QED
  BY <1>1, <1>2 DEF PaymentsTaken, Underway

LEMMA PaymentsNext ==
  ASSUME Faults = {}, "admin" \notin Roles
  PROVE  IInv /\ PaymentsTaken /\ [Next]_vars => PaymentsTaken'
<1> SUFFICES ASSUME IInv, PaymentsTaken, [Next]_vars PROVE PaymentsTaken'
  OBVIOUS
<1> USE DEF rowVars, jobVars, lockVars
<1>0. /\ pc \in [Requests -> {"idle"} \cup Underway \cup Ended]
      /\ job \in [Requests -> {NoJob} \cup Patch \cup Delivery]
      /\ current \in [Requests -> Status] /\ status \in [Orders -> Status]
      /\ acked \subseteq claimed /\ event \in [Events -> EventBody]
  BY DEF IInv, TypeOK, PaymentsTaken
<1>1. ASSUME NEW r \in Requests, RefusePatch(r) PROVE PaymentsTaken'
  BY <1>0, <1>1, PaymentStep DEF RefusePatch, MayBegin, Goto, Applies, Underway
<1>2. ASSUME NEW r \in Requests, NEW role \in Roles, NEW o \in Orders, NEW to \in Status,
             AcceptPatch(r, role, o, to)
      PROVE  PaymentsTaken'
  <2>1. to # "pending"
    <3>1. \A s \in Status : Rank(s) \in 0..4
      BY DEF Rank, Status
    <3>2. Rank("pending") = 0 /\ Allowed(role, status[o], to) /\ status[o] \in Status
      BY <1>0, <1>2 DEF AcceptPatch, Rank
    <3> QED
      BY <3>1, <3>2, RoleAssumption DEF Allowed, UserRoles
  <2>2. /\ pc[r] = "idle" /\ job' = [job EXCEPT ![r] = [role |-> role, order |-> o, target |-> to]]
        /\ \E p \in {"writing", "restocking"} : Goto(r, p)
        /\ UNCHANGED <<status, event, claimed, acked>>
        /\ \A q \in Requests \ {r} : current'[q] = current[q]
    BY <1>0, <1>2 DEF AcceptPatch, MayBegin, BeginRestock
  <2>3. role # "stripe"
    BY RoleAssumption DEF UserRoles
  <2> QED
    BY <1>0, <2>1, <2>2, <2>3, PaymentStep DEF Goto, Applies
<1>3. ASSUME NEW r \in Requests, NEW e \in Events, ClaimEvent(r, e) PROVE PaymentsTaken'
  <2> DEFINE j == [role |-> "stripe", order |-> event[e].order, target |-> Target(e),
                   event |-> e]
  <2>1. j \in Delivery
    BY <1>0 DEF Delivery, EventBody, Target, Status
  <2>2. j.role = "stripe" /\ j.event = e /\ j.order = event[e].order /\ j.target = Target(e)
    OBVIOUS
  <2> HIDE DEF j
  <2>3. /\ pc[r] = "idle" /\ job' = [job EXCEPT ![r] = j] /\ Goto(r, "claimed")
        /\ claimed' = claimed \cup {e} /\ UNCHANGED <<status, event, acked, current>>
    BY <1>3 DEF ClaimEvent, MayBegin, j
  <2> QED
    BY <1>0, <2>1, <2>2, <2>3, PaymentStep DEF Goto, Applies
<1>4. ASSUME NEW r \in Requests, NEW e \in Events, IgnoreDuplicate(r, e) PROVE PaymentsTaken'
  BY <1>0, <1>4, PaymentStep DEF IgnoreDuplicate, MayBegin, Goto, Applies, Underway
<1>5. ASSUME NEW r \in Requests, pc[r] = "claimed"
      PROVE  /\ job[r] \in Delivery /\ job[r].event \in claimed /\ job[r].role = "stripe"
             /\ job[r].order = event[job[r].event].order
             /\ job[r].target = Target(job[r].event)
  BY <1>5 DEF PaymentsTaken, IInv, Relied, JobKnown, Underway
<1>6. ASSUME NEW r \in Requests, IgnoreEvent(r) PROVE PaymentsTaken'
  <2>1. pc[r] = "claimed" /\ Goto(r, "reply") /\ ~Acts(job[r].event)
        /\ UNCHANGED <<status, event, claimed, acked, job, current>>
    BY <1>6 DEF IgnoreEvent
  <2>2. Paid(job[r].event) => status[event[job[r].event].order] # "pending"
    BY <2>1 DEF Acts, Paid
  <2> QED
    BY <1>0, <1>5, <2>1, <2>2, PaymentStep DEF Goto, Applies
<1>7. ASSUME NEW r \in Requests, ApplyEvent(r) PROVE PaymentsTaken'
  <2>1. /\ pc[r] = "claimed" /\ Acts(job[r].event)
        /\ current' = [current EXCEPT ![r] = status[job[r].order]]
        /\ \/ job[r].target = "cancelled" /\ Goto(r, "restocking")
           \/ job[r].target # "cancelled" /\ Goto(r, "writing")
        /\ UNCHANGED <<status, event, claimed, acked, job>>
    BY <1>7 DEF ApplyEvent, BeginRestock
  <2>2. status[job[r].order] = "pending" /\ job[r].target # "pending"
    BY <1>5, <2>1 DEF Acts, Target
  <2>3. Paid(job[r].event) => job[r].target # "cancelled"
    BY <1>5, <2>1 DEF Paid, Target
  <2> QED
    BY <1>0, <1>5, <2>1, <2>2, <2>3, PaymentStep DEF Goto, Applies
<1>8. ASSUME NEW r \in Requests, Reply(r) PROVE PaymentsTaken'
  <2>1. /\ pc[r] = "reply" /\ acked' = acked \cup {job[r].event} /\ Goto(r, "done")
        /\ job' = [job EXCEPT ![r] = NoJob] /\ current' = [current EXCEPT ![r] = "pending"]
        /\ UNCHANGED <<status, event, claimed>>
    BY <1>8 DEF Reply, End
  <2>2. job[r].event \in claimed
    BY <2>1 DEF PaymentsTaken, IInv, Relied, JobKnown, Underway
  <2> QED
    BY <1>0, <2>1, <2>2, PaymentStep DEF Goto, Applies, Underway
<1>9. ASSUME NEW r \in Requests, NEW p \in Products, LockRow(r, p) PROVE PaymentsTaken'
  BY <1>0, <1>9 DEF LockRow, PaymentsTaken, Paid, Applies, Target
<1>10. ASSUME NEW r \in Requests, AbortDeadlock(r) PROVE PaymentsTaken'
  <2>1. pc[r] = "restocking"
    BY <1>10, NobodyAssumption DEF AbortDeadlock, Deadlocked, IInv, Relied, TodoWhileRestocking
  <2>2. /\ Goto(r, "failed") /\ job' = [job EXCEPT ![r] = NoJob]
        /\ current' = [current EXCEPT ![r] = "pending"]
        /\ UNCHANGED <<status, event, claimed, acked>>
    BY <1>10 DEF AbortDeadlock, End
  <2> QED
    BY <1>0, <2>1, <2>2, PaymentStep DEF Goto, Applies, Underway
<1>11. ASSUME NEW r \in Requests, Write(r) PROVE PaymentsTaken'
  <2>1. /\ pc[r] \in {"writing", "restocking"} /\ UNCHANGED <<event, claimed, acked>>
        /\ job[r].target # "pending" /\ job[r].order \in Orders
        /\ status' = IF job[r].target = current[r] THEN status
                     ELSE [status EXCEPT ![job[r].order] = job[r].target]
    BY <1>11, WriteTypes DEF Write, ReadyToWrite, PaymentsTaken
  <2>2. /\ job[r].role = "stripe" => Goto(r, "reply") /\ UNCHANGED <<job, current>>
        /\ job[r].role # "stripe" => /\ Goto(r, "done") /\ job' = [job EXCEPT ![r] = NoJob]
                                     /\ current' = [current EXCEPT ![r] = "pending"]
    BY <1>11 DEF Write, End
  <2>3. ASSUME NEW e \in claimed, Paid(e), Applies(r, e)
        PROVE  status'[event[e].order] # "pending"
    <3>1. pc[r] = "writing" /\ job[r].role = "stripe" /\ job[r].event = e
      BY <2>1, <2>3 DEF Applies
    <3>2. current[r] = "pending" /\ job[r].order = event[e].order
      BY <3>1 DEF PaymentsTaken, Underway
    <3> QED
      BY <1>0, <2>1, <3>2
  <2>4. \A o \in Orders : status[o] # "pending" => status'[o] # "pending"
    BY <1>0, <2>1
  <2>5. pc'[r] \notin {"writing", "restocking"}
        /\ (pc'[r] \in Underway => job[r].role = "stripe" /\ job'[r] = job[r])
    BY <1>0, <2>2 DEF Goto, Underway
  <2>6. \A q \in Requests \ {r} :
          pc'[q] = pc[q] /\ job'[q] = job[q] /\ current'[q] = current[q]
    BY <1>0, <2>2 DEF Goto
  <2>7. job[r].role = "stripe" => /\ job[r] \in Delivery /\ job[r].event \in claimed
                                  /\ job[r].order = event[job[r].event].order
                                  /\ job[r].target = Target(job[r].event)
    BY <2>1 DEF PaymentsTaken, Underway
  <2> QED
    BY <1>0, <2>1, <2>3, <2>4, <2>5, <2>6, <2>7, PaymentStep
<1>12. ASSUME NEW r \in Requests PROVE ~FailWrite(r) /\ ~Crash(r)
  BY DEF FailWrite, Crash
<1>13. ASSUME UNCHANGED <<status, event, claimed, acked, pc, job, current>>
       PROVE  PaymentsTaken'
  BY <1>13 DEF PaymentsTaken, Paid, Applies, Target
<1>14. ASSUME NEW p \in Products, EditStock(p) PROVE PaymentsTaken'
  BY <1>13, <1>14 DEF EditStock
<1>15. CASE UNCHANGED vars
  BY <1>13, <1>15 DEF vars
<1> QED
  BY <1>1, <1>2, <1>3, <1>4, <1>6, <1>7, <1>8, <1>9, <1>10, <1>11, <1>12, <1>14, <1>15
     DEF Next, Begin, Step, AllAnswered

\* Where no process dies and no commit fails, and no admin reopens orders, a payment that
\* Stripe will not report again has moved its order or is being handled, whatever
\* redeliveries, cancellations and shipments overlap with it.
THEOREM PaymentsApplied ==
  ASSUME Faults = {}, "admin" \notin Roles
  PROVE  Spec => []AckedIsApplied
<1>1. Init => PaymentsTaken
  BY DEF Init, PaymentsTaken, Underway
<1>2. IInv /\ PaymentsTaken /\ [Next]_vars => PaymentsTaken'
  BY PaymentsNext
<1>3. PaymentsTaken => AckedIsApplied
  BY DEF PaymentsTaken, AckedIsApplied, Applies, Underway
<1> QED
  BY <1>1, <1>2, <1>3, Invariance, PTL DEF Spec
=============================================================================
