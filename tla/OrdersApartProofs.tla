-------------------------- MODULE OrdersApartProofs --------------------------
(***************************************************************************)
(* What OrderLifecycle keeps when no request decides on an order while     *)
(* another one has a decision on it still to write: every number of        *)
(* orders, requests, products and events, however requests about different *)
(* orders overlap, every fault.  The runs that violate the same promises   *)
(* overlap on one order, and the only other way to break them is an admin  *)
(* who moves a cancelled order on.                                         *)
(***************************************************************************)
EXTENDS OrderLifecycleProofs

\* A decision under way was taken on the status that the order still has.
Fresh == \A r \in Requests : pc[r] \in Deciding => current[r] = status[job[r].order]

LEMMA InitFresh == Init => Fresh
  BY DEF Init, Fresh, Deciding

LEMMA NextFresh ==
  ASSUME Apart, IInv, Fresh, [Next]_vars
  PROVE  Fresh'
<1> USE DEF IInv, TypeOK, rowVars, jobVars, Deciding
<1>1. ASSUME NEW r \in Requests, NEW to, Goto(r, to), UNCHANGED status,
             \A q \in Requests \ {r} : job'[q] = job[q] /\ current'[q] = current[q],
             to \in Deciding => current'[r] = status[job'[r].order]
      PROVE  Fresh'
  BY <1>1 DEF Fresh, Goto
<1>2. ASSUME NEW r \in Requests, NEW role \in Roles, NEW o \in Orders, NEW to \in Status,
             AcceptPatch(r, role, o, to)
      PROVE  Fresh'
  <2>1. PICK at : Goto(r, at)
    BY <1>2 DEF AcceptPatch, BeginRestock
  <2>2. /\ UNCHANGED status /\ current'[r] = status[o]
        /\ job'[r] = [role |-> role, order |-> o, target |-> to]
        /\ \A q \in Requests \ {r} : job'[q] = job[q] /\ current'[q] = current[q]
    BY <1>2 DEF AcceptPatch
  <2> QED
    BY <1>1, <2>1, <2>2
<1>3. ASSUME NEW r \in Requests, ApplyEvent(r) PROVE Fresh'
  <2>1. PICK at : Goto(r, at)
    BY <1>3 DEF ApplyEvent, BeginRestock
  <2>2. /\ UNCHANGED <<status, job>> /\ current'[r] = status[job[r].order]
        /\ \A q \in Requests \ {r} : current'[q] = current[q]
    BY <1>3 DEF ApplyEvent
  <2> QED
    BY <1>1, <2>1, <2>2
<1>4. ASSUME NEW r \in Requests, NEW e \in Events, ClaimEvent(r, e) PROVE Fresh'
  BY <1>1, <1>4 DEF ClaimEvent
<1>5. ASSUME NEW r \in Requests, NEW e \in Events, IgnoreDuplicate(r, e) PROVE Fresh'
  BY <1>1, <1>5 DEF IgnoreDuplicate
<1>6. ASSUME NEW r \in Requests, RefusePatch(r) \/ IgnoreEvent(r) PROVE Fresh'
  BY <1>1, <1>6 DEF RefusePatch, IgnoreEvent
<1>7. ASSUME NEW r \in Requests, NEW to \in Ended, End(r, to), UNCHANGED status PROVE Fresh'
  BY <1>1, <1>7 DEF End, Ended
<1>8. ASSUME NEW r \in Requests, Reply(r) \/ AbortDeadlock(r) \/ FailWrite(r) \/ Crash(r)
      PROVE  Fresh'
  BY <1>7, <1>8 DEF Reply, AbortDeadlock, FailWrite, Crash, Ended
<1>9. ASSUME NEW r \in Requests, Write(r) PROVE Fresh'
  <2>1. /\ job[r].order \in Orders /\ pc[r] \in Deciding
        /\ \A o \in Orders \ {job[r].order} : status'[o] = status[o]
    BY <1>9, WriteTypes DEF Write, ReadyToWrite
  <2>2. /\ pc'[r] \in {"reply", "done"}
        /\ \A q \in Requests \ {r} : /\ pc'[q] = pc[q] /\ job'[q] = job[q]
                                     /\ current'[q] = current[q]
    BY <1>9 DEF Write, End, Goto
  <2>3. ASSUME NEW q \in Requests \ {r}, pc[q] \in Deciding
        PROVE  job[q].order \in Orders \ {job[r].order}
    BY <2>1, <2>3 DEF Apart, Relied, JobKnown, RestocksItsOrder
  <2> QED
    BY <2>1, <2>2, <2>3 DEF Fresh
<1>10. ASSUME UNCHANGED <<status, pc, jobVars>> PROVE Fresh'
  BY <1>10 DEF Fresh
<1>11. ASSUME NEW r \in Requests, NEW p \in Products, LockRow(r, p) PROVE Fresh'
  BY <1>10, <1>11 DEF LockRow
<1>12. ASSUME NEW p \in Products, EditStock(p) PROVE Fresh'
  BY <1>10, <1>12 DEF EditStock
<1>13. CASE UNCHANGED vars
  BY <1>10, <1>13 DEF vars
<1> QED
  BY <1>2, <1>3, <1>4, <1>5, <1>6, <1>8, <1>9, <1>11, <1>12, <1>13
     DEF Next, Begin, Step, AllAnswered

\* What holds of the code holds of it under this condition.
LEMMA ApartIsSpec == ApartSpec => Spec
<1>1. [Next /\ Apart']_vars => [Next]_vars
  OBVIOUS
<1> QED
  BY <1>1, PTL DEF ApartSpec, Spec

LEMMA FreshInvariance == ApartSpec => [](IInv /\ Fresh)
<1>1. Init => Apart
  BY DEF Init, Apart, Deciding
<1>2. Apart /\ [Next /\ Apart']_vars => Apart'
  BY DEF Apart, vars, jobVars
<1>3. Apart /\ IInv /\ Fresh /\ [Next]_vars => Fresh'
  BY NextFresh
<1> QED
  BY InitFresh, <1>1, <1>2, <1>3, ApartIsSpec, Invariance, PTL DEF ApartSpec, Spec

\* A commit moves the status of one order, from what the request had read.
LEMMA WriteMoves ==
  ASSUME IInv, Fresh, NEW r \in Requests, Write(r)
  PROVE  /\ job[r].order \in Orders /\ job[r].target \in Status
         /\ status' = [status EXCEPT ![job[r].order] = job[r].target]
         /\ current[r] = status[job[r].order]
<1>1. job[r].order \in Orders /\ job[r].target \in Status
  BY WriteTypes DEF Write
<1>2. current[r] = status[job[r].order]
  BY DEF Write, ReadyToWrite, Fresh, Deciding
<1>3. status' = [status EXCEPT ![job[r].order] = job[r].target]
  BY <1>1, <1>2 DEF Write, IInv, TypeOK
<1> QED
  BY <1>1, <1>2, <1>3

-----------------------------------------------------------------------------
(* The table of moves, without admins *)

CancelDecided(r) == /\ current[r] \in {"pending", "confirmed"}
                    /\ job[r].target = "cancelled"

AdvanceDecided(r) == /\ {current[r], job[r].target} \subseteq Forward
                     /\ Rank(job[r].target) > Rank(current[r])

\* What a customer, a merchant or Stripe may have decided, given what was read.
Decided(r) ==
  /\ pc[r] = "claimed" => job[r].target \in {"cancelled", "confirmed"}
  /\ pc[r] = "restocking" => CancelDecided(r)
  /\ pc[r] = "writing" => AdvanceDecided(r)

DInv == \A r \in Requests : Decided(r)

LEMMA InitDInv == Init => DInv
  BY DEF Init, DInv, Decided

LEMMA StepDInv ==
  ASSUME IInv, DInv, NEW r \in Requests, NEW to, Goto(r, to), Decided(r)',
         \A q \in Requests \ {r} : job'[q] = job[q] /\ current'[q] = current[q]
  PROVE  DInv'
BY DEF DInv, Decided, Goto, CancelDecided, AdvanceDecided, IInv, TypeOK

LEMMA NextDInv ==
  ASSUME "admin" \notin Roles, IInv, DInv, [Next]_vars
  PROVE  DInv'
<1> USE DEF IInv, TypeOK, rowVars, jobVars
<1>1. ASSUME NEW r \in Requests, NEW to, to \notin {"claimed", "restocking", "writing"}, Goto(r, to),
             \A q \in Requests \ {r} : job'[q] = job[q] /\ current'[q] = current[q]
      PROVE  DInv'
  <2>1. Decided(r)'
    BY <1>1 DEF Decided, Goto
  <2> QED
    BY <1>1, <2>1, StepDInv
<1>2. ASSUME NEW r \in Requests, NEW role \in Roles, NEW o \in Orders, NEW to \in Status,
             AcceptPatch(r, role, o, to)
      PROVE  DInv'
  <2>1. role \in {"customer", "merchant"} /\ Allowed(role, status[o], to)
    BY <1>2, RoleAssumption DEF AcceptPatch, UserRoles
  <2>2. /\ current'[r] = status[o]
        /\ job'[r] = [role |-> role, order |-> o, target |-> to]
        /\ \A q \in Requests \ {r} : job'[q] = job[q] /\ current'[q] = current[q]
    BY <1>2 DEF AcceptPatch
  <2>3. CASE to = "cancelled" /\ status[o] # "cancelled"
    <3>1. Goto(r, "restocking")
      BY <1>2, <2>3 DEF AcceptPatch, BeginRestock
    <3>2. CancelDecided(r)'
      BY <2>1, <2>2, <2>3 DEF Allowed, CancelDecided, Forward
    <3>3. Decided(r)'
      BY <3>1, <3>2 DEF Decided, Goto
    <3> QED
      BY <2>2, <3>1, <3>3, StepDInv
  <2>4. CASE ~(to = "cancelled" /\ status[o] # "cancelled")
    <3>1. Goto(r, "writing")
      BY <1>2, <2>4 DEF AcceptPatch
    <3>2. AdvanceDecided(r)'
      BY <2>1, <2>2, <2>4 DEF Allowed, AdvanceDecided
    <3>3. Decided(r)'
      BY <3>1, <3>2 DEF Decided, Goto
    <3> QED
      BY <2>2, <3>1, <3>3, StepDInv
  <2> QED
    BY <2>3, <2>4
<1>3. ASSUME NEW r \in Requests, NEW e \in Events, ClaimEvent(r, e) PROVE DInv'
  <2>1. Goto(r, "claimed") /\ job'[r].target \in {"cancelled", "confirmed"}
    BY <1>3 DEF ClaimEvent, Target
  <2>2. Decided(r)'
    BY <2>1 DEF Decided, Goto
  <2> QED
    BY <1>3, <2>1, <2>2, StepDInv DEF ClaimEvent
<1>4. ASSUME NEW r \in Requests, ApplyEvent(r) PROVE DInv'
  <2>1. /\ pc[r] = "claimed" /\ UNCHANGED job /\ current'[r] = "pending"
        /\ \A q \in Requests \ {r} : current'[q] = current[q]
    BY <1>4 DEF ApplyEvent, Acts, Relied, JobKnown
  <2>2. CASE job[r].target = "cancelled"
    <3>1. Goto(r, "restocking")
      BY <1>4, <2>2 DEF ApplyEvent, BeginRestock
    <3>2. Decided(r)'
      BY <2>1, <2>2, <3>1 DEF Decided, CancelDecided, Goto
    <3> QED
      BY <2>1, <3>1, <3>2, StepDInv
  <2>3. CASE job[r].target # "cancelled"
    <3>1. Goto(r, "writing") /\ job[r].target = "confirmed"
      BY <1>4, <2>1, <2>3 DEF ApplyEvent, DInv, Decided
    <3>2. AdvanceDecided(r)'
      BY <2>1, <3>1 DEF AdvanceDecided, Forward, Status, Rank
    <3>3. Decided(r)'
      BY <3>1, <3>2 DEF Decided, Goto
    <3> QED
      BY <2>1, <3>1, <3>3, StepDInv
  <2> QED
    BY <2>2, <2>3
<1>5. ASSUME NEW r \in Requests, RefusePatch(r) \/ IgnoreEvent(r) PROVE DInv'
  BY <1>1, <1>5 DEF RefusePatch, IgnoreEvent
<1>6. ASSUME NEW r \in Requests, NEW e \in Events, IgnoreDuplicate(r, e) PROVE DInv'
  BY <1>1, <1>6 DEF IgnoreDuplicate
<1>7. ASSUME NEW r \in Requests, NEW to \in Ended, End(r, to) PROVE DInv'
  BY <1>1, <1>7 DEF End, Ended
<1>8. ASSUME NEW r \in Requests, Reply(r) \/ AbortDeadlock(r) \/ FailWrite(r) \/ Crash(r)
      PROVE  DInv'
  BY <1>7, <1>8 DEF Reply, AbortDeadlock, FailWrite, Crash, Ended
<1>9. ASSUME NEW r \in Requests, Write(r) PROVE DInv'
  BY <1>1, <1>7, <1>9 DEF Write, Ended
<1>10. ASSUME UNCHANGED <<pc, jobVars>> PROVE DInv'
  BY <1>10 DEF DInv, Decided, CancelDecided, AdvanceDecided
<1>11. ASSUME NEW r \in Requests, NEW p \in Products, LockRow(r, p) PROVE DInv'
  BY <1>10, <1>11 DEF LockRow
<1>12. ASSUME NEW p \in Products, EditStock(p) PROVE DInv'
  BY <1>10, <1>12 DEF EditStock
<1>13. CASE UNCHANGED vars
  BY <1>10, <1>13 DEF vars
<1> QED
  BY <1>2, <1>3, <1>4, <1>5, <1>6, <1>8, <1>9, <1>11, <1>12, <1>13
     DEF Next, Begin, Step, AllAnswered

\* Without overlapping decisions on one order and without admins, statuses move as the table of
\* order_service.py:12-15 says, whatever payments and faults do.
THEOREM TableFollowed ==
  ASSUME "admin" \notin Roles
  PROVE  ApartSpec => FollowsTable
<1> DEFINE Follows == \A o \in Orders : status'[o] # status[o] =>
       \/ {status[o], status'[o]} \subseteq Forward /\ Rank(status'[o]) > Rank(status[o])
       \/ status[o] \in {"pending", "confirmed"} /\ status'[o] = "cancelled"
<1>1. IInv /\ Fresh /\ DInv /\ [Next]_vars => [Follows]_vars
  <2> SUFFICES ASSUME IInv, Fresh, DInv, [Next]_vars PROVE Follows
    OBVIOUS
  <2>1. ASSUME NEW r \in Requests, Write(r) PROVE Follows
    <3>1. CancelDecided(r) \/ AdvanceDecided(r)
      BY <2>1 DEF Write, ReadyToWrite, DInv, Decided
    <3> QED
      BY <2>1, <3>1, WriteMoves DEF CancelDecided, AdvanceDecided, IInv, TypeOK
  <2>2. ASSUME NEW r \in Requests, Step(r) PROVE Write(r) \/ UNCHANGED status
    BY <2>2 DEF Step, IgnoreEvent, ApplyEvent, Reply, LockRow, AbortDeadlock, FailWrite, rowVars
  <2>3. ASSUME NEW r \in Requests, Begin(r) \/ Crash(r) PROVE UNCHANGED status
    BY <2>3 DEF Begin, RefusePatch, AcceptPatch, ClaimEvent, IgnoreDuplicate, Crash, rowVars
  <2>4. ASSUME NEW p \in Products, EditStock(p) PROVE UNCHANGED status
    BY <2>4 DEF EditStock
  <2>5. CASE UNCHANGED vars
    BY <2>5 DEF vars, rowVars
  <2> QED
    BY <2>1, <2>2, <2>3, <2>4, <2>5 DEF Next, AllAnswered
<1>2. IInv /\ DInv /\ [Next]_vars => DInv'
  BY NextDInv
<1> QED
  BY <1>1, <1>2, InitDInv, FreshInvariance, ApartIsSpec, PTL DEF ApartSpec, Spec, FollowsTable

-----------------------------------------------------------------------------
(* Restocks, with any roles *)

\* The sale of a cancelled order stays void: no admin moves the order on.
NobodyReopens == \A o \in Orders : status[o] = "cancelled" => status'[o] = "cancelled"

StaysCancelled == [][NobodyReopens]_vars

\* Without overlapping decisions on one order, only an admin moves a cancelled order on.
THEOREM OnlyAdminsReopen ==
  ASSUME "admin" \notin Roles
  PROVE  ApartSpec => StaysCancelled
<1> DEFINE Follows == \A o \in Orders : status'[o] # status[o] =>
       \/ {status[o], status'[o]} \subseteq Forward /\ Rank(status'[o]) > Rank(status[o])
       \/ status[o] \in {"pending", "confirmed"} /\ status'[o] = "cancelled"
<1>1. [Follows]_vars => [NobodyReopens]_vars
  BY DEF NobodyReopens, Forward
<1> QED
  BY <1>1, TableFollowed, PTL DEF FollowsTable, StaysCancelled

\* A commit restocks an order that was not cancelled and is so now, or leaves what is
\* cancelled and what is not as it was.
LEMMA WriteCancels ==
  ASSUME IInv, Fresh, CancelsRestock, NobodyReopens, NEW r \in Requests, Write(r)
  PROVE  \/ /\ pc[r] = "restocking"
            /\ status[job[r].order] # "cancelled" /\ job[r].target = "cancelled"
         \/ /\ pc[r] = "writing"
            /\ \A o \in Orders : status'[o] = "cancelled" <=> status[o] = "cancelled"
<1> DEFINE o == job[r].order
<1>1. /\ o \in Orders /\ status' = [status EXCEPT ![o] = job[r].target]
      /\ current[r] = status[o]
  BY WriteMoves
<1>2. CASE pc[r] = "restocking"
  BY <1>1, <1>2 DEF CancelsRestock, IInv, Relied, RestocksItsOrder
<1>3. CASE pc[r] = "writing"
  <2>1. status'[o] = job[r].target /\ \A q \in Orders \ {o} : status'[q] = status[q]
    BY <1>1 DEF IInv, TypeOK
  <2>2. job[r].target = "cancelled" <=> status[o] = "cancelled"
    BY <1>1, <1>3, <2>1 DEF CancelsRestock, NobodyReopens
  <2> QED
    BY <1>3, <2>1, <2>2
<1> QED
  BY <1>2, <1>3 DEF Write, ReadyToWrite

SaleMap == [o \in Orders |-> [qty |-> items[o], unit |-> Nothing,
                              live |-> status[o] # "cancelled"]]

\* A commit voids the sale it cancels, or is none of the shop's business.
LEMMA WriteVoids ==
  ASSUME IInv, Fresh, CancelsRestock, NobodyReopens, NEW r \in Requests, Write(r)
  PROVE  [Shop!Next]_(Shop!inventoryVars)
<1> USE DEF IInv, TypeOK
<1>0. PICK o \in Orders : o = job[r].order
  BY WriteMoves
<1>1. o \in Orders /\ status' = [status EXCEPT ![o] = job[r].target] /\ items' = items
  BY <1>0, WriteMoves DEF Write
<1>2. ASSUME NEW q \in Orders, status'[q] = "cancelled" <=> status[q] = "cancelled"
      PROVE  SaleMap'[q] = SaleMap[q]
  BY <1>1, <1>2 DEF SaleMap, Nothing
<1>3. CASE /\ pc[r] = "restocking"
           /\ status[job[r].order] # "cancelled" /\ job[r].target = "cancelled"
  <2>1. stock' = [p \in Products |-> stock[p] + items[o][p]]
    BY <1>0, <1>3, WritesPinned DEF Write
  <2>2. SaleMap[o].live /\ SaleMap[o].qty = items[o]
    BY <1>0, <1>3 DEF SaleMap
  <2>3. SaleMap'[o] = [qty |-> SaleMap[o].qty, unit |-> SaleMap[o].unit, live |-> FALSE]
    BY <1>0, <1>1, <1>3 DEF SaleMap, Nothing
  <2>4. \A q \in Orders \ {o} : SaleMap'[q] = SaleMap[q]
    BY <1>1, <1>2
  <2>5. SaleMap' = [SaleMap EXCEPT ![o] =
                      [qty |-> SaleMap[o].qty, unit |-> SaleMap[o].unit, live |-> FALSE]]
    BY <2>3, <2>4 DEF SaleMap
  <2>6. SaleMap[o] # NoJob
    <3>1. SaleMap[o] \in SaleRow
      BY <1>0 DEF SaleMap, SaleRow
    <3> QED
      BY <3>1, NameAssumption
  <2>7. Shop!Void(o)
    BY <2>1, <2>2, <2>5, <2>6 DEF Shop!Void, SaleMap, Nothing
  <2> QED
    BY <2>7 DEF Shop!Next
<1>4. CASE /\ pc[r] = "writing"
           /\ \A q \in Orders : status'[q] = "cancelled" <=> status[q] = "cancelled"
  <2>1. stock' = stock
    BY <1>4, WritesPinned DEF Write
  <2>2. SaleMap' = SaleMap
    BY <1>2, <1>4 DEF SaleMap
  <2> QED
    BY <2>1, <2>2 DEF Shop!inventoryVars, SaleMap, Nothing
<1> QED
  BY <1>3, <1>4, WriteCancels

\* Nothing the abstract shop sees.
LEMMA StutterUnlessWritten ==
  ASSUME UNCHANGED <<stock, items, status>>
  PROVE  UNCHANGED Shop!inventoryVars
  BY DEF Shop!inventoryVars, Nothing

LEMMA NextVoids ==
  ASSUME IInv, Fresh, CancelsRestock, [Next]_vars, [NobodyReopens]_vars
  PROVE  [Shop!Next]_(Shop!inventoryVars)
<1>1. ASSUME NEW p \in Products, EditStock(p) PROVE Shop!Next
  <2>1. stock'[p] \in Nat /\ stock' = [stock EXCEPT ![p] = stock'[p]]
    BY <1>1, QtyAssumption DEF EditStock, IInv, TypeOK
  <2>2. SaleMap' = SaleMap
    BY <1>1 DEF EditStock, SaleMap, Nothing
  <2>3. Shop!Overwrite(p)
    BY <2>1, <2>2 DEF Shop!Overwrite, Shop!Shelves, SaleMap, Nothing
  <2> QED
    BY <2>3 DEF Shop!Next
<1>2. ASSUME NEW r \in Requests, Begin(r) \/ Crash(r)
      PROVE  UNCHANGED <<stock, items, status>>
  BY <1>2 DEF Begin, RefusePatch, AcceptPatch, ClaimEvent, IgnoreDuplicate, Crash, rowVars
<1>3. ASSUME NEW r \in Requests, Step(r), ~Write(r) PROVE UNCHANGED <<stock, items, status>>
  BY <1>3 DEF Step, IgnoreEvent, ApplyEvent, Reply, LockRow, AbortDeadlock, FailWrite, rowVars
<1>4. CASE UNCHANGED vars
  BY <1>4, StutterUnlessWritten DEF vars, rowVars
<1> QED
  BY <1>1, <1>2, <1>3, <1>4, WriteVoids, StutterUnlessWritten DEF Next, AllAnswered

\* Without overlapping decisions on one order, and unless an admin moves a cancelled order
\* on, cancelling an order voids its sale: all its units go back with the status, in one
\* step, and never again (_restock_order).
THEOREM RestockedOnce == ApartSpec /\ StaysCancelled => RestocksOnce
<1>1. Init => Shop!Init
  <2> SUFFICES ASSUME Init PROVE Shop!Init
    OBVIOUS
  <2>1. SaleMap \in [Orders -> [qty : [Products -> Quantities], unit : [Products -> Nat],
                                live : BOOLEAN]]
    BY DEF Init, SaleMap, Nothing
  <2>2. stock \in [Products -> Nat] /\ Nothing \in [Products -> Nat]
    BY QtyAssumption DEF Init, Nothing
  <2> QED
    BY <2>1, <2>2 DEF Shop!Init, Shop!Shelves, SaleMap
<1>2. IInv /\ Fresh /\ CancelsRestock /\ [Next]_vars /\ [NobodyReopens]_vars =>
        [Shop!Next]_(Shop!inventoryVars)
  BY NextVoids
<1>3. UnitsInv => CancelsRestock
  BY DEF UnitsInv
<1> QED
  BY <1>1, <1>2, <1>3, FreshInvariance, UnitsInvariance, ApartIsSpec, PTL
     DEF ApartSpec, Spec, StaysCancelled, RestocksOnce, Shop!Spec

-----------------------------------------------------------------------------
(* Units *)

\* What is on the shelf: the supply and the units of the cancelled orders, once each.
UnitsExact == \A p \in Products : stock[p] = supply[p] + UnitsIn(Cancelled, p)

LEMMA WriteExact ==
  ASSUME IInv, Fresh, UnitsInv, UnitsExact, NobodyReopens, NEW r \in Requests, Write(r)
  PROVE  UnitsExact'
<1> DEFINE o == job[r].order
<1>1. /\ o \in Orders /\ UNCHANGED <<items, supply>>
      /\ status' = [status EXCEPT ![o] = job[r].target] /\ current[r] = status[o]
  BY WriteMoves DEF Write
<1>2. IsFiniteSet(Cancelled) /\ Cancelled \in SUBSET Orders
  BY DEF UnitsInv, Cancelled
<1>3. \A p \in Products : /\ stock[p] \in Nat /\ supply[p] \in Int /\ items[o][p] \in Nat
                          /\ UnitsIn(Cancelled, p) \in Nat
                          /\ stock[p] = supply[p] + UnitsIn(Cancelled, p)
  BY <1>1, <1>2, UnitsFewer, QtyAssumption DEF IInv, TypeOK, Quantities, UnitsExact
<1>4. CASE pc[r] = "restocking" /\ status[o] # "cancelled" /\ job[r].target = "cancelled"
  <2>1. o \notin Cancelled /\ Cancelled' = Cancelled \cup {o}
    BY <1>1, <1>4 DEF Cancelled, IInv, TypeOK
  <2>2. \A p \in Products : stock'[p] = stock[p] + items[o][p]
    BY <1>4, WritesPinned DEF Write
  <2>3. ASSUME NEW p \in Products
        PROVE  UnitsIn(Cancelled', p) = items[o][p] + UnitsIn(Cancelled, p)
    <3>1. UnitsIn(Cancelled \cup {o}, p) = items[o][p] + UnitsIn(Cancelled, p)
      BY <1>1, <1>2, <2>1, UnitsAdd
    <3> QED
      BY <2>1, <3>1, Zenon
  <2>4. \A p \in Products : stock'[p] = supply'[p] + UnitsIn(Cancelled', p)
    BY <1>1, <1>3, <2>2, <2>3
  <2> QED
    BY <1>1, <2>4 DEF UnitsExact, UnitsIn
<1>5. CASE /\ pc[r] = "writing"
           /\ \A q \in Orders : status'[q] = "cancelled" <=> status[q] = "cancelled"
  <2>1. Cancelled' = Cancelled
    BY <1>5 DEF Cancelled
  <2>2. stock' = stock
    BY <1>5, WritesPinned DEF Write
  <2>3. \A p \in Products : UnitsIn(Cancelled', p) = UnitsIn(Cancelled, p)
    BY <2>1, Zenon
  <2>4. \A p \in Products : stock'[p] = supply'[p] + UnitsIn(Cancelled', p)
    BY <1>1, <1>3, <2>2, <2>3
  <2> QED
    BY <1>1, <2>4 DEF UnitsExact, UnitsIn
<1> QED
  BY <1>4, <1>5, WriteCancels DEF UnitsInv

LEMMA NextExact ==
  ASSUME IInv, Fresh, UnitsInv, UnitsExact, [Next]_vars, [NobodyReopens]_vars
  PROVE  UnitsExact'
<1>1. ASSUME UNCHANGED <<status, items>>
      PROVE  \A p \in Products : /\ UnitsIn(Cancelled, p)' = UnitsIn(Cancelled, p)
                                 /\ UnitsIn(Cancelled, p) \in Nat
  <2>1. \A p \in Products : UnitsIn(Cancelled, p)' = UnitsIn(Cancelled, p)
    BY <1>1 DEF UnitsIn, Cancelled
  <2>2. IsFiniteSet(Cancelled) /\ Cancelled \in SUBSET Orders
    BY DEF UnitsInv, Cancelled
  <2> QED
    BY <2>1, <2>2, UnitsFewer
<1>2. ASSUME UNCHANGED rowVars PROVE UnitsExact'
  BY <1>1, <1>2 DEF UnitsExact, rowVars
<1>3. ASSUME NEW r \in Requests, Begin(r) \/ Crash(r) PROVE UNCHANGED rowVars
  BY <1>3 DEF Begin, RefusePatch, AcceptPatch, ClaimEvent, IgnoreDuplicate, Crash
<1>4. ASSUME NEW r \in Requests, Step(r) PROVE Write(r) \/ UNCHANGED rowVars
  BY <1>4 DEF Step, IgnoreEvent, ApplyEvent, Reply, LockRow, AbortDeadlock, FailWrite
<1>5. ASSUME NEW p \in Products, EditStock(p) PROVE UnitsExact'
  <2>1. PICK n \in EditStocks : /\ stock' = [stock EXCEPT ![p] = n]
                                /\ supply' = [supply EXCEPT ![p] = @ + n - stock[p]]
    BY <1>5 DEF EditStock
  <2>2. UNCHANGED <<status, items>> /\ n \in Nat
    BY <1>5, QtyAssumption DEF EditStock
  <2>3. \A q \in Products : /\ stock[q] \in Nat /\ supply[q] \in Int
                            /\ stock[q] = supply[q] + UnitsIn(Cancelled, q)
    BY DEF IInv, TypeOK, UnitsExact
  <2>4. ASSUME NEW q \in Products PROVE stock'[q] = supply'[q] + UnitsIn(Cancelled, q)
    <3>1. stock'[q] - supply'[q] = stock[q] - supply[q]
      BY <2>1, <2>2, <2>3 DEF IInv, TypeOK
    <3>2. stock'[q] \in Int /\ supply'[q] \in Int
      BY <2>1, <2>2, <2>3 DEF IInv, TypeOK
    <3>3. UnitsIn(Cancelled, q) \in Nat
      BY <1>1, <2>2
    <3> QED
      BY <2>3, <3>1, <3>2, <3>3
  <2> QED
    BY <1>1, <2>2, <2>4 DEF UnitsExact
<1>6. CASE UNCHANGED vars
  BY <1>2, <1>6 DEF vars
<1> QED
  BY <1>2, <1>3, <1>4, <1>5, <1>6, WriteExact DEF Next, AllAnswered

\* On the same condition no unit is put back twice: stock_qty is never above the supply
\* plus the units of all the orders (_restock_order).
THEOREM UnitsNotRepeated ==
  ASSUME IsFiniteSet(Orders)
  PROVE  ApartSpec /\ StaysCancelled => []NoPhantomUnit
<1>1. Init => UnitsExact
  <2> SUFFICES ASSUME Init PROVE UnitsExact
    OBVIOUS
  <2>1. Cancelled = {}
    BY DEF Init, Cancelled
  <2>2. \A p \in Products : stock[p] \in Nat /\ supply[p] = stock[p]
    BY QtyAssumption DEF Init
  <2>3. \A p \in Products : UnitsIn(Cancelled, p) = 0
    BY <2>1, SumEmpty, Zenon DEF UnitsIn
  <2> QED
    BY <2>2, <2>3 DEF UnitsExact
<1>2. IInv /\ Fresh /\ UnitsInv /\ UnitsExact /\ [Next]_vars /\ [NobodyReopens]_vars =>
        UnitsExact'
  BY NextExact
<1>3. IInv /\ UnitsExact => NoPhantomUnit
  <2> SUFFICES ASSUME IInv, UnitsExact, NEW p \in Products
               PROVE  stock[p] <= supply[p] + UnitsIn(Orders, p)
    BY DEF NoPhantomUnit
  <2>1. Cancelled \in SUBSET Orders
    BY DEF Cancelled
  <2>2. /\ UnitsIn(Cancelled, p) <= UnitsIn(Orders, p)
        /\ UnitsIn(Cancelled, p) \in Nat /\ UnitsIn(Orders, p) \in Nat
    BY <2>1, UnitsFewer
  <2>3. stock[p] = supply[p] + UnitsIn(Cancelled, p) /\ supply[p] \in Int
    BY DEF UnitsExact, IInv, TypeOK
  <2> QED
    BY <2>2, <2>3
<1> QED
  BY <1>1, <1>2, <1>3, UnitsInvariance, FreshInvariance, ApartIsSpec, PTL
     DEF ApartSpec, Spec, StaysCancelled
=============================================================================
