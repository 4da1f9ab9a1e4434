------------------------------- MODULE Reports -------------------------------
(***************************************************************************)
(* The figures of GET /admin/platform-stats, /merchant/dashboard and       *)
(* /merchant/revenue-summary behind the rate limiter.  A report is several *)
(* SELECTs at READ COMMITTED: each sees the orders as they are when it     *)
(* runs, and orders are placed, delivered and taken back between two of    *)
(* them.                                                                   *)
(***************************************************************************)
EXTENDS RateLimit, Money, Sequences, Functions

CONSTANTS Admin,      \* the caller that sees the platform's figures
          Merchants,
          Orders,     \* ids of orders, those not placed yet included
          Windows,    \* age of the orders, see Ages
          Lines,      \* what an order's lines are worth, by merchant
          Coupons,    \* the coupons customers may use
          MaxReports, \* how many of the admitted requests are followed further
          Starts      \* the statuses the orders may start from

Fields == {"count", "total", "w7", "w30", "w90", "all"}
Ages == {"w7", "w30", "w90", "all"}   \* the smallest window an order falls in
Statuses == {"none", "open", "delivered"}

ASSUME OrdersAssumption ==
  /\ Callers \subseteq {Admin} \cup Merchants /\ Admin \notin Merchants
  /\ IsFiniteSet(Orders) /\ IsFiniteSet(Merchants) /\ MaxReports \in Nat
  /\ Windows \in [Orders -> Ages]
  /\ Lines \in [Orders -> [Merchants -> Nat]]
  /\ Starts \subseteq [Orders -> Statuses]
ASSUME CouponsAssumption ==
  Coupons \subseteq {k \in Coupon : Storable(k)}

VARIABLES
  status,     \* status[o]; "open" stands for all but delivered
  discount,   \* what the coupon took off o
  amount,     \* orders.total_amount
  step,       \* how many SELECTs of its report r has run
  figures,    \* what they returned
  disturbed   \* history: reports during which a delivered order was taken back

orderVars == <<status, discount, amount>>
reportVars == <<step, figures, disturbed>>
vars == <<limiterVars, pc, orderVars, reportVars>>

Subtotal(o) == SumFunctionOnSet(Lines[o], Merchants)

Blank == [f \in Fields |-> 0]

TypeOK ==
  /\ LimiterTypeOK
  /\ pc \in [Requests -> {"idle", "refused", "failed", "crashed"} \cup KeyPoints \cup Past]
  /\ status \in [Orders -> Statuses]
  /\ discount \in [Orders -> Nat]
  /\ amount \in [Orders -> Nat]
  /\ step \in [Requests -> 0..Cardinality(Fields)]
  /\ figures \in [Requests -> [Fields -> Nat]]
  /\ disturbed \subseteq Requests

Init ==
  /\ LimiterInit
  /\ status \in Starts
  /\ discount = [o \in Orders |-> 0]
  /\ amount = [o \in Orders |-> IF status[o] = "none" THEN 0 ELSE Subtotal(o)]
  /\ step = [r \in Requests |-> 0]
  /\ figures = [r \in Requests |-> Blank]
  /\ disturbed = {}

-----------------------------------------------------------------------------
(* Orders *)

\* checkout, without a coupon or with one: the amount is the total after the discount.
PlaceOrder(o) ==
  /\ status[o] = "none"
  /\ status' = [status EXCEPT ![o] = "open"]
  /\ \/ /\ amount' = [amount EXCEPT ![o] = Subtotal(o)]
        /\ UNCHANGED discount
     \/ \E k \in Coupons :
          /\ discount' = [discount EXCEPT ![o] = Discount(k, Subtotal(o))]
          /\ amount' = [amount EXCEPT ![o] = Total(k, Subtotal(o))]
  /\ UNCHANGED <<limiterVars, pc, reportVars>>

\* update_status: an admin may make any transition, even one that takes back a
\* delivery.
MoveOrder(o, s) ==
  /\ status[o] \notin {"none", s}
  /\ status' = [status EXCEPT ![o] = s]
  /\ disturbed' = IF status[o] = "delivered"
                  THEN disturbed \cup {r \in Requests : pc[r] = "reading"}
                  ELSE disturbed
  /\ UNCHANGED <<limiterVars, pc, discount, amount, step, figures>>

-----------------------------------------------------------------------------
(* Reports *)

\* The SELECTs of platform_stats, and of revenue_summary and dashboard, in their order.
MerchantPlanAllFirst == <<"all", "w7", "w30", "w90", "count">>    \* Mutant
MerchantPlanCountFirst == <<"count", "w7", "w30", "w90", "all">>  \* Mutant
MerchantPlan == <<"w7", "w30", "w90", "all", "count">>
PlatformPlan == <<"count", "total", "w7", "w30", "w90", "all">>
Plan(c) == IF c = Admin THEN PlatformPlan ELSE MerchantPlan

\* _platform_revenue_since, _revenue_since: only delivered orders count, for a merchant
\* his own lines of them, coupons left aside.
Recent(f) == CASE f = "w7" -> {"w7"} [] f = "w30" -> {"w7", "w30"}
               [] f = "w90" -> {"w7", "w30", "w90"} [] OTHER -> Ages
Delivered(f) == {o \in Orders : status[o] = "delivered" /\ Windows[o] \in Recent(f)}
Worth(c) == IF c = Admin THEN amount ELSE [o \in Orders |-> Lines[o][c]]

\* _count_by, _orders_by_status and the count of revenue_summary, as to delivered orders.
Figure(f, c) ==
  IF f = "count"
  THEN Cardinality({o \in Delivered("all") : c = Admin \/ Lines[o][c] > 0})
  ELSE SumFunctionOnSet(Worth(c), Delivered(f))

\* The route is entered.  Reports only read, so that more of them at a time would show
\* nothing new.
OpenReport(r) ==
  /\ pc[r] = "admitted"
  /\ Cardinality({q \in Requests : pc[q] \in {"reading", "done"}}) < MaxReports
  /\ Goto(r, "reading")
  /\ UNCHANGED <<limiterVars, orderVars, reportVars>>

\* The next SELECT.  The answer follows the last one.
ReadFigure(r) ==
  /\ pc[r] = "reading"
  /\ LET f == Plan(caller[r])[step[r] + 1]
     IN figures' = [figures EXCEPT ![r][f] = Figure(f, caller[r])]
  /\ step' = [step EXCEPT ![r] = @ + 1]
  /\ IF step'[r] = Len(Plan(caller[r])) THEN Goto(r, "done") ELSE UNCHANGED pc
  /\ UNCHANGED <<limiterVars, orderVars, disturbed>>

\* Nothing is under way, and nobody has to begin anything.
Rest ==
  /\ \A r \in Requests : pc[r] \notin KeyPoints \cup {"reading"}
  /\ UNCHANGED vars

Limiter ==
  \/ \E r \in Requests :
       (\E c \in Callers : Arrive(r, c)) \/ LimiterStep(r) \/ LimiterCrash(r)
  \/ (Tick \/ \E c \in Callers, b \in Minutes : ExpireKey(c, b)) /\ UNCHANGED pc

Next ==
  \/ Limiter /\ UNCHANGED <<orderVars, reportVars>>
  \/ \E r \in Requests : OpenReport(r) \/ ReadFigure(r)
  \/ \E o \in Orders : PlaceOrder(o) \/ \E s \in Statuses \ {"none"} : MoveOrder(o, s)
  \/ Rest

Spec == Init /\ [][Next]_vars

-----------------------------------------------------------------------------
(* Properties of reports *)

Settled(r) == pc[r] = "done" /\ r \notin disturbed

\* The windows of a report are nested, although each is summed at another moment
\* (_revenue_windows, platform_stats): the wider ones are read later, and meanwhile
\* deliveries only add.  A delivery that an admin takes back is the exception.
WindowsNested ==
  \A r \in Requests :
    Settled(r) =>
      /\ figures[r]["w7"] <= figures[r]["w30"] /\ figures[r]["w30"] <= figures[r]["w90"]
      /\ figures[r]["w90"] <= figures[r]["all"]
      /\ caller[r] = Admin => figures[r]["total"] <= figures[r]["all"]

\* A merchant's average order value is never more than the largest of his orders
\* (revenue_summary): orders are counted after the revenue is summed.
AverageNotInflated ==
  \A r \in Requests :
    Settled(r) /\ caller[r] \in Merchants =>
      \E o \in Orders :
        figures[r]["all"] <= figures[r]["count"] * Lines[o][caller[r]]

\* The discount and the total of an order add up to its lines: a coupon worth more than
\* the order takes no more than there is, and no cent is lost in the rounding.
DiscountAccounts ==
  \A o \in Orders : status[o] # "none" => amount[o] + discount[o] = Subtotal(o)
=============================================================================
