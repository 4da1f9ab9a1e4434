----------------------------- MODULE ReportsProofs -----------------------------
(***************************************************************************)
(* Proofs about Reports, for any callers, requests, limit, orders and      *)
(* coupons.  LInv is what the counters of the limiter say about the        *)
(* requests that were counted: a key has handed out every number up to its *)
(* counter, and none twice to requests that were not late.  DInv is what   *)
(* coupons do to an order.  RInv is for the figures: each was right when   *)
(* it was read, and revenue has only grown since.                          *)
(***************************************************************************)
EXTENDS Reports, Sums

-----------------------------------------------------------------------------
(* The limiter *)

Points == {"idle", "refused", "failed", "crashed"} \cup KeyPoints \cup Past

LTypeOK ==
  /\ LimiterTypeOK /\ pc \in [Requests -> Points]
  /\ \A r \in Requests : caller[r] = NoCaller <=> pc[r] = "idle"

\* What INCR returned to r, by the point r stands at.
CountInStep(r) ==
  /\ pc[r] \in {"idle", "incr"} => count[r] = 0
  /\ pc[r] = "expire" => count[r] = 1
  /\ pc[r] \in Past => count[r] \in 1..Limit
  /\ pc[r] \in {"ttl", "refused"} => count[r] > Limit
  /\ pc[r] # "idle" => bucket[r] <= minute

\* Requests whose INCR finds the first key of their minute, now or earlier.
Live(c, b) ==
  b >= minute \/ \E r \in Requests \ late : Key(r) = <<c, b>> /\ pc[r] = "incr"

\* As long as there are such requests, the counter is ahead of every count.
Ahead(c, b) == \A r \in Requests : Key(r) = <<c, b>> => count[r] <= counter[c][b]

\* A key has handed out every number up to its counter.
Tallied(c, b) ==
  \A n \in 1..counter[c][b] : \E r \in Requests : Key(r) = <<c, b>> /\ count[r] = n

Counted == \A c \in Callers, b \in Minutes : (Live(c, b) => Ahead(c, b)) /\ Tallied(c, b)

\* A key outlives its minute.
Outlived == \A c \in Callers, b \in Minutes : expires[c][b] # 0 => expires[c][b] > b

\* No count goes to two requests that were not late ...
Distinct ==
  \A q, r \in Requests \ late :
    q # r /\ Key(q) = Key(r) /\ count[q] > 0 => count[q] # count[r]

\* ... and every count up to Limit went to somebody before a request is refused.
HandedOut ==
  \A r \in Requests : pc[r] \in {"ttl", "refused"} =>
    \A n \in 1..Limit : \E q \in Requests : Key(q) = Key(r) /\ count[q] = n

LInv ==
  /\ LTypeOK
  /\ \A r \in Requests : CountInStep(r)
  /\ Counted
  /\ Outlived
  /\ Distinct
  /\ HandedOut

LEMMA InitLimiter == Init => LInv /\ CountersExpire
<1> SUFFICES ASSUME Init PROVE LInv /\ CountersExpire
  OBVIOUS
<1> USE CallersAssumption, LimitAssumption DEF Init, LimiterInit
<1>1. LTypeOK
  BY DEF LTypeOK, LimiterTypeOK, Minutes, Points
<1>2. \A r \in Requests : CountInStep(r)
  BY DEF CountInStep, Past
<1>3. \A c \in Callers, b \in Minutes : Ahead(c, b) /\ Tallied(c, b)
  BY DEF Ahead, Tallied, Minutes
<1>4. CountersExpire /\ Outlived
  BY DEF CountersExpire, Outlived, Minutes
<1> QED
  BY <1>1, <1>2, <1>3, <1>4 DEF LInv, Counted, Distinct, HandedOut, CountInStep

\* A request comes: its key is the one of the minute, and it is not counted yet.
LEMMA ArriveCounts ==
  ASSUME LInv, CountersExpire, NEW r \in Requests, NEW c \in Callers, Arrive(r, c)
  PROVE  LInv' /\ CountersExpire'
<1> USE DEF LInv, LTypeOK, LimiterTypeOK, Arrive, Goto, MinuteBucket
<1>1. LTypeOK'
  BY CallersAssumption DEF Points, KeyPoints
<1>2. \A q \in Requests \ {r} : Key(q)' = Key(q) /\ pc'[q] = pc[q]
  BY DEF Key
<1>3. Key(r)' = <<c, minute>> /\ pc'[r] = "incr" /\ count[r] = 0 /\ caller[r] = NoCaller
  BY DEF Key, CountInStep
<1>4. \A q \in Requests : CountInStep(q)'
  <2>1. CountInStep(r)'
    BY <1>3 DEF CountInStep, Past, Minutes
  <2>2. \A q \in Requests \ {r} : CountInStep(q)'
    BY <1>2 DEF CountInStep
  <2> QED
    BY <2>1, <2>2
<1>5. ASSUME NEW d \in Callers, NEW b \in Minutes
      PROVE  (Live(d, b)' => Ahead(d, b)') /\ Tallied(d, b)'
  <2>1. Key(r) # <<d, b>>
    BY <1>3, CallersAssumption DEF Key
  <2>2. ASSUME Live(d, b)' PROVE Ahead(d, b)'
    <3>1. Live(d, b)
      BY <1>2, <1>3, <2>2 DEF Live, Minutes
    <3> QED
      BY <1>2, <1>3, <3>1 DEF Ahead, Counted
  <2>3. ASSUME NEW n \in 1..counter'[d][b]
        PROVE  \E q \in Requests : Key(q)' = <<d, b>> /\ count'[q] = n
    <3>1. PICK q \in Requests : Key(q) = <<d, b>> /\ count[q] = n
      BY <2>3 DEF Tallied, Counted
    <3> QED
      BY <1>2, <1>3, <2>1, <3>1
  <2> QED
    BY <2>2, <2>3 DEF Tallied
<1>6. Distinct'
  BY <1>2, <1>3 DEF Distinct
<1>7. ASSUME NEW p \in Requests, pc'[p] \in {"ttl", "refused"}, NEW n \in 1..Limit
      PROVE  \E q \in Requests : Key(q)' = Key(p)' /\ count'[q] = n
  <2>1. PICK q \in Requests : Key(q) = Key(p) /\ count[q] = n
    BY <1>2, <1>3, <1>7 DEF HandedOut
  <2>2. q # r /\ p # r
    BY <1>3, <1>7, <2>1
  <2> QED
    BY <1>2, <2>1, <2>2
<1>8. CountersExpire' /\ Outlived'
  BY <1>2, <1>3 DEF CountersExpire, Outlived
<1> QED
  BY <1>1, <1>4, <1>5, <1>6, <1>7, <1>8 DEF Counted, HandedOut

\* An INCR hands out the next number, and Limit others have been before it if that
\* is too high.
LEMMA IncrementCounts ==
  ASSUME LInv, CountersExpire, NEW r \in Requests, Increment(r)
  PROVE  LInv' /\ CountersExpire'
<1> USE DEF LInv, LTypeOK, LimiterTypeOK, Increment, Goto
<1> DEFINE c == caller[r]
           b == bucket[r]
           n == counter[c][b] + 1
<1>1. c \in Callers /\ b \in Minutes /\ n \in Nat \ {0} /\ count[r] = 0 /\ pc[r] = "incr"
  BY DEF CountInStep
<1>2. /\ counter' = [counter EXCEPT ![c][b] = n] /\ count' = [count EXCEPT ![r] = n]
      /\ pc'[r] = (IF n = 1 THEN "expire" ELSE Verdict(n))
      /\ UNCHANGED <<minute, expires, caller, bucket, late>>
      /\ \A q \in Requests \ {r} : pc'[q] = pc[q] /\ count'[q] = count[q]
  OBVIOUS
<1>3. \A q \in Requests : Key(q)' = Key(q)
  BY <1>2 DEF Key
<1>4. Tallied(c, b) /\ (r \notin late => Ahead(c, b))
  BY <1>1 DEF Live, Key, Counted
<1> HIDE DEF n
<1>5. pc'[r] \in {"expire", "ttl", "admitted"} /\ LTypeOK'
  <2>1. pc'[r] \in {"expire", "ttl", "admitted"}
    BY <1>2 DEF Verdict
  <2>2. LimiterTypeOK'
    BY <1>1, <1>2
  <2>3. pc' \in [Requests -> Points]
    BY <2>1 DEF Points, KeyPoints, Past
  <2> QED
    BY <1>1, <1>2, <2>1, <2>2, <2>3
<1>6. \A q \in Requests : CountInStep(q)'
  <2>1. CountInStep(r)'
    BY <1>1, <1>2, LimitAssumption DEF CountInStep, Verdict, Past
  <2> QED
    BY <1>2, <2>1 DEF CountInStep
<1>7. r \notin late => \A q \in Requests : Key(q) = Key(r) => count[q] < n
  BY <1>1, <1>4 DEF Ahead, Key, n
<1>8. \A m \in 1..n - 1 : \E q \in Requests \ {r} : Key(q) = Key(r) /\ count[q] = m
  BY <1>1, <1>4 DEF Tallied, Key, n
<1>9. ASSUME NEW d \in Callers, NEW a \in Minutes
      PROVE  (Live(d, a)' => Ahead(d, a)') /\ Tallied(d, a)'
  <2>1. Live(d, a)' => Live(d, a)
    BY <1>1, <1>2, <1>3 DEF Live
  <2>2. CASE <<d, a>> = <<c, b>>
    <3>1. counter'[d][a] = n /\ count'[r] = n
      BY <1>1, <1>2, <2>2
    <3>2. ASSUME Live(d, a)', NEW q \in Requests, Key(q)' = <<d, a>> PROVE count'[q] <= n
      <4>1. Ahead(c, b)
        BY <2>1, <2>2, <3>2 DEF Counted
      <4> QED
        BY <1>1, <1>2, <1>3, <2>2, <3>1, <3>2, <4>1 DEF Ahead, Key, n
    <3>3. ASSUME NEW m \in 1..n PROVE \E q \in Requests : Key(q)' = <<d, a>> /\ count'[q] = m
      <4>1. CASE m = n
        BY <1>3, <2>2, <3>1, <4>1 DEF Key
      <4>2. CASE m # n
        <5>1. m \in 1..n - 1
          BY <1>1, <4>2
        <5>2. PICK q \in Requests \ {r} : Key(q) = Key(r) /\ count[q] = m
          BY <1>8, <5>1
        <5> QED
          BY <1>2, <1>3, <2>2, <5>2 DEF Key
      <4> QED
        BY <4>1, <4>2
    <3> QED
      BY <3>1, <3>2, <3>3 DEF Ahead, Tallied
  <2>3. CASE <<d, a>> # <<c, b>>
    <3>1. counter'[d][a] = counter[d][a] /\ Key(r) # <<d, a>>
      BY <1>1, <1>2, <2>3 DEF Key
    <3> QED
      BY <1>2, <1>3, <2>1, <3>1 DEF Ahead, Tallied, Counted
  <2> QED
    BY <2>2, <2>3
<1>10. Distinct'
  BY <1>1, <1>2, <1>3, <1>7 DEF Distinct
<1>11. ASSUME NEW p \in Requests, pc'[p] \in {"ttl", "refused"}, NEW m \in 1..Limit
       PROVE  \E q \in Requests : Key(q)' = Key(p)' /\ count'[q] = m
  <2>1. \E q \in Requests \ {r} : Key(q) = Key(p) /\ count[q] = m
    <3>1. CASE p = r
      <4>1. m \in 1..n - 1
        BY <1>1, <1>2, <1>11, <3>1, LimitAssumption DEF Verdict
      <4> QED
        BY <1>8, <3>1, <4>1
    <3>2. CASE p # r
      BY <1>1, <1>2, <1>11, <3>2 DEF HandedOut
    <3> QED
      BY <3>1, <3>2
  <2> QED
    BY <1>2, <1>3, <2>1
<1>12. CountersExpire'
  <2> SUFFICES ASSUME NEW d \in Callers, NEW a \in Minutes, counter'[d][a] > 0, expires[d][a] = 0
               PROVE  \E q \in Requests : Key(q)' = <<d, a>> /\ pc'[q] \in {"expire", "crashed"}
    BY <1>2 DEF CountersExpire
  <2>1. CASE <<d, a>> = <<c, b>> /\ n = 1
    BY <1>2, <1>3, <2>1 DEF Key
  <2>2. CASE ~(<<d, a>> = <<c, b>> /\ n = 1)
    <3>1. counter[d][a] > 0
      BY <1>1, <1>2, <2>2 DEF n
    <3>2. PICK q \in Requests : Key(q) = <<d, a>> /\ pc[q] \in {"expire", "crashed"}
      BY <3>1 DEF CountersExpire
    <3> QED
      BY <1>1, <1>2, <1>3, <3>2
  <2> QED
    BY <2>1, <2>2
<1>13. Outlived'
  BY <1>2 DEF Outlived
<1> QED
  BY <1>5, <1>6, <1>9, <1>10, <1>11, <1>12, <1>13 DEF Counted, HandedOut

\* A request goes on, or dies, without a new count.
LEMMA MoveCounts ==
  ASSUME LInv, NEW r \in Requests, UNCHANGED <<minute, counter, caller, bucket, count, late>>,
         expires' \in [Callers -> [Minutes -> 0..LastMinute + 1]],
         Outlived', pc' \in [Requests -> Points],
         \A q \in Requests \ {r} : pc'[q] = pc[q],
         pc[r] # "idle" /\ pc'[r] \notin {"idle", "incr"},
         pc'[r] \in {"ttl", "refused"} => pc[r] \in {"ttl", "refused"}, CountInStep(r)'
  PROVE  LInv'
<1> USE DEF LInv, LTypeOK, LimiterTypeOK
<1>1. LTypeOK' /\ \A q \in Requests : CountInStep(q)'
  BY DEF CountInStep
<1>2. \A q \in Requests : Key(q)' = Key(q)
  BY DEF Key
<1>3. Counted'
  <2> SUFFICES ASSUME NEW c \in Callers, NEW b \in Minutes
               PROVE  (Live(c, b)' => Ahead(c, b)') /\ Tallied(c, b)'
    BY DEF Counted
  <2>1. Tallied(c, b)'
    BY <1>2 DEF Tallied, Counted
  <2>2. Live(c, b)' => Live(c, b)
    BY <1>2 DEF Live
  <2>3. Ahead(c, b) => Ahead(c, b)'
    BY <1>2 DEF Ahead
  <2> QED
    BY <2>1, <2>2, <2>3 DEF Counted
<1>4. Distinct' /\ HandedOut'
  BY <1>2 DEF Distinct, HandedOut
<1> QED
  BY <1>1, <1>3, <1>4

\* It does not leave a counter behind without a TTL.
LEMMA MoveExpires ==
  ASSUME CountersExpire, NEW r \in Requests, UNCHANGED <<counter, expires, caller, bucket>>,
         \A q \in Requests \ {r} : pc'[q] = pc[q],
         pc[r] \in {"expire", "crashed"} => pc'[r] \in {"expire", "crashed"}
  PROVE  CountersExpire'
BY DEF CountersExpire, Key

LEMMA StepCounts ==
  ASSUME LInv, CountersExpire, NEW r \in Requests,
         ArmKey(r) \/ Refuse(r) \/ LimiterCrash(r) \/ OpenReport(r) \/ ReadFigure(r)
  PROVE  LInv' /\ CountersExpire'
<1> USE DEF LInv, LTypeOK, LimiterTypeOK, Goto, limiterVars, Points, KeyPoints, Past
<1>1. CASE ArmKey(r)
  <2>1. count[r] = 1 /\ pc[r] = "expire" /\ caller[r] \in Callers
    BY <1>1 DEF ArmKey, CountInStep
  <2>2. pc' = [pc EXCEPT ![r] = "admitted"]
    <3>1. Verdict(1) = "admitted"
      BY LimitAssumption DEF Verdict
    <3> QED
      BY <1>1, <2>1, <3>1 DEF ArmKey
  <2>3. /\ expires' \in [Callers -> [Minutes -> 0..LastMinute + 1]]
        /\ Outlived'
    <3>1. /\ bucket[r] \in Minutes /\ bucket[r] < minute + 1
          /\ minute + 1 \in 0..LastMinute + 1
      <4>1. bucket[r] \in Minutes /\ minute \in Minutes /\ bucket[r] <= minute
        BY <2>1 DEF CountInStep
      <4> QED
        BY <4>1, LimitAssumption DEF Minutes
    <3>2. expires' = [expires EXCEPT ![caller[r]][bucket[r]] = minute + 1]
      BY <1>1 DEF ArmKey
    <3>3. expires' \in [Callers -> [Minutes -> 0..LastMinute + 1]]
      BY <2>1, <3>1, <3>2
    <3>4. Outlived'
      BY <2>1, <3>1, <3>2 DEF Outlived
    <3> QED
      BY <3>3, <3>4
  <2>4. CountInStep(r)'
    BY <1>1, <2>1, <2>2, LimitAssumption DEF ArmKey, CountInStep
  <2>5. LInv'
    BY <1>1, <2>1, <2>2, <2>3, <2>4, MoveCounts DEF ArmKey
  <2>6. CountersExpire'
    <3>1. expires'[caller[r]][bucket[r]] # 0
      BY <1>1, <2>1, LimitAssumption DEF ArmKey, Minutes
    <3> QED
      BY <1>1, <2>1, <2>2, <3>1 DEF ArmKey, CountersExpire, Key
  <2> QED
    BY <2>5, <2>6
<1>2. CASE Refuse(r)
  <2>1. CountInStep(r)' /\ Outlived'
    BY <1>2 DEF Refuse, CountInStep, Outlived
  <2> QED
    BY <1>2, <2>1, MoveCounts, MoveExpires DEF Refuse
<1>3. CASE LimiterCrash(r)
  <2>1. /\ pc[r] # "idle" /\ pc'[r] = (IF pc[r] = "expire" THEN "crashed" ELSE "failed")
        /\ pc' \in [Requests -> Points] /\ \A q \in Requests \ {r} : pc'[q] = pc[q]
        /\ UNCHANGED <<minute, counter, expires, caller, bucket, count, late>>
    BY <1>3 DEF LimiterCrash
  <2>2. CountInStep(r)' /\ Outlived'
    BY <2>1 DEF CountInStep, Outlived
  <2>3. LInv'
    BY <2>1, <2>2, MoveCounts
  <2>4. CountersExpire'
    BY <1>3, <2>1, MoveExpires DEF LimiterCrash
  <2> QED
    BY <2>3, <2>4
<1>4. CASE OpenReport(r)
  <2>1. CountInStep(r)' /\ Outlived'
    BY <1>4 DEF OpenReport, CountInStep, Outlived
  <2> QED
    BY <1>4, <2>1, MoveCounts, MoveExpires DEF OpenReport
<1>5. CASE ReadFigure(r)
  <2>1. pc[r] = "reading" /\ UNCHANGED <<minute, counter, expires, caller, bucket, count, late>>
    BY <1>5 DEF ReadFigure
  <2>2. pc' = [pc EXCEPT ![r] = "done"] \/ UNCHANGED pc
    BY <1>5 DEF ReadFigure
  <2>3. /\ pc'[r] \in {"reading", "done"} /\ \A q \in Requests \ {r} : pc'[q] = pc[q]
        /\ pc' \in [Requests -> Points]
    BY <2>1, <2>2
  <2>4. CountInStep(r)' /\ Outlived'
    BY <2>1, <2>3 DEF CountInStep, Outlived
  <2> QED
    BY <2>1, <2>3, <2>4, MoveCounts, MoveExpires
<1> QED
  BY <1>1, <1>2, <1>3, <1>4, <1>5

LEMMA ClockCounts ==
  ASSUME LInv, CountersExpire, UNCHANGED pc, Tick \/ \E c \in Callers, b \in Minutes : ExpireKey(c, b)
  PROVE  LInv' /\ CountersExpire'
<1> USE DEF LInv, LTypeOK, LimiterTypeOK, Minutes
<1>1. \A q \in Requests : Key(q)' = Key(q)
  BY DEF Key, Tick, ExpireKey
<1>2. CASE Tick
  <2>1. LTypeOK' /\ \A q \in Requests : CountInStep(q)'
    BY <1>2, LimitAssumption DEF Tick, CountInStep
  <2>2. \A c \in Callers, b \in Minutes : Live(c, b)' => Live(c, b)
    BY <1>1, <1>2, LimitAssumption DEF Tick, Live
  <2>3. \A c \in Callers, b \in Minutes :
          (Ahead(c, b) => Ahead(c, b)') /\ (Tallied(c, b) => Tallied(c, b)')
    BY <1>1, <1>2 DEF Tick, Ahead, Tallied
  <2>4. CountersExpire'
    BY <1>1, <1>2 DEF Tick, CountersExpire
  <2>5. Outlived' /\ Distinct' /\ HandedOut'
    BY <1>1, <1>2 DEF Tick, Outlived, Distinct, HandedOut
  <2> QED
    BY <2>1, <2>2, <2>3, <2>4, <2>5 DEF Counted
<1>3. ASSUME NEW c \in Callers, NEW b \in Minutes, ExpireKey(c, b) PROVE LInv' /\ CountersExpire'
  <2>1. /\ b < minute
        /\ counter'[c][b] = 0 /\ expires'[c][b] = 0
        /\ \A d \in Callers, a \in Minutes : <<d, a>> # <<c, b>> =>
             counter'[d][a] = counter[d][a] /\ expires'[d][a] = expires[d][a]
        /\ late \subseteq late'
        /\ \A q \in Requests : Key(q) = <<c, b>> /\ pc[q] = "incr" => q \in late'
        /\ UNCHANGED <<minute, caller, bucket, count, pc>>
    <3>1. b < minute
      <4>1. expires[c][b] \in 1..minute /\ minute \in Minutes
        BY <1>3 DEF ExpireKey
      <4>2. expires[c][b] > b
        BY <4>1 DEF Outlived
      <4> QED
        BY <4>1, <4>2, LimitAssumption DEF Minutes
    <3> QED
      BY <1>3, <3>1 DEF ExpireKey
  <2>2. LTypeOK' /\ \A q \in Requests : CountInStep(q)'
    <3>1. LTypeOK'
      <4>1. /\ counter' = [counter EXCEPT ![c][b] = 0]
            /\ expires' = [expires EXCEPT ![c][b] = 0]
        BY <1>3 DEF ExpireKey
      <4>2. counter' \in [Callers -> [Minutes -> Nat]]
        BY <4>1
      <4>3. expires' \in [Callers -> [Minutes -> 0..LastMinute + 1]]
        BY <4>1, LimitAssumption
      <4>4. late' \subseteq Requests
        BY <1>3 DEF ExpireKey
      <4> QED
        BY <2>1, <4>2, <4>3, <4>4
    <3>2. \A q \in Requests : CountInStep(q)'
      BY <2>1 DEF CountInStep
    <3> QED
      BY <3>1, <3>2
  <2>3. ASSUME NEW d \in Callers, NEW a \in Minutes
        PROVE  (Live(d, a)' => Ahead(d, a)') /\ Tallied(d, a)'
    <3>1. CASE <<d, a>> = <<c, b>>
      <4>1. ~Live(d, a)'
        BY <1>1, <2>1, <3>1 DEF Live
      <4>2. Tallied(d, a)'
        BY <2>1, <3>1 DEF Tallied
      <4> QED
        BY <4>1, <4>2
    <3>2. CASE <<d, a>> # <<c, b>>
      <4>1. Live(d, a)' => Live(d, a)
        BY <1>1, <2>1, <3>2 DEF Live
      <4>2. (Ahead(d, a) => Ahead(d, a)') /\ (Tallied(d, a) => Tallied(d, a)')
        BY <1>1, <2>1, <3>2 DEF Ahead, Tallied
      <4> QED
        BY <4>1, <4>2 DEF Counted
    <3> QED
      BY <3>1, <3>2
  <2>4. Outlived'
    <3> SUFFICES ASSUME NEW d \in Callers, NEW a \in Minutes, expires'[d][a] # 0
                 PROVE  expires'[d][a] > a
      BY DEF Outlived
    <3>1. <<d, a>> # <<c, b>>
      BY <2>1
    <3> QED
      BY <2>1, <3>1 DEF Outlived
  <2>5. ASSUME NEW d \in Callers, NEW a \in Minutes, counter'[d][a] > 0, expires'[d][a] = 0
        PROVE  \E q \in Requests : Key(q)' = <<d, a>> /\ pc'[q] \in {"expire", "crashed"}
    <3>1. <<d, a>> # <<c, b>>
      BY <2>1, <2>5
    <3>2. counter[d][a] > 0 /\ expires[d][a] = 0
      BY <2>1, <2>5, <3>1
    <3>3. PICK q \in Requests : Key(q) = <<d, a>> /\ pc[q] \in {"expire", "crashed"}
      BY <3>2 DEF CountersExpire
    <3> QED
      BY <1>1, <2>1, <3>3
  <2>6. Distinct'
    <3> SUFFICES ASSUME NEW p \in Requests \ late', NEW q \in Requests \ late',
                        p # q, Key(p)' = Key(q)', count'[p] > 0
                 PROVE  count'[p] # count'[q]
      BY DEF Distinct
    <3>1. p \notin late /\ q \notin late /\ Key(p) = Key(q) /\ count' = count
      BY <1>1, <2>1
    <3> QED
      BY <3>1 DEF Distinct
  <2>7. HandedOut'
    BY <1>1, <2>1 DEF HandedOut
  <2> QED
    BY <2>2, <2>3, <2>4, <2>5, <2>6, <2>7 DEF Counted, CountersExpire
<1> QED
  BY <1>2, <1>3

LEMMA NextLimiter == LInv /\ CountersExpire /\ [Next]_vars => LInv' /\ CountersExpire'
<1> SUFFICES ASSUME LInv, CountersExpire, [Next]_vars PROVE LInv' /\ CountersExpire'
  OBVIOUS
<1>1. ASSUME UNCHANGED <<limiterVars, pc>> PROVE LInv' /\ CountersExpire'
  <2>1. \A q \in Requests : Key(q)' = Key(q)
    BY <1>1 DEF Key, limiterVars
  <2>2. LTypeOK' /\ (\A q \in Requests : CountInStep(q)') /\ CountersExpire'
    BY <1>1, <2>1 DEF limiterVars, LInv, LTypeOK, LimiterTypeOK, CountInStep, CountersExpire
  <2>3. Counted' /\ Outlived'
    BY <1>1, <2>1 DEF limiterVars, LInv, Counted, Live, Ahead, Tallied, Outlived
  <2>4. Distinct' /\ HandedOut'
    BY <1>1, <2>1 DEF limiterVars, LInv, Distinct, HandedOut
  <2> QED
    BY <2>2, <2>3, <2>4 DEF LInv
<1>2. CASE Limiter
  BY <1>2, ArriveCounts, IncrementCounts, StepCounts, ClockCounts DEF Limiter, LimiterStep
<1>3. ASSUME NEW r \in Requests, OpenReport(r) \/ ReadFigure(r) PROVE LInv' /\ CountersExpire'
  BY <1>3, StepCounts
<1>4. ASSUME NEW o \in Orders, PlaceOrder(o) \/ \E s \in Statuses \ {"none"} : MoveOrder(o, s)
      PROVE  LInv' /\ CountersExpire'
  BY <1>1, <1>4 DEF PlaceOrder, MoveOrder
<1> QED
  BY <1>1, <1>2, <1>3, <1>4 DEF Next, Rest, vars

LEMMA Counts == Spec => [](LInv /\ CountersExpire)
BY InitLimiter, NextLimiter, PTL DEF Spec

\* A counter without a TTL has a request about to set it, or one that died there.
THEOREM CountersArmed == Spec => []CountersExpire
BY Counts, PTL

\* The requests of one key that were admitted and not late have different counts up to
\* Limit.
LEMMA AdmittedFew ==
  ASSUME LInv, NEW r \in Requests
  PROVE  Cardinality(PastIn(SameKey(r) \ late)) <= Limit
<1> DEFINE S == PastIn(SameKey(r) \ late)
           T == 1..Limit
           f == [q \in S |-> count[q]]
<1>1. \A q \in S : q \in Requests \ late /\ Key(q) = Key(r) /\ count[q] \in T
  BY DEF PastIn, SameKey, LInv, CountInStep
<1>2. \A p, q \in S : p # q => count[p] # count[q]
  BY <1>1 DEF LInv, Distinct
<1>3. f \in Injection(S, T)
  BY <1>1, <1>2 DEF Injection, IsInjective
<1>4. IsFiniteSet(T) /\ Cardinality(T) = Limit
  BY FS_Interval, LimitAssumption
<1> HIDE DEF S, T, f
<1>5. Cardinality(S) <= Cardinality(T)
  BY <1>3, <1>4, FS_Injection
<1> QED
  BY <1>4, <1>5 DEF S

\* The limit holds for every caller and minute, however the INCRs of the requests
\* interleave, except for requests that find their key expired (RateLimiter).
THEOREM LimitKept == Spec => []LimitHolds
<1>1. LInv => LimitHolds
  BY AdmittedFew DEF LimitHolds
<1> QED
  BY <1>1, Counts, PTL

\* The numbers up to Limit all went to other requests before a request is refused.
LEMMA RefusedLate ==
  ASSUME LInv, NEW r \in Requests, pc[r] \in {"ttl", "refused"}
  PROVE  Cardinality({q \in SameKey(r) \ {r} : count[q] \in 1..Limit}) >= Limit
<1> DEFINE S == {q \in SameKey(r) \ {r} : count[q] \in 1..Limit}
           T == 1..Limit
           f == [q \in S |-> count[q]]
<1>1. ASSUME NEW n \in T PROVE \E q \in S : f[q] = n
  <2>1. PICK q \in Requests : Key(q) = Key(r) /\ count[q] = n
    BY DEF LInv, HandedOut
  <2>2. q # r /\ pc[q] # "idle"
    BY <2>1, LimitAssumption DEF LInv, CountInStep
  <2> QED
    BY <2>1, <2>2 DEF SameKey
<1>2. f \in Surjection(S, T)
  BY <1>1 DEF Surjection
<1>3. IsFiniteSet(S)
  <2>1. S \in SUBSET Requests
    BY DEF SameKey
  <2> HIDE DEF S
  <2> QED
    BY <2>1, CallersAssumption, FS_Subset
<1>4. Cardinality(T) = Limit
  BY FS_Interval, LimitAssumption
<1> HIDE DEF S, T, f
<1>5. Cardinality(T) <= Cardinality(S) /\ Cardinality(S) \in Nat
  BY <1>2, <1>3, FS_Surjection, FS_CardinalityType
<1> QED
  BY <1>4, <1>5, LimitAssumption DEF S

\* Nobody is refused before Limit other requests were counted (rate_limiter).
THEOREM RefusalsJustified == Spec => []RefusedOnlyWhenFull
<1>1. LInv => RefusedOnlyWhenFull
  BY RefusedLate DEF RefusedOnlyWhenFull
<1> QED
  BY <1>1, Counts, PTL

-----------------------------------------------------------------------------
(* Discounts *)

\* A discount is at least nothing and at most the order, rounding included.
LEMMA DiscountBounds ==
  ASSUME NEW k \in Coupon, Storable(k), NEW s \in Nat
  PROVE  Discount(k, s) \in 0..s /\ Total(k, s) = s - Discount(k, s)
<1> DEFINE raw == RawDiscount(k, s)
           n == Lesser(raw, 10000 * s)
<1>1. raw \in Nat
  <2>1. k.value \in Nat /\ s * k.value \in Nat
    BY DEF Coupon
  <2> QED
    BY <2>1 DEF RawDiscount
<1>2. n \in Nat /\ n <= 10000 * s
  BY <1>1 DEF Lesser
<1>3. Discount(k, s) = (n + 5000) \div 10000
  BY DEF Discount, RoundHalfUp
<1> HIDE DEF n
<1>4. (n + 5000) \div 10000 \in 0..s
  BY <1>2
<1> QED
  BY <1>3, <1>4 DEF Total, Greater

\* What an order is worth before its coupon.
LEMMA SubtotalNat == \A o \in Orders : Subtotal(o) \in Nat
<1> SUFFICES ASSUME NEW o \in Orders PROVE Subtotal(o) \in Nat
  OBVIOUS
<1>1. IsFiniteSet(Merchants) /\ \A m \in Merchants : Lines[o][m] \in Nat
  BY OrdersAssumption
<1> QED
  BY <1>1, SumNat DEF Subtotal

DInv ==
  /\ status \in [Orders -> Statuses]
  /\ discount \in [Orders -> Nat] /\ amount \in [Orders -> Nat]
  /\ \A o \in Orders : status[o] = "none" => discount[o] = 0
  /\ DiscountAccounts

LEMMA InitDiscounts == Init => DInv
BY SubtotalNat, OrdersAssumption DEF Init, DInv, DiscountAccounts

LEMMA NextDiscounts == DInv /\ [Next]_vars => DInv'
<1> SUFFICES ASSUME DInv, [Next]_vars PROVE DInv'
  OBVIOUS
<1> USE DEF DInv, DiscountAccounts
<1>1. ASSUME UNCHANGED orderVars PROVE DInv'
  BY <1>1 DEF orderVars
<1>2. ASSUME NEW o \in Orders, PlaceOrder(o) PROVE DInv'
  <2>1. Subtotal(o) \in Nat /\ discount[o] = 0 /\ status[o] = "none"
    BY <1>2, SubtotalNat DEF PlaceOrder
  <2>2. CASE amount' = [amount EXCEPT ![o] = Subtotal(o)] /\ UNCHANGED discount
    BY <1>2, <2>1, <2>2 DEF PlaceOrder, Statuses
  <2>3. ASSUME NEW k \in Coupons, discount' = [discount EXCEPT ![o] = Discount(k, Subtotal(o))],
               amount' = [amount EXCEPT ![o] = Total(k, Subtotal(o))]
        PROVE  DInv'
    <3>1. k \in Coupon /\ Storable(k)
      BY CouponsAssumption
    <3>2. /\ Discount(k, Subtotal(o)) \in Nat /\ Total(k, Subtotal(o)) \in Nat
          /\ Total(k, Subtotal(o)) + Discount(k, Subtotal(o)) = Subtotal(o)
      BY <2>1, <3>1, DiscountBounds
    <3> QED
      BY <1>2, <2>3, <3>2 DEF PlaceOrder, Statuses
  <2> QED
    BY <1>2, <2>2, <2>3 DEF PlaceOrder
<1>3. ASSUME NEW o \in Orders, NEW s \in Statuses \ {"none"}, MoveOrder(o, s) PROVE DInv'
  BY <1>3 DEF MoveOrder
<1>4. ASSUME NEW r \in Requests, OpenReport(r) \/ ReadFigure(r) PROVE DInv'
  BY <1>1, <1>4 DEF OpenReport, ReadFigure
<1> QED
  BY <1>1, <1>2, <1>3, <1>4 DEF Next, Rest, vars

LEMMA Discounted == Spec => []DInv
BY InitDiscounts, NextDiscounts, PTL DEF Spec

\* The total and the discount of every order make up its lines, for every coupon the
\* table can hold (compute_discount, checkout).
THEOREM NoCentLost == Spec => []DiscountAccounts
BY Discounted, PTL DEF DInv

-----------------------------------------------------------------------------
(* Reports *)

Open == {"reading", "done"}

RTypeOK ==
  /\ step \in [Requests -> 0..6]
  /\ figures \in [Requests -> [Fields -> Nat]]
  /\ disturbed \subseteq Requests
  /\ \A r \in Requests :
       /\ pc[r] \notin Open => step[r] = 0 /\ figures[r] = Blank
       /\ pc[r] = "reading" => step[r] < Len(Plan(caller[r]))
       /\ pc[r] = "done" => step[r] = Len(Plan(caller[r]))

Revenue == Fields \ {"count"}

\* What r has read of the revenue has only grown since.
Grown(r) == \A f \in Revenue : figures[r][f] <= Figure(f, caller[r])

\* The windows r has read, the last of them included, are nested.
Ordered(r) ==
  LET n == step[r] + (IF caller[r] = Admin THEN 0 ELSE 2)
  IN  /\ n >= 4 => figures[r]["w7"] <= figures[r]["w30"]
      /\ n >= 5 => figures[r]["w30"] <= figures[r]["w90"]
      /\ n >= 6 => /\ figures[r]["w90"] <= figures[r]["all"]
                   /\ caller[r] = Admin => figures[r]["total"] <= figures[r]["all"]

\* The count of a merchant's orders is read last.
Averaged(r) ==
  caller[r] # Admin /\ step[r] >= 5 =>
    \E o \in Orders : figures[r]["all"] <= figures[r]["count"] * Lines[o][caller[r]]

RInv ==
  /\ RTypeOK
  /\ \A r \in Requests \ disturbed :
       /\ pc[r] = "reading" => Grown(r)
       /\ pc[r] \in Open => Ordered(r) /\ (Orders # {} => Averaged(r))

-----------------------------------------------------------------------------
(* The plans and the figures *)

LEMMA SixFields == Cardinality(Fields) = 6
<1>1. IsFiniteSet({"count"}) /\ Cardinality({"count"}) = 1
  BY FS_Singleton
<1>2. ASSUME NEW S, IsFiniteSet(S), NEW x, x \notin S
      PROVE  IsFiniteSet(S \cup {x}) /\ Cardinality(S \cup {x}) = Cardinality(S) + 1
  BY <1>2, FS_AddElement
<1> DEFINE S2 == {"count"} \cup {"total"}
           S3 == S2 \cup {"w7"}
           S4 == S3 \cup {"w30"}
           S5 == S4 \cup {"w90"}
           S6 == S5 \cup {"all"}
<1>3. "total" \notin {"count"} /\ "w7" \notin S2 /\ "w30" \notin S3 /\ "w90" \notin S4
      /\ "all" \notin S5 /\ Fields = S6
  BY DEF Fields
<1>4. IsFiniteSet(S2) /\ Cardinality(S2) = 2
  BY <1>1, <1>2, <1>3
<1>5. IsFiniteSet(S3) /\ Cardinality(S3) = 3
  <2> HIDE DEF S2
  <2> QED
    BY <1>2, <1>3, <1>4
<1>6. IsFiniteSet(S4) /\ Cardinality(S4) = 4
  <2> HIDE DEF S3
  <2> QED
    BY <1>2, <1>3, <1>5
<1>7. IsFiniteSet(S5) /\ Cardinality(S5) = 5
  <2> HIDE DEF S4
  <2> QED
    BY <1>2, <1>3, <1>6
<1>8. Cardinality(S6) = 6
  <2> HIDE DEF S5
  <2> QED
    BY <1>2, <1>3, <1>7
<1> QED
  BY <1>3, <1>8, Zenon

LEMMA PlanSteps ==
  ASSUME NEW c
  PROVE  /\ Len(Plan(c)) = IF c = Admin THEN 6 ELSE 5
         /\ \A n \in 1..Len(Plan(c)) : Plan(c)[n] \in Fields
         /\ c = Admin => /\ Plan(c)[1] = "count" /\ Plan(c)[2] = "total" /\ Plan(c)[3] = "w7"
                         /\ Plan(c)[4] = "w30" /\ Plan(c)[5] = "w90" /\ Plan(c)[6] = "all"
         /\ c # Admin => /\ Plan(c)[1] = "w7" /\ Plan(c)[2] = "w30" /\ Plan(c)[3] = "w90"
                         /\ Plan(c)[4] = "all" /\ Plan(c)[5] = "count"
BY DEF Plan, PlatformPlan, MerchantPlan, Fields

LEMMA WorthNat ==
  ASSUME DInv, NEW c \in Callers
  PROVE  \A o \in Orders : Worth(c)[o] \in Nat /\ (c # Admin => Worth(c)[o] = Lines[o][c])
BY OrdersAssumption DEF DInv, Worth

LEMMA DeliveredFinite == \A f : Delivered(f) \in SUBSET Orders /\ IsFiniteSet(Delivered(f))
<1> TAKE f
<1>1. Delivered(f) \in SUBSET Orders
  BY DEF Delivered
<1> QED
  BY <1>1, OrdersAssumption, FS_Subset

LEMMA FigureNat ==
  ASSUME DInv, NEW c \in Callers, NEW f \in Fields
  PROVE  Figure(f, c) \in Nat
<1>1. CASE f = "count"
  <2> DEFINE S == {o \in Delivered("all") : c = Admin \/ Lines[o][c] > 0}
  <2>1. S \in SUBSET Delivered("all")
    OBVIOUS
  <2> HIDE DEF S
  <2>2. Cardinality(S) \in Nat
    BY <2>1, DeliveredFinite, FS_Subset, FS_CardinalityType
  <2> QED
    BY <1>1, <2>2 DEF Figure, S
<1>2. CASE f # "count"
  <2>1. SumFunctionOnSet(Worth(c), Delivered(f)) \in Nat
    BY WorthNat, DeliveredFinite, SumNat
  <2> QED
    BY <1>2, <2>1 DEF Figure
<1> QED
  BY <1>1, <1>2

LEMMA FigureNextNat ==
  ASSUME DInv', NEW c \in Callers, NEW f \in Revenue
  PROVE  Figure(f, c)' \in Nat
<1>1. Delivered(f)' \in SUBSET Orders
  BY DEF Delivered
<1>2. IsFiniteSet(Delivered(f)')
  BY <1>1, OrdersAssumption, FS_Subset
<1>3. \A o \in Delivered(f)' : Worth(c)'[o] \in Nat
  BY OrdersAssumption DEF DInv, Worth, Delivered
<1>4. SumFunctionOnSet(Worth(c)', Delivered(f)') \in Nat
  BY <1>2, <1>3, SumNat
<1> QED
  BY <1>4 DEF Figure, Revenue

\* At one moment the wider window holds at least the revenue of the narrower one.
LEMMA WiderIsMore ==
  ASSUME DInv, NEW c \in Callers, NEW f \in Revenue, NEW g \in Revenue,
         Recent(f) \subseteq Recent(g)
  PROVE  Figure(f, c) <= Figure(g, c)
<1>1. Delivered(f) \in SUBSET Delivered(g)
  BY DEF Delivered
<1>2. SumFunctionOnSet(Worth(c), Delivered(f)) <= SumFunctionOnSet(Worth(c), Delivered(g))
  BY <1>1, WorthNat, DeliveredFinite, SumMonotone
<1> QED
  BY <1>2 DEF Figure, Revenue

\* While no delivery is taken back, revenue only grows.
LEMMA RevenueGrows ==
  ASSUME DInv, DInv', NEW c \in Callers, NEW f \in Revenue,
         \A o \in Orders : status[o] = "delivered" => status'[o] = "delivered" /\ amount'[o] = amount[o]
  PROVE  Figure(f, c) <= Figure(f, c)'
<1>1. Delivered(f) \in SUBSET Delivered(f)'
  BY DEF Delivered
<1>2. IsFiniteSet(Delivered(f)')
  <2>1. Delivered(f)' \in SUBSET Orders
    BY DEF Delivered
  <2> QED
    BY <2>1, OrdersAssumption, FS_Subset
<1>3. \A o \in Delivered(f)' : Worth(c)'[o] \in Nat
  BY OrdersAssumption DEF DInv, Worth, Delivered
<1>4. \A o \in Delivered(f) : Worth(c)[o] \in Nat /\ Worth(c)[o] <= Worth(c)'[o]
  BY OrdersAssumption DEF DInv, Worth, Delivered
<1>5. SumFunctionOnSet(Worth(c), Delivered(f)) <= SumFunctionOnSet(Worth(c)', Delivered(f)')
  BY <1>1, <1>2, <1>3, <1>4, SumMonotone
<1> QED
  BY <1>5 DEF Figure, Revenue

\* A merchant's revenue is at most his number of orders times the best of them.
LEMMA RevenueBounded ==
  ASSUME DInv, NEW c \in Callers \ {Admin}, Orders # {}
  PROVE  \E o \in Orders : Figure("all", c) <= Figure("count", c) * Lines[o][c]
<1> DEFINE w == Worth(c)
           D == Delivered("all")
<1>1. \A o \in Orders : w[o] \in Nat /\ w[o] = Lines[o][c]
  BY WorthNat
<1>2. D \in SUBSET Orders /\ IsFiniteSet(D)
  BY DeliveredFinite
<1>3. /\ Figure("all", c) = SumFunctionOnSet(w, D)
      /\ Figure("count", c) = Cardinality({o \in D : c = Admin \/ Lines[o][c] > 0})
  BY DEF Figure
<1>4. {o \in D : c = Admin \/ Lines[o][c] > 0} = {o \in D : w[o] > 0}
  BY <1>1, <1>2
<1> HIDE DEF w, D
<1>5. PICK o \in Orders : \A q \in Orders : w[q] <= w[o]
  <2>1. IsFiniteSet(Orders) /\ \A q \in Orders : w[q] \in Int
    BY <1>1, OrdersAssumption
  <2> QED
    BY <2>1, LargestValue
<1>6. SumFunctionOnSet(w, D) <= Cardinality({q \in D : w[q] > 0}) * w[o]
  <2>1. w[o] \in Nat /\ \A q \in D : w[q] \in Nat /\ w[q] <= w[o]
    BY <1>1, <1>2, <1>5
  <2>2. IsFiniteSet(D)
    BY <1>2
  <2> QED
    BY <2>1, <2>2, SumBound
<1>7. Figure("count", c) = Cardinality({q \in D : w[q] > 0})
  BY <1>3, <1>4, Zenon
<1> QED
  BY <1>1, <1>3, <1>6, <1>7
-----------------------------------------------------------------------------
(* The invariant of reports *)

LEMMA InitReports == Init => RInv
<1> SUFFICES ASSUME Init PROVE RInv
  OBVIOUS
<1>1. Blank \in [Fields -> Nat]
  BY DEF Blank
<1>2. \A r \in Requests : pc[r] = "idle" /\ step[r] = 0 /\ figures[r] = Blank
  BY DEF Init, LimiterInit
<1>3. RTypeOK
  BY <1>1, <1>2 DEF Init, RTypeOK, Open
<1> QED
  BY <1>2, <1>3 DEF RInv, Open

LEMMA FiguresKept ==
  ASSUME UNCHANGED orderVars
  PROVE  \A f, c : Figure(f, c)' = Figure(f, c)
BY DEF orderVars, Figure, Delivered, Worth

\* Steps of the limiter: a report that is open is left alone.
LEMMA LimiterReports ==
  ASSUME RInv, UNCHANGED <<orderVars, reportVars>>,
         \A q \in Requests : pc[q] \in Open \/ pc'[q] \in Open =>
           pc'[q] = pc[q] /\ caller'[q] = caller[q]
  PROVE  RInv'
<1>1. UNCHANGED <<step, figures, disturbed>>
  BY DEF reportVars
<1>2. RTypeOK'
  BY <1>1 DEF RInv, RTypeOK, Plan, Open
<1>3. ASSUME NEW q \in Requests \ disturbed, pc[q] \in Open
      PROVE  /\ Grown(q) => Grown(q)'
             /\ Ordered(q) => Ordered(q)'
             /\ Averaged(q) => Averaged(q)'
  <2>1. caller'[q] = caller[q]
    BY <1>3
  <2> QED
    BY <1>1, <2>1, FiguresKept DEF Grown, Ordered, Averaged
<1> QED
  BY <1>1, <1>2, <1>3 DEF RInv, Open

LEMMA OpenReports ==
  ASSUME LInv, DInv, RInv, NEW r \in Requests, OpenReport(r)
  PROVE  RInv'
<1>1. /\ pc[r] = "admitted" /\ pc' = [pc EXCEPT ![r] = "reading"]
      /\ UNCHANGED <<caller, step, figures, disturbed, orderVars>>
  BY DEF OpenReport, Goto, limiterVars, reportVars
<1>2. pc \in [Requests -> Points] /\ caller[r] \in Callers
  BY <1>1 DEF LInv, LTypeOK, LimiterTypeOK
<1>3. step[r] = 0 /\ figures[r] = Blank
  BY <1>1 DEF RInv, RTypeOK, Open
<1>4. RTypeOK'
  <2>1. Len(Plan(caller[r])) > 0
    BY PlanSteps
  <2> QED
    BY <1>1, <1>2, <1>3, <2>1 DEF RInv, RTypeOK, Open, Plan
<1>5. Grown(r)
  <2>1. ASSUME NEW f \in Revenue PROVE figures[r][f] <= Figure(f, caller[r])
    <3>1. Figure(f, caller[r]) \in Nat
      BY <1>2, FigureNat DEF Revenue
    <3>2. figures[r][f] = 0
      BY <1>3 DEF Blank, Revenue
    <3> QED
      BY <3>1, <3>2
  <2> QED
    BY <2>1 DEF Grown
<1>6. Ordered(r) /\ Averaged(r)
  BY <1>3 DEF Ordered, Averaged
<1>7. \A q \in Requests : /\ Grown(q) => Grown(q)'
                          /\ Ordered(q) => Ordered(q)'
                          /\ Averaged(q) => Averaged(q)'
  BY <1>1, FiguresKept DEF Grown, Ordered, Averaged
<1> QED
  BY <1>1, <1>2, <1>4, <1>5, <1>6, <1>7 DEF RInv, Open

\* A SELECT: the figure it returns, and the figures it leaves alone.
LEMMA ReadReports ==
  ASSUME LInv, DInv, RInv, NEW r \in Requests, ReadFigure(r)
  PROVE  RInv'
<1> DEFINE c == caller[r]
           n == step[r] + 1
           f == Plan(c)[n]
<1>1. /\ pc[r] = "reading" /\ UNCHANGED <<caller, disturbed, orderVars>>
      /\ figures' = [figures EXCEPT ![r][f] = Figure(f, c)]
      /\ step' = [step EXCEPT ![r] = n]
      /\ IF step'[r] = Len(Plan(c)) THEN Goto(r, "done") ELSE UNCHANGED pc
  BY DEF ReadFigure, limiterVars
<1>2. /\ pc \in [Requests -> Points] /\ c \in Callers
      /\ step \in [Requests -> 0..6] /\ figures \in [Requests -> [Fields -> Nat]]
      /\ step[r] < Len(Plan(c))
  BY <1>1 DEF LInv, LTypeOK, LimiterTypeOK, RInv, RTypeOK
<1>3. n \in 1..Len(Plan(c)) /\ n \in 1..6 /\ f \in Fields /\ step'[r] = n
  <2>1. Len(Plan(c)) \in {5, 6} /\ \A i \in 1..Len(Plan(c)) : Plan(c)[i] \in Fields
    BY PlanSteps
  <2>2. step[r] \in 0..6 /\ step[r] < Len(Plan(c))
    BY <1>2
  <2>3. n \in 1..Len(Plan(c)) /\ n \in 1..6
    BY <2>1, <2>2
  <2> QED
    BY <1>1, <1>2, <2>1, <2>3
<1>4. Figure(f, c) \in Nat
  BY <1>2, <1>3, FigureNat
<1> HIDE DEF f, n, c
<1>5. /\ \A q \in Requests \ {r} : /\ figures'[q] = figures[q] /\ step'[q] = step[q]
                                   /\ pc'[q] = pc[q]
      /\ figures'[r][f] = Figure(f, c)
      /\ \A g \in Fields \ {f} : figures'[r][g] = figures[r][g]
      /\ figures' \in [Requests -> [Fields -> Nat]] /\ step' \in [Requests -> 0..6]
      /\ pc'[r] = (IF n = Len(Plan(c)) THEN "done" ELSE "reading")
  BY <1>1, <1>2, <1>3, <1>4 DEF Goto
<1>6. \A q \in Requests : caller'[q] = caller[q] /\ Plan(caller[q])' = Plan(caller[q])
  BY <1>1 DEF Plan
<1>7. RTypeOK'
  BY <1>1, <1>2, <1>3, <1>5, <1>6 DEF RInv, RTypeOK, Open, c
<1>8. ASSUME NEW q \in Requests \ {r}
      PROVE  /\ Grown(q) => Grown(q)'
             /\ Ordered(q) => Ordered(q)'
             /\ Averaged(q) => Averaged(q)'
  BY <1>1, <1>5, <1>6, <1>8, FiguresKept DEF Grown, Ordered, Averaged
<1>9. ASSUME r \notin disturbed
      PROVE  Grown(r)' /\ Ordered(r)' /\ (Orders # {} => Averaged(r)')
  <2>1. Grown(r) /\ Ordered(r)
    BY <1>1, <1>9 DEF RInv, Open
  <2>2. Grown(r)'
    <3>1. \A g \in Revenue : figures'[r][g] <= Figure(g, c)
      BY <1>4, <1>5, <2>1 DEF Grown, Revenue, c
    <3> QED
      BY <1>1, <1>6, <3>1, FiguresKept DEF Grown, c
  <2>3. ASSUME NEW g \in Revenue, NEW h \in Revenue, Recent(g) \subseteq Recent(h), f = h, g # h
        PROVE  figures'[r][g] <= figures'[r][h]
    <3>1. figures'[r][g] = figures[r][g] /\ figures[r][g] \in Nat
      BY <1>2, <1>5, <2>3 DEF Revenue
    <3>2. figures[r][g] <= Figure(g, c)
      BY <2>1 DEF Grown, c
    <3>3. Figure(g, c) <= Figure(h, c) /\ Figure(g, c) \in Nat /\ Figure(h, c) \in Nat
      BY <1>2, <2>3, WiderIsMore, FigureNat DEF Revenue
    <3> QED
      BY <1>5, <2>3, <3>1, <3>2, <3>3
  <2>4. /\ Recent("w7") \subseteq Recent("w30") /\ Recent("w30") \subseteq Recent("w90")
        /\ Recent("w90") \subseteq Recent("all") /\ Recent("total") \subseteq Recent("all")
        /\ {"total", "w7", "w30", "w90", "all"} \subseteq Revenue
    BY DEF Recent, Ages, Revenue, Fields
  <2>5. Ordered(r)'
    <3> DEFINE off == IF c = Admin THEN 0 ELSE 2
               k == n + off
               fig == figures[r]
               fig2 == figures'[r]
    <3>1. n \in 1..6 /\ step[r] = n - 1
      <4>1. step[r] \in 0..6
        BY <1>2
      <4> QED
        BY <1>3, <4>1 DEF n
    <3>2. /\ c = Admin => k = n
          /\ c # Admin => k = n + 2 /\ n < 6
      BY <1>3, PlanSteps
    <3>3. /\ k = 3 <=> f = "w7"
          /\ k = 4 <=> f = "w30"
          /\ k = 5 <=> f = "w90"
          /\ k = 6 <=> f = "all"
          /\ f = "total" => k = 2
          /\ k \in 1..7
      BY <1>3, <3>2, PlanSteps DEF f
    <3>4. /\ k >= 5 => fig["w7"] <= fig["w30"]
          /\ k >= 6 => fig["w30"] <= fig["w90"]
          /\ k >= 7 => /\ fig["w90"] <= fig["all"]
                       /\ c = Admin => fig["total"] <= fig["all"]
      BY <2>1, <3>1 DEF Ordered, n, c
    <3>5. \A g \in Fields : g # f => fig2[g] = fig[g]
      BY <1>5
    <3> HIDE DEF fig, fig2, off
    <3>6. k >= 4 => fig2["w7"] <= fig2["w30"]
      BY <2>3, <2>4, <3>3, <3>4, <3>5 DEF fig2, Fields
    <3>7. k >= 5 => fig2["w30"] <= fig2["w90"]
      BY <2>3, <2>4, <3>3, <3>4, <3>5 DEF fig2, Fields
    <3>8. k >= 6 => fig2["w90"] <= fig2["all"]
      BY <2>3, <2>4, <3>3, <3>4, <3>5 DEF fig2, Fields
    <3>9. k >= 6 /\ c = Admin => fig2["total"] <= fig2["all"]
      BY <2>3, <2>4, <3>3, <3>4, <3>5 DEF fig2, Fields
    <3> QED
      BY <1>3, <1>6, <3>6, <3>7, <3>8, <3>9 DEF Ordered, off, fig2, c
  <2>6. ASSUME Orders # {} PROVE Averaged(r)'
    <3>1. CASE c # Admin /\ n >= 5
      <4>1. n = 5 /\ f = "count"
        BY <1>3, <3>1, PlanSteps DEF f
      <4>2. PICK o \in Orders : Figure("all", c) <= Figure("count", c) * Lines[o][c]
        BY <1>2, <2>6, <3>1, RevenueBounded
      <4>3. /\ figures'[r]["count"] = Figure("count", c)
            /\ figures'[r]["all"] = figures[r]["all"] /\ figures[r]["all"] \in Nat
        BY <1>2, <1>5, <4>1 DEF Fields
      <4>4. figures[r]["all"] <= Figure("all", c)
        BY <2>1 DEF Grown, Revenue, Fields, c
      <4>5. Figure("all", c) \in Nat /\ Figure("count", c) \in Nat /\ Lines[o][c] \in Nat
        BY <1>2, <3>1, FigureNat, OrdersAssumption DEF Fields
      <4>6. Figure("count", c) * Lines[o][c] \in Nat
        BY <4>5
      <4>7. figures'[r]["all"] <= figures'[r]["count"] * Lines[o][c]
        BY <4>2, <4>3, <4>4, <4>5, <4>6
      <4> QED
        BY <1>6, <4>7 DEF Averaged, c
    <3>2. CASE ~(c # Admin /\ n >= 5)
      BY <1>3, <1>6, <3>2 DEF Averaged, c
    <3> QED
      BY <3>1, <3>2
  <2> QED
    BY <2>2, <2>5, <2>6
<1> QED
  BY <1>1, <1>5, <1>7, <1>8, <1>9 DEF RInv, Open

\* An order is placed or moves: the open reports that it may disturb are recorded, and
\* for the others what they have read is still at most what there is.
LEMMA OrderReports ==
  ASSUME LInv, DInv, DInv', RInv, NEW o \in Orders,
         PlaceOrder(o) \/ \E s \in Statuses \ {"none"} : MoveOrder(o, s)
  PROVE  RInv'
<1>1. UNCHANGED <<pc, caller, step, figures>>
  BY DEF PlaceOrder, MoveOrder, limiterVars, reportVars
<1>2. /\ disturbed \subseteq disturbed' /\ disturbed' \subseteq Requests
      /\ \A r \in Requests \ disturbed' : pc[r] = "reading" =>
           \A q \in Orders : status[q] = "delivered" =>
             status'[q] = "delivered" /\ amount'[q] = amount[q]
  <2>1. CASE PlaceOrder(o)
    BY <2>1 DEF PlaceOrder, reportVars, RInv, RTypeOK, DInv
  <2>2. ASSUME NEW s \in Statuses \ {"none"}, MoveOrder(o, s)
        PROVE  /\ disturbed \subseteq disturbed' /\ disturbed' \subseteq Requests
               /\ \A r \in Requests \ disturbed' : pc[r] = "reading" =>
                    \A q \in Orders : status[q] = "delivered" =>
                      status'[q] = "delivered" /\ amount'[q] = amount[q]
    BY <2>2 DEF MoveOrder, RInv, RTypeOK, DInv
  <2> QED
    BY <2>1, <2>2
<1>3. RTypeOK'
  BY <1>1, <1>2 DEF RInv, RTypeOK, Open, Plan
<1>4. ASSUME NEW r \in Requests \ disturbed', pc[r] = "reading", Grown(r) PROVE Grown(r)'
  <2>1. caller[r] \in Callers /\ caller'[r] = caller[r]
    BY <1>1, <1>4 DEF LInv, LTypeOK, LimiterTypeOK
  <2>2. ASSUME NEW f \in Revenue PROVE figures'[r][f] <= Figure(f, caller[r])'
    <3> DEFINE c == caller[r]
    <3>1. Figure(f, c) \in Nat
      BY <2>1, FigureNat DEF Revenue
    <3>2. figures[r][f] \in Nat /\ figures[r][f] <= Figure(f, c)
      BY <1>4 DEF Grown, Revenue, RInv, RTypeOK
    <3>3. PICK d \in Callers : d = c
      BY <2>1
    <3>4. Figure(f, d) <= Figure(f, d)'
      BY <1>2, <1>4, RevenueGrows
    <3>5. Figure(f, d)' \in Nat
      BY FigureNextNat
    <3> QED
      BY <1>1, <3>1, <3>2, <3>3, <3>4, <3>5
  <2> QED
    BY <2>2 DEF Grown
<1>5. \A r \in Requests : (Ordered(r) => Ordered(r)') /\ (Averaged(r) => Averaged(r)')
  BY <1>1 DEF Ordered, Averaged
<1> QED
  BY <1>1, <1>2, <1>3, <1>4, <1>5 DEF RInv, Open

LEMMA NextReports == LInv /\ DInv /\ DInv' /\ RInv /\ [Next]_vars => RInv'
<1> SUFFICES ASSUME LInv, DInv, DInv', RInv, [Next]_vars PROVE RInv'
  OBVIOUS
<1> USE DEF LInv, LTypeOK, LimiterTypeOK
<1>1. CASE Limiter /\ UNCHANGED <<orderVars, reportVars>>
  <2>1. ASSUME NEW r \in Requests, NEW c \in Callers, Arrive(r, c),
               NEW q \in Requests, pc[q] \in Open \/ pc'[q] \in Open
        PROVE  pc'[q] = pc[q] /\ caller'[q] = caller[q]
    BY <2>1 DEF Arrive, Goto, Open
  <2>2. ASSUME NEW r \in Requests, LimiterStep(r) \/ LimiterCrash(r),
               NEW q \in Requests, pc[q] \in Open \/ pc'[q] \in Open
        PROVE  pc'[q] = pc[q] /\ caller'[q] = caller[q]
    BY <2>2 DEF LimiterStep, Increment, ArmKey, Refuse, LimiterCrash, Verdict, Goto, Open,
       KeyPoints, limiterVars
  <2>3. ASSUME Tick \/ \E c \in Callers, b \in Minutes : ExpireKey(c, b)
        PROVE  UNCHANGED caller
    BY <2>3 DEF Tick, ExpireKey
  <2>4. ASSUME NEW q \in Requests, pc[q] \in Open \/ pc'[q] \in Open
        PROVE  pc'[q] = pc[q] /\ caller'[q] = caller[q]
    BY <1>1, <2>1, <2>2, <2>3, <2>4 DEF Limiter
  <2> QED
    BY <1>1, <2>4, LimiterReports
<1>2. ASSUME NEW r \in Requests, OpenReport(r) \/ ReadFigure(r) PROVE RInv'
  BY <1>2, OpenReports, ReadReports
<1>3. ASSUME NEW o \in Orders, PlaceOrder(o) \/ \E s \in Statuses \ {"none"} : MoveOrder(o, s)
      PROVE  RInv'
  BY <1>3, OrderReports
<1>4. CASE UNCHANGED vars
  BY <1>4, LimiterReports DEF vars, limiterVars
<1> QED
  BY <1>1, <1>2, <1>3, <1>4 DEF Next, Rest

LEMMA Reported == Spec => []RInv
<1>1. LInv /\ DInv /\ DInv' /\ RInv /\ [Next]_vars => RInv'
  BY NextReports
<1> QED
  BY InitReports, <1>1, Counts, Discounted, PTL DEF Spec

\* Every variable of the limiter and the reports keeps its type.
THEOREM TypeCorrect == Spec => []TypeOK
<1>1. LInv /\ DInv /\ RInv => TypeOK
  BY SixFields DEF LInv, LTypeOK, DInv, RInv, RTypeOK, TypeOK, Points
<1> QED
  BY <1>1, Counts, Discounted, Reported, PTL

\* Whatever orders are placed and moved between the SELECTs of a report, its windows are
\* nested unless a delivery was taken back meanwhile (_revenue_windows, platform_stats).
THEOREM WindowsNest == Spec => []WindowsNested
<1>1. LInv /\ RInv => WindowsNested
  <2> SUFFICES ASSUME LInv, RInv, NEW r \in Requests, Settled(r)
               PROVE  /\ figures[r]["w7"] <= figures[r]["w30"]
                      /\ figures[r]["w30"] <= figures[r]["w90"]
                      /\ figures[r]["w90"] <= figures[r]["all"]
                      /\ caller[r] = Admin => figures[r]["total"] <= figures[r]["all"]
    BY DEF WindowsNested
  <2>1. Ordered(r) /\ step[r] = Len(Plan(caller[r]))
    BY DEF Settled, RInv, RTypeOK, Open
  <2>2. step[r] + (IF caller[r] = Admin THEN 0 ELSE 2) >= 6
    BY <2>1, PlanSteps
  <2> QED
    BY <2>1, <2>2 DEF Ordered
<1> QED
  BY <1>1, Counts, Reported, PTL

\* A merchant's revenue is at most the count times the best of his orders, although the
\* two are read at different moments (revenue_summary).
THEOREM AverageBounded ==
  ASSUME Orders # {}
  PROVE  Spec => []AverageNotInflated
<1>1. RInv => AverageNotInflated
  <2> SUFFICES ASSUME RInv, NEW r \in Requests, Settled(r), caller[r] \in Merchants
               PROVE  \E o \in Orders :
                        figures[r]["all"] <= figures[r]["count"] * Lines[o][caller[r]]
    BY DEF AverageNotInflated
  <2>1. Averaged(r) /\ step[r] = Len(Plan(caller[r])) /\ caller[r] # Admin
    BY OrdersAssumption DEF Settled, RInv, RTypeOK, Open
  <2>2. step[r] >= 5
    BY <2>1, PlanSteps
  <2> QED
    BY <2>1, <2>2 DEF Averaged
<1> QED
  BY <1>1, Reported, PTL
=============================================================================
