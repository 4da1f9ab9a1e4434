------------------------------ MODULE RateLimit ------------------------------
(***************************************************************************)
(* The fixed-window rate limiter in front of a route, one action per Redis *)
(* command, while minutes pass and keys expire.  A request computes the    *)
(* bucket of its key once and keeps it: its INCR may arrive in the next    *)
(* minute, when the key may already be gone.                               *)
(*                                                                         *)
(* Requests are used once.  Reports extends this module with a route.      *)
(***************************************************************************)
EXTENDS Integers, FiniteSets

CONSTANTS Callers,     \* identifiers: users, or addresses
          Requests,
          Limit,       \* requests per caller and minute
          LastMinute,  \* the clock stops here
          NoCaller

ASSUME CallersAssumption == IsFiniteSet(Requests) /\ NoCaller \notin Callers
ASSUME LimitAssumption   == Limit \in Nat \ {0} /\ LastMinute \in Nat

VARIABLES
  minute,   \* the wall clock, in windows
  counter,  \* counter[c][b]: Redis ratelimit:{scope}:{c}:{b}, 0 for no key
  expires,  \* expires[c][b]: the minute in which the key's TTL ends, 0 for no TTL
  pc,       \* where request r stands
  caller,   \* who sent r
  bucket,   \* the minute in the key of r
  count,    \* what the INCR of r returned
  late      \* history: requests whose key had expired before their INCR

limiterVars == <<minute, counter, expires, caller, bucket, count, late>>

Minutes == 0..LastMinute
KeyPoints == {"incr", "expire", "ttl"}
Key(r) == <<caller[r], bucket[r]>>
SameKey(r) == {q \in Requests : pc[q] # "idle" /\ Key(q) = Key(r)}

LimiterTypeOK ==
  /\ minute \in Minutes
  /\ counter \in [Callers -> [Minutes -> Nat]]
  /\ expires \in [Callers -> [Minutes -> 0..LastMinute + 1]]
  /\ caller \in [Requests -> Callers \cup {NoCaller}]
  /\ bucket \in [Requests -> Minutes]
  /\ count \in [Requests -> Nat]
  /\ late \subseteq Requests

LimiterInit ==
  /\ minute = 0
  /\ counter = [c \in Callers |-> [b \in Minutes |-> 0]]
  /\ expires = [c \in Callers |-> [b \in Minutes |-> 0]]
  /\ pc = [r \in Requests |-> "idle"]
  /\ caller = [r \in Requests |-> NoCaller]
  /\ bucket = [r \in Requests |-> 0]
  /\ count = [r \in Requests |-> 0]
  /\ late = {}

Goto(r, to) == pc' = [pc EXCEPT ![r] = to]

-----------------------------------------------------------------------------
MinuteBucketRounded == minute + 1  \* Mutant: rounded up
MinuteBucket == minute

\* The key is put together from the identifier and the minute.
Arrive(r, c) ==
  /\ pc[r] = "idle"
  /\ caller' = [caller EXCEPT ![r] = c]
  /\ bucket' = [bucket EXCEPT ![r] = MinuteBucket]
  /\ Goto(r, "incr")
  /\ UNCHANGED <<minute, counter, expires, count, late>>

VerdictStrict(n) == IF n >= Limit THEN "ttl" ELSE "admitted"  \* Mutant: >= for >

Verdict(n) == IF n > Limit THEN "ttl" ELSE "admitted"

\* INCR.  The request that made the key gives it its TTL next.
IncrementLate(r) ==  \* Mutant: the count from before the INCR is the one looked at
  /\ pc[r] = "incr"
  /\ LET n == counter[caller[r]][bucket[r]] + 1
     IN /\ counter' = [counter EXCEPT ![caller[r]][bucket[r]] = n]
        /\ count' = [count EXCEPT ![r] = n]
        /\ Goto(r, IF n = 1 THEN "expire" ELSE Verdict(n - 1))
  /\ UNCHANGED <<minute, expires, caller, bucket, late>>

Increment(r) ==
  /\ pc[r] = "incr"
  /\ LET n == counter[caller[r]][bucket[r]] + 1
     IN /\ counter' = [counter EXCEPT ![caller[r]][bucket[r]] = n]
        /\ count' = [count EXCEPT ![r] = n]
        /\ Goto(r, IF n = 1 THEN "expire" ELSE Verdict(n))
  /\ UNCHANGED <<minute, expires, caller, bucket, late>>

\* EXPIRE, a minute from now, wherever in its own minute the request may be.
ArmKeyNever(r) ==  \* Mutant: the key is never given a TTL
  /\ pc[r] = "expire"
  /\ Goto(r, Verdict(count[r]))
  /\ UNCHANGED limiterVars

ArmKey(r) ==
  /\ pc[r] = "expire"
  /\ expires' = [expires EXCEPT ![caller[r]][bucket[r]] = minute + 1]
  /\ Goto(r, Verdict(count[r]))
  /\ UNCHANGED <<minute, counter, caller, bucket, count, late>>

\* TTL, for the Retry-After of the 429.
Refuse(r) ==
  /\ pc[r] = "ttl"
  /\ Goto(r, "refused")
  /\ UNCHANGED limiterVars

LimiterStep(r) == Increment(r) \/ ArmKey(r) \/ Refuse(r)

-----------------------------------------------------------------------------
\* The clock.  A key whose TTL ends in this minute is gone when the minute is.
Tick ==
  /\ minute < LastMinute
  /\ \A c \in Callers, b \in Minutes : expires[c][b] # 0 => expires[c][b] > minute
  /\ minute' = minute + 1
  /\ UNCHANGED <<counter, expires, caller, bucket, count, late>>

\* Redis drops the key at some point of the minute in which its TTL ends, whoever is
\* still on the way to it.
ExpireKey(c, b) ==
  /\ expires[c][b] \in 1..minute
  /\ counter' = [counter EXCEPT ![c][b] = 0]
  /\ expires' = [expires EXCEPT ![c][b] = 0]
  /\ late' = late \cup {r \in Requests : pc[r] = "incr" /\ Key(r) = <<c, b>>}
  /\ UNCHANGED <<minute, caller, bucket, count>>

\* The process dies.  "crashed" is the end of a request that died before its EXPIRE.
LimiterCrash(r) ==
  /\ pc[r] \in KeyPoints
  /\ Goto(r, IF pc[r] = "expire" THEN "crashed" ELSE "failed")
  /\ UNCHANGED limiterVars

-----------------------------------------------------------------------------
(* Properties.  Past names the points that only an admitted request reaches. *)

Past == {"admitted", "reading", "done"}

PastIn(S) == {q \in S : pc[q] \in Past}

\* However their INCRs interleave, and though some come after their minute, no more than
\* Limit requests of one caller and minute get through, those left out that came when the
\* key of their minute had expired, 60 s after its first INCR: these do get past the limit
\* (RateLimiter.__call__), but the refused go on counting and no count is handed out twice.
LimitHolds == \A r \in Requests : Cardinality(PastIn(SameKey(r) \ late)) <= Limit

\* A 429 is answered only when Limit other requests of the caller were counted in that
\* minute: refusals do not count against anybody.
RefusedOnlyWhenFull ==
  \A r \in Requests :
    pc[r] \in {"ttl", "refused"} =>
      Cardinality({q \in SameKey(r) \ {r} : count[q] \in 1..Limit}) >= Limit

\* A counter without a TTL (INCR and EXPIRE are two commands) has a request between
\* the two, or one that died there.
CountersExpire ==
  \A c \in Callers, b \in Minutes :
    counter[c][b] > 0 /\ expires[c][b] = 0 =>
      \E r \in Requests : Key(r) = <<c, b>> /\ pc[r] \in {"expire", "crashed"}
=============================================================================
