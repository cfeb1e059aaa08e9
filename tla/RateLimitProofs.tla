--------------------------- MODULE RateLimitProofs ---------------------------
(***************************************************************************)
(* Theorems about RateLimit, for any requests, clients, limits and window. *)
(***************************************************************************)
EXTENDS RateLimit, FiniteSetTheorems, TLAPS

RateTypeOK ==
    /\ limit \in Nat
    /\ now \in 0 .. LastWindow /\ tick \in 0 .. (Window - 1)
    /\ check \in [Requests -> {"arriving", "incrementing", "expiring", "admitted", "limited"}]
    /\ bucket \in [Requests -> 0 .. LastWindow]
    /\ counter \in [Counters -> Nat]
    /\ ttl \in [Counters -> Nat]
    /\ counted \subseteq Requests

\* The requests that a counter has counted, and those of them that it has let
\* through in time.
CountedBy(c) == {q \in counted : CounterOf(q) = c}

LetThrough(c) == {q \in CountedBy(c) : check[q] # "limited" /\ q \notin open \cup late}

\* How far each request is.
Counting ==
    \A r \in Requests :
        /\ bucket[r] <= now
        /\ check[r] \in {"arriving", "incrementing"} => r \notin counted
        /\ check[r] = "incrementing" => limit > 0

\* A counter is never above what it has counted, and not below it while its
\* window runs: until then its TTL lasts longer than the window.
CountersAgree ==
    \A c \in Counters :
        /\ counter[c] <= Cardinality(CountedBy(c))
        /\ c[2] = now => counter[c] = Cardinality(CountedBy(c))
        /\ c[2] = now /\ ttl[c] > 0 => ttl[c] + tick >= Window
        /\ c[2] > now => ttl[c] = 0

\* What was decided stands.
Decided ==
    /\ limit > 0 => \A c \in Counters : Cardinality(LetThrough(c)) <= limit
    /\ \A r \in Requests :
          check[r] = "limited" => r \in counted /\ Cardinality(CountedBy(CounterOf(r))) > limit

RateInv == RateTypeOK /\ Counting /\ CountersAgree /\ Decided

-----------------------------------------------------------------------------
LEMMA CounterType == ASSUME RateTypeOK, NEW r \in Requests
                     PROVE  CounterOf(r) \in Counters
BY DEF RateTypeOK, CounterOf, Counters

\* The sets that are counted are finite.
LEMMA CountedFinite ==
    ASSUME RateTypeOK, NEW c
    PROVE  /\ IsFiniteSet(CountedBy(c)) /\ Cardinality(CountedBy(c)) \in Nat
           /\ IsFiniteSet(LetThrough(c)) /\ Cardinality(LetThrough(c)) \in Nat
           /\ Cardinality(LetThrough(c)) <= Cardinality(CountedBy(c))
<1>1. IsFiniteSet(CountedBy(c))
  BY RateLimitAssumption, FS_Subset DEF RateTypeOK, CountedBy
<1>2. LetThrough(c) \subseteq CountedBy(c)
  BY DEF LetThrough
<1> QED
  BY <1>1, <1>2, FS_Subset, FS_CardinalityType

\* A step that counts nothing and decides nothing leaves the counts alone.
LEMMA NothingCounted ==
    ASSUME RateInv, UNCHANGED <<counted, late, limit>>, open \subseteq open',
           \A q \in counted : bucket'[q] = bucket[q],
           \A q \in counted : check'[q] = "limited" <=> check[q] = "limited"
    PROVE  \A c : CountedBy(c)' = CountedBy(c) /\ LetThrough(c)' \subseteq LetThrough(c)
BY DEF CountedBy, LetThrough, CounterOf

\* INCR adds the request to what its counter has counted, and to no other.
LEMMA CountAdds ==
    ASSUME RateInv, NEW r \in Requests, check[r] = "incrementing", Count(r)
    PROVE  /\ CountedBy(CounterOf(r))' = CountedBy(CounterOf(r)) \cup {r}
           /\ Cardinality(CountedBy(CounterOf(r))') = Cardinality(CountedBy(CounterOf(r))) + 1
           /\ \A c : c # CounterOf(r) => CountedBy(c)' = CountedBy(c)
           /\ \A q \in Requests : CounterOf(q)' = CounterOf(q)
<1>1. r \notin counted /\ counted' = counted \cup {r} /\ bucket' = bucket
  BY DEF RateInv, Counting, Count
<1>2. /\ CountedBy(CounterOf(r))' = CountedBy(CounterOf(r)) \cup {r}
      /\ \A c : c # CounterOf(r) => CountedBy(c)' = CountedBy(c)
      /\ \A q \in Requests : CounterOf(q)' = CounterOf(q)
      /\ r \notin CountedBy(CounterOf(r))
  BY <1>1 DEF CountedBy, CounterOf
<1>3. IsFiniteSet(CountedBy(CounterOf(r)))
  BY CountedFinite DEF RateInv
<1> QED
  BY <1>2, <1>3, FS_AddElement

LEMMA RateInit == Init => RateInv
<1> SUFFICES ASSUME Init
             PROVE  RateInv
  OBVIOUS
<1>1. RateTypeOK
  BY RateLimitAssumption DEF Init, RateTypeOK
<1>2. \A c : CountedBy(c) = {} /\ LetThrough(c) = {}
  BY DEF Init, CountedBy, LetThrough
<1>3. Cardinality({}) = 0
  BY FS_EmptySet
<1>4. \A c \in Counters : c[2] \in Nat
  BY RateLimitAssumption DEF Counters
<1> QED
  BY <1>1, <1>2, <1>3, <1>4 DEF Init, RateInv, Counting, CountersAgree, Decided, RateTypeOK

\* A step of one request that counts nothing.
LEMMA UncountedStep ==
    ASSUME RateInv, NEW r \in Requests, NEW p \in {"incrementing", "expiring", "admitted"},
           check[r] # "limited", check' = [check EXCEPT ![r] = p],
           UNCHANGED <<limit, now, tick, counter, counted, late>>, open \subseteq open',
           \/ UNCHANGED bucket /\ p = "admitted"
           \/ r \notin counted /\ bucket' = [bucket EXCEPT ![r] = now] /\ limit > 0,
           ttl' = ttl \/ SetTtl(r)
    PROVE  RateInv'
<1>1. RateTypeOK'
  BY CounterType, RateLimitAssumption DEF RateInv, RateTypeOK, SetTtl
<1>2. \A c : CountedBy(c)' = CountedBy(c) /\ LetThrough(c)' \subseteq LetThrough(c)
  BY NothingCounted DEF RateInv, RateTypeOK
<1>3. Counting'
  BY DEF RateInv, RateTypeOK, Counting
<1>4. \A c \in Counters : ttl'[c] = ttl[c] \/ ttl'[c] = 0 \/ (ttl'[c] = Window /\ c[2] <= now)
  BY DEF RateInv, RateTypeOK, SetTtl, CounterOf, Counting
<1>5. CountersAgree'
  <2>1. SUFFICES ASSUME NEW c \in Counters
                 PROVE  /\ counter[c] <= Cardinality(CountedBy(c))
                        /\ c[2] = now => counter[c] = Cardinality(CountedBy(c))
                        /\ c[2] = now /\ ttl'[c] > 0 => ttl'[c] + tick >= Window
                        /\ c[2] > now => ttl'[c] = 0
    BY <1>2 DEF CountersAgree
  <2>2. c[2] \in Nat /\ now \in Nat /\ tick \in Nat /\ ttl[c] \in Nat
    BY RateLimitAssumption DEF Counters, RateInv, RateTypeOK
  <2> QED
    BY <1>4, <2>2, RateLimitAssumption DEF RateInv, CountersAgree
<1>6. \A c : Cardinality(LetThrough(c)') <= Cardinality(LetThrough(c))
  BY <1>2, CountedFinite, FS_Subset DEF RateInv
<1>7. Decided'
  <2>1. limit' > 0 => \A c \in Counters : Cardinality(LetThrough(c)') <= limit'
    <3>1. SUFFICES ASSUME limit > 0, NEW c \in Counters
                   PROVE  Cardinality(LetThrough(c)') <= limit
      OBVIOUS
    <3>2. Cardinality(LetThrough(c)') \in Nat /\ Cardinality(LetThrough(c)) \in Nat
      BY <1>2, CountedFinite, FS_Subset, FS_CardinalityType DEF RateInv
    <3>3. Cardinality(LetThrough(c)) <= limit
      BY <3>1 DEF RateInv, Decided
    <3> QED
      BY <1>6, <3>2, <3>3 DEF RateInv, RateTypeOK
  <2>2. ASSUME NEW q \in Requests, check'[q] = "limited"
        PROVE  q \in counted' /\ Cardinality(CountedBy(CounterOf(q))')> limit'
    <3>1. check[q] = "limited" /\ q \in counted /\ Cardinality(CountedBy(CounterOf(q))) > limit
      BY <2>2 DEF RateInv, RateTypeOK, Decided
    <3>2. CounterOf(q)' = CounterOf(q)
      BY <3>1 DEF RateInv, RateTypeOK, CounterOf
    <3> QED
      BY <1>2, <3>1, <3>2
  <2> QED
    BY <2>1, <2>2 DEF Decided
<1> QED
  BY <1>1, <1>3, <1>5, <1>7 DEF RateInv

\* A step that counts a request.
LEMMA CountingStep ==
    ASSUME RateInv, NEW r \in Requests, Incr(r) \/ (IncrFails(r) /\ Count(r))
    PROVE  RateInv'
<1> USE DEF RateInv
<1> DEFINE c0 == CounterOf(r)
<1>1. /\ check[r] = "incrementing" /\ Count(r) /\ UNCHANGED <<limit, now, tick>>
      /\ counter' = [counter EXCEPT ![c0] = @ + 1]
      /\ UNCHANGED <<bucket, ttl>> /\ limit > 0 /\ c0 \in Counters
      /\ counted' = counted \cup {r} /\ r \notin counted
      /\ late' = IF now > bucket[r] THEN late \cup {r} ELSE late
      /\ \E p \in {"expiring", "admitted", "limited"} : check' = [check EXCEPT ![r] = p]
      /\ open \subseteq open' /\ open' \subseteq open \cup {r}
  BY CounterType DEF Incr, IncrFails, Count, Moves, Counting
<1>2. /\ Cardinality(CountedBy(c0)') = Cardinality(CountedBy(c0)) + 1
      /\ CountedBy(c0)' = CountedBy(c0) \cup {r}
      /\ \A c : c # c0 => CountedBy(c)' = CountedBy(c)
      /\ \A q \in Requests : CounterOf(q)' = CounterOf(q)
  BY <1>1, CountAdds
<1>3. RateTypeOK'
  BY <1>1 DEF RateTypeOK
<1>4. Counting'
  BY <1>1 DEF Counting, RateTypeOK
<1>5. CountersAgree'
  <2>1. \A c : Cardinality(CountedBy(c)) \in Nat
    BY CountedFinite
  <2>2. SUFFICES ASSUME NEW c \in Counters
                 PROVE  /\ counter'[c] <= Cardinality(CountedBy(c)')
                        /\ c[2] = now => counter'[c] = Cardinality(CountedBy(c)')
                        /\ c[2] = now /\ ttl[c] > 0 => ttl[c] + tick >= Window
                        /\ c[2] > now => ttl[c] = 0
    BY <1>1 DEF CountersAgree
  <2>3. counter[c] \in Nat /\ counter'[c] = IF c = c0 THEN counter[c] + 1 ELSE counter[c]
    BY <1>1 DEF RateTypeOK
  <2>4. Cardinality(CountedBy(c)') =
          IF c = c0 THEN Cardinality(CountedBy(c)) + 1 ELSE Cardinality(CountedBy(c))
    BY <1>2
  <2> HIDE DEF c0
  <2> QED
    BY <2>1, <2>3, <2>4 DEF CountersAgree
<1>6. limit' > 0 => \A c \in Counters : Cardinality(LetThrough(c)') <= limit'
  <2>1. \A c : c # c0 => LetThrough(c)' = LetThrough(c)
    BY <1>1, <1>2 DEF LetThrough, RateTypeOK, CountedBy
  <2>0. Cardinality(LetThrough(c0)') <= limit
        => \A c \in Counters : Cardinality(LetThrough(c)') <= limit'
    <3>1. SUFFICES ASSUME Cardinality(LetThrough(c0)') <= limit, NEW c \in Counters
                   PROVE  Cardinality(LetThrough(c)') <= limit
      BY <1>1
    <3>2. CASE c = c0
      <4>1. c0' = c0
        BY <1>2
      <4>2. LetThrough(c)' = LetThrough(c0)'
        BY <3>2, <4>1 DEF LetThrough, CountedBy
      <4> QED
        BY <3>1, <4>2
    <3>3. CASE c # c0
      <4>1. Cardinality(LetThrough(c)) <= limit
        BY <1>1 DEF Decided
      <4> QED
        BY <2>1, <3>3, <4>1
    <3> QED
      BY <3>2, <3>3
  <2>2. CASE r \in LetThrough(c0)'
    <3>1. Incr(r) /\ check'[r] # "limited" /\ c0[2] = now
      <4>1. r \notin late' /\ r \notin open' /\ check'[r] # "limited"
        BY <2>2 DEF LetThrough
      <4>2. Incr(r)
        BY <4>1 DEF IncrFails
      <4> QED
        BY <1>1, <4>1, <4>2 DEF CounterOf, Counting, RateTypeOK
    <3>2. counter[c0] + 1 <= limit
      BY <1>1, <3>1 DEF Incr, Moves, RateTypeOK
    <3>3. Cardinality(CountedBy(c0)') <= limit
      BY <1>1, <1>2, <3>1, <3>2 DEF CountersAgree
    <3>4. Cardinality(LetThrough(c0)') <= Cardinality(CountedBy(c0)')
      <4>1. IsFiniteSet(CountedBy(c0)')
        BY <1>2, CountedFinite, FS_AddElement
      <4>2. LetThrough(c0)' \subseteq CountedBy(c0)'
        BY <1>2 DEF LetThrough
      <4> QED
        BY <4>1, <4>2, FS_Subset
    <3>5. Cardinality(LetThrough(c0)') \in Nat /\ Cardinality(CountedBy(c0)') \in Nat
      BY <1>2, CountedFinite, FS_AddElement, FS_Subset, FS_CardinalityType DEF LetThrough
    <3>6. Cardinality(LetThrough(c0)') <= limit
      BY <3>3, <3>4, <3>5 DEF RateTypeOK
    <3> QED
      BY <2>0, <3>6
  <2>3. CASE r \notin LetThrough(c0)'
    <3>1. LetThrough(c0)' \subseteq LetThrough(c0)
      BY <1>1, <1>2, <2>3 DEF LetThrough, RateTypeOK
    <3>2. Cardinality(LetThrough(c0)') <= Cardinality(LetThrough(c0))
      BY <3>1, CountedFinite, FS_Subset
    <3>3. Cardinality(LetThrough(c0)') \in Nat
      BY <3>1, CountedFinite, FS_Subset, FS_CardinalityType
    <3>4. Cardinality(LetThrough(c0)) <= limit /\ Cardinality(LetThrough(c0)) \in Nat
      BY <1>1, CountedFinite DEF Decided
    <3>5. Cardinality(LetThrough(c0)') <= limit
      BY <3>2, <3>3, <3>4 DEF RateTypeOK
    <3> QED
      BY <2>0, <3>5
  <2> QED
    BY <2>2, <2>3
<1>7. ASSUME NEW q \in Requests, check'[q] = "limited"
      PROVE  q \in counted' /\ Cardinality(CountedBy(CounterOf(q))') > limit'
  <2>1. CASE q # r
    <3>1. q \in counted /\ Cardinality(CountedBy(CounterOf(q))) > limit
      BY <1>1, <1>7, <2>1 DEF Decided, RateTypeOK
    <3>2. Cardinality(CountedBy(CounterOf(q))) \in Nat
      BY CountedFinite
    <3>3. \/ Cardinality(CountedBy(CounterOf(q))') = Cardinality(CountedBy(CounterOf(q))) + 1
          \/ Cardinality(CountedBy(CounterOf(q))') = Cardinality(CountedBy(CounterOf(q)))
      <4>1. CASE CounterOf(q) = c0
        <5>1. CountedBy(CounterOf(q))' = CountedBy(c0)'
          BY <1>2, <4>1 DEF CountedBy
        <5> QED
          BY <1>2, <4>1, <5>1
      <4>2. CASE CounterOf(q) # c0
        <5>1. CounterOf(q)' = CounterOf(q)
          BY <1>2
        <5>2. {x \in counted' : CounterOf(x)' = CounterOf(q)} = CountedBy(CounterOf(q))
          BY <1>1, <1>2, <4>2 DEF CountedBy, RateTypeOK
        <5> QED
          BY <5>1, <5>2 DEF CountedBy
      <4> QED
        BY <4>1, <4>2
    <3> QED
      BY <1>1, <3>1, <3>2, <3>3 DEF RateTypeOK
  <2>2. CASE q = r
    <3>1. Incr(r) /\ counter[c0] + 1 > limit
      BY <1>1, <1>7, <2>2 DEF Incr, IncrFails, Moves, RateTypeOK
    <3>2. counter[c0] <= Cardinality(CountedBy(c0)) /\ Cardinality(CountedBy(c0)) \in Nat
      BY <1>1, CountedFinite DEF CountersAgree
    <3>3. counter[c0] \in Nat
      BY <1>1 DEF RateTypeOK
    <3>4. Cardinality(CountedBy(CounterOf(q))') = Cardinality(CountedBy(c0)) + 1
      BY <1>2, <2>2
    <3> QED
      BY <1>1, <2>2, <3>1, <3>2, <3>3, <3>4 DEF RateTypeOK
  <2> QED
    BY <2>1, <2>2
<1>8. Decided'
  BY <1>2, <1>6, <1>7 DEF Decided
<1> QED
  BY <1>3, <1>4, <1>5, <1>8

\* Time passes.
LEMMA TickStep == ASSUME RateInv, Tick
                  PROVE  RateInv'
<1> USE DEF RateInv
<1>1. \A c : CountedBy(c)' = CountedBy(c) /\ LetThrough(c)' = LetThrough(c)
  BY DEF Tick, CountedBy, LetThrough, CounterOf
<1>2. RateTypeOK'
  BY RateLimitAssumption DEF Tick, RateTypeOK
<1>3. Counting'
  BY DEF Tick, Counting, RateTypeOK
<1>4. \A c : Cardinality(CountedBy(c)) \in Nat
  BY CountedFinite
<1>5. \A c \in Counters : c[2] > now => Cardinality(CountedBy(c)) = 0
  <2>1. SUFFICES ASSUME NEW c \in Counters, c[2] > now
                 PROVE  CountedBy(c) = {}
    BY FS_EmptySet
  <2> QED
    BY <2>1, RateLimitAssumption DEF CountedBy, CounterOf, Counting, RateTypeOK, Counters
<1>6. CountersAgree'
  <2>1. \A c \in Counters : c[2] \in Nat
    BY RateLimitAssumption DEF Counters
  <2>2. SUFFICES ASSUME NEW c \in Counters
                 PROVE  /\ counter'[c] <= Cardinality(CountedBy(c))
                        /\ c[2] = now' => counter'[c] = Cardinality(CountedBy(c))
                        /\ c[2] = now' /\ ttl'[c] > 0 => ttl'[c] + tick' >= Window
                        /\ c[2] > now' => ttl'[c] = 0
    BY <1>1 DEF CountersAgree
  <2>3. counter'[c] \in {0, counter[c]} /\ (ttl[c] # 1 => counter'[c] = counter[c])
    BY DEF Tick
  <2>4. ttl'[c] = IF ttl[c] = 0 THEN 0 ELSE ttl[c] - 1
    BY DEF Tick
  <2>5. CASE now' = now /\ tick' = tick + 1 /\ tick < Window - 1
    BY <1>4, <2>1, <2>3, <2>4, <2>5, RateLimitAssumption DEF CountersAgree, RateTypeOK
  <2>6. CASE now' = now + 1 /\ tick' = 0
    BY <1>4, <1>5, <2>1, <2>3, <2>4, <2>6, RateLimitAssumption DEF CountersAgree, RateTypeOK
  <2> QED
    BY <2>5, <2>6 DEF Tick
<1>7. Decided'
  BY <1>1 DEF Tick, Decided, CounterOf
<1> QED
  BY <1>2, <1>3, <1>6, <1>7

LEMMA RateStep == RateInv /\ [Next]_vars => RateInv'
<1> SUFFICES ASSUME RateInv, [Next]_vars
             PROVE  RateInv'
  OBVIOUS
<1>1. ASSUME NEW r \in Requests, Unlimited(r) \/ ReadClock(r)
      PROVE  RateInv'
  <2>1. r \notin counted
    BY <1>1 DEF Unlimited, ReadClock, Moves, RateInv, Counting
  <2> QED
    BY <1>1, <2>1, UncountedStep DEF Unlimited, ReadClock, Moves
<1>2. ASSUME NEW r \in Requests, Expire(r) \/ ExpireFails(r)
      PROVE  RateInv'
  BY <1>2, UncountedStep DEF Expire, ExpireFails, Moves
<1>3. ASSUME NEW r \in Requests, IncrFails(r), ~Count(r)
      PROVE  RateInv'
  BY <1>3, UncountedStep DEF IncrFails, Moves
<1>4. ASSUME UNCHANGED vars
      PROVE  RateInv'
  BY <1>4 DEF vars, RateInv, RateTypeOK, Counting, CountersAgree, Decided, CountedBy, LetThrough,
              CounterOf
<1> QED
  BY <1>1, <1>2, <1>3, <1>4, CountingStep, TickStep DEF Next, Done

-----------------------------------------------------------------------------
\* The limit holds in every window, however the checks, the failures of Redis
\* and the clock interleave.
THEOREM LimitKeptHolds == Spec => []LimitKept
<1>1. RateInv => LimitKept
  <2>1. SUFFICES ASSUME RateInv, limit > 0, NEW r \in counted
                 PROVE  Cardinality({q \in SameCounter(r) \cap counted :
                            check[q] # "limited" /\ q \notin open \cup late}) <= limit
    BY DEF LimitKept
  <2>2. r \in Requests /\ CounterOf(r) \in Counters /\ counted \subseteq Requests
    BY <2>1, CounterType DEF RateInv, RateTypeOK
  <2>3. {q \in SameCounter(r) \cap counted : check[q] # "limited" /\ q \notin open \cup late}
            = LetThrough(CounterOf(r))
    BY <2>2 DEF SameCounter, LetThrough, CountedBy, CounterOf
  <2> QED
    BY <2>1, <2>2, <2>3 DEF RateInv, Decided
<1> QED
  BY <1>1, RateInit, RateStep, PTL DEF Spec

\* Nobody is locked out by a counter that outlives its window.
THEOREM RejectionIsRealHolds == Spec => []RejectionIsReal
<1>1. RateInv => RejectionIsReal
  <2>1. SUFFICES ASSUME RateInv, NEW r \in Requests, check[r] = "limited"
                 PROVE  Cardinality(SameCounter(r) \cap counted) > limit
    BY DEF RejectionIsReal
  <2>2. SameCounter(r) \cap counted = CountedBy(CounterOf(r))
    BY <2>1 DEF SameCounter, CountedBy, CounterOf, RateInv, RateTypeOK
  <2> QED
    BY <2>1, <2>2 DEF RateInv, Decided
<1> QED
  BY <1>1, RateInit, RateStep, PTL DEF Spec

=============================================================================
