------------------------- MODULE RetrySchedule_proofs -------------------------
(***************************************************************************)
(* What the documentation says of the delays, for every policy, every      *)
(* header, every draw and every attempt.                                   *)
(***************************************************************************)
EXTENDS RetrySchedule, RetryDelay_proofs

ScheduleType ==
    /\ policy \in RetryPolicies
    /\ hints \in Hints
    /\ attempt \in Nat
    /\ rnd \in Draws

LEMMA TypeInit == Init => ScheduleType
BY ScheduleAssumption DEF Init, ScheduleType

LEMMA TypeStep == ScheduleType /\ [Next]_vars => ScheduleType'
<1> SUFFICES ASSUME ScheduleType, [Next]_vars PROVE ScheduleType'
  OBVIOUS
<1>1. CASE NextAttempt
  BY <1>1 DEF NextAttempt, ScheduleType
<1>2. CASE UNCHANGED vars
  BY <1>2 DEF vars, ScheduleType
<1> QED BY <1>1, <1>2 DEF Next

LEMMA TypeCorrect == Spec => []ScheduleType
BY TypeInit, TypeStep, PTL DEF Spec

(* A wait the server asked for is made, or answered by the backoff.         *)
LEMMA HintDecides ==
    ASSUME NEW p \in RetryPolicies, NEW n \in Nat, NEW h \in Hints, NEW now \in Nat,
           NEW r \in Draws, NEW d \in Nat,
           ~p.IgnoreRetryAfter, ParseRetryAfter(h, now) = Found(d)
    PROVE  IF d <= p.MaxRetryAfter THEN Delay(p, n, h, now, r) = d
           ELSE Valid(p) => Delay(p, n, h, now, r) <= LongestBackoff(p)
<1> DEFINE b == Backoff(n, p.BackoffInitial, p.BackoffMax, p.Jitter, r)
           accepted == HintAccepted(p, ParseRetryAfter(h, now))
<1>1. ParseRetryAfter(h, now).ok /\ ParseRetryAfter(h, now).d = d
  BY DEF Found
<1>2. accepted <=> d <= p.MaxRetryAfter
  BY <1>1 DEF HintAccepted
<1>3. Delay(p, n, h, now, r) = IF accepted THEN d ELSE b
  BY <1>1 DEF Delay
<1>4. Valid(p) => b <= LongestBackoff(p)
  BY BackoffBound
<1> HIDE DEF accepted, b
<1> QED BY <1>2, <1>3, <1>4

LEMMA TypeDelay == ScheduleType => DelayWithinPolicy
BY DelayBound, ScheduleAssumption DEF ScheduleType, DelayWithinPolicy, Chosen

LEMMA TypeServer == ScheduleType => ServerDecidesWait
<1> DEFINE msRead == hints.ms.kind = "int" /\ hints.ms.n \in 0 .. MaxDuration \div Millisecond
           asks(d) == IF d <= policy.MaxRetryAfter THEN Chosen = d
                      ELSE Valid(policy) => Chosen <= LongestBackoff(policy)
<1> SUFFICES ASSUME ScheduleType, ~policy.IgnoreRetryAfter
             PROVE  /\ msRead => asks(hints.ms.n * Millisecond)
                    /\ ~msRead /\ hints.after.kind = "secs" /\ hints.after.n \in 0..MaxDuration
                       => asks(hints.after.n)
                    /\ ~msRead /\ hints.after.kind = "date" => asks(TimeTo(hints.after.n, Now))
  BY DEF ServerDecidesWait
<1>1. hints.ms.n \in Int /\ hints.after.n \in Int /\ Now \in Nat
  BY ScheduleAssumption DEF ScheduleType, Hints
<1>2. ASSUME NEW d \in Nat, ParseRetryAfter(hints, Now) = Found(d)
      PROVE  asks(d)
  BY <1>1, <1>2, HintDecides DEF ScheduleType, Chosen
<1> HIDE DEF asks
<1>3. msRead <=> UsableMs(hints)
  <2>1. MaxDuration \div Millisecond \in Int
    BY DelayAssumption, SMT
  <2> QED BY <1>1, <2>1 DEF UsableMs
<1> HIDE DEF msRead
<1>4. ASSUME msRead PROVE asks(hints.ms.n * Millisecond)
  <2>1. ParseRetryAfter(hints, Now) = Found(hints.ms.n * Millisecond)
    BY <1>3, <1>4 DEF ParseRetryAfter
  <2>2. hints.ms.n * Millisecond \in Nat
    <3>1. hints.ms.n \in Nat
      BY <1>1, <1>3, <1>4 DEF UsableMs
    <3> QED BY <3>1, DelayAssumption, SMT
  <2> QED BY <1>2, <2>1, <2>2
<1>5. ASSUME ~msRead, hints.after.kind = "secs", hints.after.n \in 0..MaxDuration
      PROVE  asks(hints.after.n)
  <2>1. UsableSecs(hints) /\ ToDuration(hints.after.n) = hints.after.n
    BY <1>5, DelayAssumption, LongestFloatIs DEF UsableSecs, ToDuration
  <2>2. ParseRetryAfter(hints, Now) = Found(hints.after.n)
    BY <1>3, <1>5, <2>1 DEF ParseRetryAfter
  <2>3. hints.after.n \in Nat
    BY <1>5
  <2> QED BY <1>2, <2>2, <2>3
<1>6. ASSUME ~msRead, hints.after.kind = "date" PROVE asks(TimeTo(hints.after.n, Now))
  <2>1. ~UsableSecs(hints)
    BY <1>6 DEF UsableSecs
  <2>2. ParseRetryAfter(hints, Now) = Found(TimeTo(hints.after.n, Now))
    BY <1>3, <1>6, <2>1 DEF ParseRetryAfter
  <2>3. TimeTo(hints.after.n, Now) \in Nat
    BY <1>1, DelayAssumption DEF TimeTo, LesserOf
  <2> QED BY <1>2, <2>2, <2>3
<1> QED BY <1>4, <1>5, <1>6

-----------------------------------------------------------------------------
(* The documented backoff.                                                 *)

(* The documented recursion has the closed form the code computes.          *)
LEMMA DocumentedIs ==
    ASSUME policy.BackoffInitial \in Nat, policy.BackoffMax \in Nat
    PROVE  \A n \in Nat : DocumentedBackoff[n]
                            = CappedBackoff(n, policy.BackoffInitial, policy.BackoffMax)
<1> DEFINE i == Float(policy.BackoffInitial)
           m == Float(policy.BackoffMax)
           C(n) == CappedBackoff(n, policy.BackoffInitial, policy.BackoffMax)
           g == [n \in Nat |-> C(n)]
           Step(f) == [n \in Nat |-> IF n = 0 THEN LesserOf(i, m) ELSE LesserOf(2 * f[n - 1], m)]
<1>0. i \in Nat /\ m \in Nat
  BY FloatIs
<1>1. ASSUME NEW n \in Nat
      PROVE  C(n) = IF i * 2^n > m THEN m ELSE i * 2^n
  <2>1. C(n) = LesserOf(i * 2^n, m) /\ i * 2^n \in Nat
    BY <1>1, CappedBackoffBound
  <2> QED BY <1>0, <2>1 DEF LesserOf
<1>2. C(0) = LesserOf(i, m)
  <2>1. i * 2^0 = i
    BY <1>0, PowerZero
  <2>2. C(0) = IF i > m THEN m ELSE i
    BY <1>1, <2>1
  <2> HIDE DEF i, m, C
  <2> QED BY <1>0, <2>2 DEF LesserOf
<1>3. ASSUME NEW n \in Nat
      PROVE  C(n + 1) = LesserOf(2 * C(n), m)
  <2> DEFINE p == 2^n
             q == 2^(n + 1)
  <2>1. p \in Nat \ {0} /\ q = 2 * p
    BY PowerOfTwo, PowerDoubles
  <2>2. /\ C(n) = IF i * p > m THEN m ELSE i * p
        /\ C(n + 1) = IF i * q > m THEN m ELSE i * q
    BY <1>1
  <2> HIDE DEF p, q, i, m, C
  <2>3. i * q = 2 * (i * p) /\ i * p \in Nat
    BY <1>0, <2>1, SMT
  <2> QED BY <1>0, <2>2, <2>3 DEF LesserOf
<1> HIDE DEF C
<1>4. g = Step(g)
  <2>1. ASSUME NEW n \in Nat
        PROVE  g[n] = IF n = 0 THEN LesserOf(i, m) ELSE LesserOf(2 * g[n - 1], m)
    <3>1. CASE n = 0
      BY <1>2, <3>1
    <3>2. CASE n # 0
      <4>1. n - 1 \in Nat /\ n = (n - 1) + 1
        BY <3>2
      <4>2. C((n - 1) + 1) = LesserOf(2 * C(n - 1), m)
        BY <1>3, <4>1
      <4>3. C(n) = LesserOf(2 * C(n - 1), m)
        BY <4>1, <4>2
      <4> QED BY <3>2, <4>1, <4>3
    <3> QED BY <3>1, <3>2
  <2> QED BY <2>1
<1>5. DocumentedBackoff = CHOOSE f : f = Step(f)
  BY DEF DocumentedBackoff
<1>6. DocumentedBackoff = Step(DocumentedBackoff)
  BY <1>4, <1>5
<1> DEFINE D == DocumentedBackoff
           S == {n \in Nat : D[n] = g[n]}
<1>7. ASSUME NEW n \in Nat
      PROVE  D[n] = IF n = 0 THEN LesserOf(i, m) ELSE LesserOf(2 * D[n - 1], m)
  <2> HIDE DEF D
  <2>1. D = Step(D)
    BY <1>6 DEF D
  <2> QED BY <2>1
<1>8. ASSUME NEW n \in Nat
      PROVE  g[n] = IF n = 0 THEN LesserOf(i, m) ELSE LesserOf(2 * g[n - 1], m)
  <2> HIDE DEF g
  <2> QED BY <1>4
<1> HIDE DEF D, g
<1>9. 0 \in S
  BY <1>7, <1>8
<1>10. ASSUME NEW n \in S \cap Nat PROVE n + 1 \in S
  <2>1. n + 1 \in Nat /\ n + 1 # 0 /\ (n + 1) - 1 = n
    OBVIOUS
  <2>2. D[n + 1] = LesserOf(2 * D[n], m) /\ g[n + 1] = LesserOf(2 * g[n], m)
    BY <1>7, <1>8, <2>1
  <2> QED BY <2>1, <2>2
<1>11. Nat \subseteq S
  <2> HIDE DEF S
  <2> QED BY <1>9, <1>10, SetInduction
<1>12. \A n \in Nat : D[n] = g[n]
  BY <1>11
<1> QED BY <1>12 DEF D, g, C

(* Below the ceiling of a Duration doubling a float64 is exact, so the      *)
(* capped backoff is a float64.                                             *)
LEMMA DoubledIsFloat ==
    ASSUME NEW i \in Floats
    PROVE  \A n \in Nat : i * 2^n <= MaxDuration + 1 => i * 2^n \in Floats
<1> DEFINE S == {n \in Nat : i * 2^n <= MaxDuration + 1 => i * 2^n \in Floats}
<1>0. i \in Nat /\ MaxDuration \in Nat
  BY FloatAssumption, DelayAssumption
<1>1. 0 \in S
  <2>1. i * 2^0 = i
    BY <1>0, PowerZero
  <2> QED BY <2>1
<1>2. ASSUME NEW n \in S \cap Nat PROVE n + 1 \in S
  <2> DEFINE p == 2^n
             q == 2^(n + 1)
  <2>1. p \in Nat \ {0} /\ q = 2 * p
    BY PowerOfTwo, PowerDoubles
  <2>2. i * p <= MaxDuration + 1 => i * p \in Floats
    OBVIOUS
  <2>3. n + 1 \in Nat
    OBVIOUS
  <2> SUFFICES i * q <= MaxDuration + 1 => i * q \in Floats
    BY <2>3
  <2> HIDE DEF p, q, S
  <2>4. i * q = 2 * (i * p) /\ i * p \in Nat
    BY <1>0, <2>1, SMT
  <2> DEFINE k == i * p
  <2> HIDE DEF k
  <2>5. k \in Nat /\ i * q = 2 * k /\ (k <= MaxDuration + 1 => k \in Floats)
    BY <2>2, <2>4 DEF k
  <2> QED BY <1>0, <2>5, FloatAssumption
<1>3. Nat \subseteq S
  <2> HIDE DEF S
  <2> QED BY <1>1, <1>2, SetInduction
<1> QED BY <1>3

(* Taking a share of j / u, r being drawn below u, leaves at least what     *)
(* taking j / u whole does.                                                 *)
LEMMA ShareLeft ==
    ASSUME NEW d \in Nat, NEW u \in Nat \ {0}, NEW j \in 0..u, NEW r \in 0..u-1
    PROVE  /\ (d * (u - j)) \div u \in Nat
           /\ (d * (u - j)) \div u <= (d * (u * u - r * j)) \div (u * u)
<1> DEFINE f == u * u - r * j
           a == d * (u - j)
           k == a \div u
           uu == u * u
           df == d * f
<1>1. uu \in Nat \ {0} /\ f \in Nat /\ f >= u * (u - j)
  <2>1. r * j \in Nat /\ r * j <= u * j /\ u * j <= uu /\ uu \in Nat /\ u * j \in Nat
    BY SMT
  <2>2. uu # 0
    BY SMT
  <2>3. u * (u - j) = uu - u * j
    BY SMT
  <2> HIDE DEF uu
  <2> QED BY <2>1, <2>2, <2>3 DEF uu
<1>2. a \in Nat
  BY SMT
<1>3. k \in Nat /\ k * u <= a
  <2> HIDE DEF a
  <2> QED BY <1>2, SMT
<1> HIDE DEF f, k
<1>4. df \in Nat /\ df >= a * u
  <2>1. d * f >= d * (u * (u - j)) /\ d * f \in Nat
    BY <1>1, SMT
  <2>2. d * (u * (u - j)) = a * u
    BY SMT
  <2> QED BY <2>1, <2>2
<1> HIDE DEF a, df
<1>5. k * uu <= df
  <2>1. (k * u) * u <= a * u
    BY <1>2, <1>3, SMT
  <2>2. (k * u) * u = k * uu
    BY <1>3, SMT
  <2>3. k * uu \in Int /\ a * u \in Int
    BY <1>2, <1>3, <1>1, SMT
  <2> HIDE DEF uu
  <2> QED BY <1>4, <2>1, <2>2, <2>3
<1> HIDE DEF uu
<1>6. k <= df \div uu
  BY <1>1, <1>3, <1>4, <1>5, SMT
<1> QED BY <1>3, <1>6 DEF f, a, k, uu, df

LEMMA TypeBackoff == ScheduleType => BackoffDoublesUnderCeiling
<1> DEFINE i == policy.BackoffInitial
           m == policy.BackoffMax
           j == policy.Jitter.parts
           u == JitterUnit
           base == CappedBackoff(attempt, i, m)
           left == (base * (u - j)) \div u
           f == JitterFactor(policy.Jitter, rnd)
           w == (base * f) \div (u * u)
<1> SUFFICES ASSUME ScheduleType, Valid(policy), Convertible(policy)
             PROVE  BackoffChosen \in
                      Float((DocumentedBackoff[attempt] * (u - j)) \div u) .. DocumentedBackoff[attempt]
  BY DEF BackoffDoublesUnderCeiling
<1>1. /\ i \in Nat /\ m \in Nat /\ j \in 0..u
      /\ policy.Jitter \in Fractions /\ ~policy.Jitter.isNaN
      /\ attempt \in Nat /\ rnd \in Draws /\ rnd \in 0..u-1
      /\ u \in Nat \ {0} /\ MaxDuration \in Nat
      /\ Float(m) \in Nat /\ Float(m) \in Floats /\ Float(m) <= MaxDuration
      /\ Float(i) \in Nat /\ Float(i) \in Floats
  <2>1. /\ i \in Nat /\ m \in Nat /\ policy.Jitter \in Fractions
        /\ ~policy.Jitter.isNaN => j \in 0..u
    BY PolicyIs, DelayAssumption DEF ScheduleType
  <2>2. ~policy.Jitter.isNaN /\ Float(m) <= MaxDuration
    BY DEF Convertible
  <2>3. attempt \in Nat /\ rnd \in Draws
    BY DEF ScheduleType
  <2>4. rnd \in 0..u-1 /\ u \in Nat \ {0} /\ MaxDuration \in Nat
    BY <2>3, DelayAssumption DEF Draws
  <2> QED BY <2>1, <2>2, <2>3, <2>4, FloatIs
<1>2. DocumentedBackoff[attempt] = base
  BY <1>1, DocumentedIs
<1> SUFFICES BackoffChosen \in Float(left) .. base
  BY <1>2
<1>3. base \in Nat /\ base \in Floats /\ base <= Float(m)
  <2> DEFINE p == Float(i) * 2^attempt
  <2>1. base = LesserOf(p, Float(m)) /\ p \in Nat
    BY <1>1, CappedBackoffBound
  <2>2. p <= MaxDuration + 1 => p \in Floats
    BY <1>1, DoubledIsFloat
  <2> HIDE DEF p, base
  <2> QED BY <1>1, <2>1, <2>2 DEF LesserOf
<1>4. /\ w \in Nat /\ w <= base
      /\ Float(w) \in Nat /\ Float(w) <= Float(m)
  BY <1>1, JitteredUnder
<1>5. left \in Nat /\ left <= w
  <2>1. f = u * u - rnd * j
    <3>1. rnd * j <= u * u /\ rnd * j \in Int /\ u * u \in Int
      <4>1. rnd * j <= u * j /\ u * j <= u * u /\ rnd * j \in Nat /\ u * j \in Nat /\ u * u \in Nat
        BY <1>1, SMT
      <4> QED BY <4>1
    <3> QED BY <3>1 DEF JitterFactor
  <2> HIDE DEF base, f, j, u
  <2> QED BY <1>1, <1>3, <2>1, ShareLeft
<1> HIDE DEF w, base, left
<1>6. Float(left) \in Nat /\ Float(left) <= Float(w) /\ Float(w) <= base
  <2>1. Float(w) <= Float(base) /\ Float(base) = base
    BY <1>3, <1>4, FloatMonotone, FloatIs
  <2> QED BY <1>4, <1>5, <2>1, FloatMonotone, FloatIs
<1>7. CASE i <= 0 \/ m <= 0
  <2>1. BackoffChosen = 0
    BY <1>7 DEF BackoffChosen, Backoff
  <2>2. base = 0
    <3>1. CASE i <= 0
      <4>1. i = 0 /\ Float(i) = 0
        BY <1>1, <3>1, FloatIs, FloatAssumption
      <4>2. base = LesserOf(Float(i) * 2^attempt, Float(m))
        BY <1>1, CappedBackoffBound DEF base
      <4>3. 0 * 2^attempt = 0
        <5> DEFINE p == 2^attempt
        <5>1. p \in Nat
          BY <1>1, PowerOfTwo
        <5> HIDE DEF p
        <5>2. 0 * p = 0
          BY <5>1, SMT
        <5> QED BY <5>2 DEF p
      <4> QED BY <1>1, <4>1, <4>2, <4>3 DEF LesserOf
    <3>2. CASE m <= 0
      <4>1. m = 0 /\ Float(m) = 0
        BY <1>1, <3>2, FloatIs, FloatAssumption
      <4> QED BY <1>3, <4>1
    <3> QED BY <1>7, <3>1, <3>2
  <2> QED BY <1>4, <1>6, <2>1, <2>2
<1>8. CASE ~(i <= 0 \/ m <= 0)
  <2>1. BackoffChosen = ToDuration(Float(w))
    BY <1>1, <1>8, Zenon DEF BackoffChosen, Backoff, Jittered, w, base
  <2>2. ToDuration(Float(w)) = Float(w)
    BY <1>1, <1>4, ToDurationIs
  <2> QED BY <1>3, <1>4, <1>6, <2>1, <2>2
<1> QED BY <1>7, <1>8

-----------------------------------------------------------------------------
(* The properties.                                                         *)

(* A validated policy bounds every wait, whatever the headers say, and none *)
(* is negative where a Duration can always hold the backoff                 *)
(* (retry.go:87-95, internal/retry/retry.go:62-73).                         *)
THEOREM DelayHolds == Spec => []DelayWithinPolicy
BY TypeCorrect, TypeDelay, PTL

(* Where a Duration can hold it, the backoff doubles with every attempt     *)
(* until it reaches the ceiling, and jitter takes at most its share of it   *)
(* (internal/retry/retry.go:48-74).                                         *)
THEOREM BackoffHolds == Spec => []BackoffDoublesUnderCeiling
BY TypeCorrect, TypeBackoff, PTL

(* The wait the server asked for is the one that is made when the policy    *)
(* allows it (retry.go:87-95, internal/retry/retry.go:14-46).               *)
THEOREM ServerHolds == Spec => []ServerDecidesWait
BY TypeCorrect, TypeServer, PTL
=============================================================================
