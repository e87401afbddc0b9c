-------------------------- MODULE RetryDelay_proofs --------------------------
(***************************************************************************)
(* What the delay computations return, for every policy, header and draw.  *)
(***************************************************************************)
EXTENDS RetryDelay, NatLemmas

(* Taking a fraction of at most the whole leaves between nothing and all.   *)
LEMMA FractionOf ==
    ASSUME NEW d \in Nat, NEW f \in Nat, NEW u \in Nat \ {0}, f <= u
    PROVE  /\ (d * f) \div u \in Nat
           /\ (d * f) \div u <= d
<1>1. d * f \in Nat /\ d * f <= d * u
  BY SMT
<1>2. (d * f) \div u >= 0
  BY <1>1, SMT
<1>3. (d * f) \div u <= d
  BY <1>1, SMT
<1> QED BY <1>1, <1>2, <1>3, SMT

-----------------------------------------------------------------------------
(* float64.                                                                *)

(* There is a nearest float64.                                              *)
LEMMA NearestExists ==
    ASSUME NEW x \in Nat
    PROVE  \E f \in Floats : \A g \in Floats : Distance(f, x) <= Distance(g, x)
<1> DEFINE D == {Distance(g, x) : g \in Floats}
<1>1. D \subseteq Nat /\ D # {}
  BY FloatAssumption DEF Distance
<1>2. PICK d \in D : \A e \in D : d <= e
  <2>1. IsWellFoundedOn(LessThan, Nat)
    BY NatLessThanWellFounded DEF OpToRel, LessThan
  <2>2. \E d \in D : \A e \in D : ~(<<e, d>> \in LessThan)
    <3> HIDE DEF D
    <3> QED BY <1>1, <2>1, WFMin
  <2> HIDE DEF D
  <2>3. PICK d \in D : \A e \in D : ~(e < d)
    BY <1>1, <2>2 DEF LessThan
  <2>4. \A e \in D : d <= e
    BY <1>1, <2>3
  <2> QED BY <2>4
<1>3. PICK f \in Floats : d = Distance(f, x)
  BY <1>2
<1> QED BY <1>2, <1>3

(* float64(x) is a float64, x itself when that is one, and none is nearer.  *)
LEMMA FloatIs ==
    ASSUME NEW x \in Nat
    PROVE  /\ Float(x) \in Floats /\ Float(x) \in Nat
           /\ x \in Floats => Float(x) = x
           /\ \A g \in Floats : Distance(Float(x), x) <= Distance(g, x)
<1>1. CASE x \in Floats
  <2>1. \A g \in Floats : Distance(x, x) <= Distance(g, x)
    BY FloatAssumption DEF Distance
  <2> QED BY <1>1, <2>1 DEF Float
<1>2. CASE x \notin Floats
  <2>1. Float(x) = CHOOSE f \in Floats : \A g \in Floats : Distance(f, x) <= Distance(g, x)
    BY <1>2 DEF Float
  <2>2. Float(x) \in Floats /\ \A g \in Floats : Distance(Float(x), x) <= Distance(g, x)
    BY <2>1, NearestExists
  <2> QED BY <1>2, <2>2, FloatAssumption
<1> QED BY <1>1, <1>2

(* Rounding to a float64 keeps the order.                                   *)
LEMMA FloatMonotone ==
    ASSUME NEW x \in Nat, NEW y \in Nat, x <= y
    PROVE  Float(x) <= Float(y)
<1> DEFINE f == Float(x)
           g == Float(y)
<1>1. /\ f \in Floats /\ f \in Nat /\ g \in Floats /\ g \in Nat
      /\ Distance(f, x) <= Distance(g, x)
      /\ Distance(g, y) <= Distance(f, y)
  BY FloatIs
<1>2. x = y => f = g
  OBVIOUS
<1> HIDE DEF f, g
<1>3. f <= g
  BY <1>1, <1>2 DEF Distance
<1> QED BY <1>3 DEF f, g

(* The longest Duration rounds up, to the only float64 next to it.          *)
LEMMA LongestFloatIs == LongestFloat = MaxDuration + 1
<1>1. MaxDuration \in Nat /\ MaxDuration + 1 \in Floats
      /\ MaxDuration \notin Floats /\ MaxDuration - 1 \notin Floats
  BY DelayAssumption, FloatAssumption
<1>2. /\ LongestFloat \in Floats /\ LongestFloat \in Nat
      /\ Distance(LongestFloat, MaxDuration) <= Distance(MaxDuration + 1, MaxDuration)
  BY <1>1, FloatIs DEF LongestFloat
<1>3. LongestFloat # MaxDuration /\ LongestFloat # MaxDuration - 1
  BY <1>1, <1>2
<1> QED BY <1>1, <1>2, <1>3 DEF Distance

(* time.Duration of a float64 that is not negative is a Duration, and the   *)
(* value itself when that is one.                                           *)
LEMMA ToDurationIs ==
    ASSUME NEW x \in Nat
    PROVE  /\ ToDuration(x) \in Int
           /\ ToDuration(x) >= -(MaxDuration + 1) /\ ToDuration(x) <= MaxDuration
           /\ ToDuration(x) <= x
           /\ x <= MaxDuration => ToDuration(x) = x
           /\ ToDuration(x) >= 0 \/ ToDuration(x) = -(MaxDuration + 1)
<1>1. /\ MaxDuration \in Nat
      /\ Overflowed = -(MaxDuration + 1) \/ Overflowed = MaxDuration
  BY DelayAssumption
<1>2. CASE x <= MaxDuration
  BY <1>1, <1>2 DEF ToDuration
<1>3. CASE ~(x <= MaxDuration)
  BY <1>1, <1>3 DEF ToDuration
<1> QED BY <1>2, <1>3

-----------------------------------------------------------------------------
(* The backoff.                                                            *)

(* The backoff before jitter is at most the ceiling.                        *)
LEMMA CappedBackoffBound ==
    ASSUME NEW attempt \in Nat, NEW initial \in Nat, NEW maxDelay \in Nat
    PROVE  /\ CappedBackoff(attempt, initial, maxDelay) = LesserOf(Float(initial) * 2^attempt, Float(maxDelay))
           /\ Float(initial) * 2^attempt \in Nat
           /\ CappedBackoff(attempt, initial, maxDelay) \in 0..Float(maxDelay)
<1> DEFINE p == 2^attempt
           i == Float(initial)
<1>1. Doublings(attempt) = attempt
  BY DEF Doublings
<1>2. p \in Nat /\ i \in Nat /\ Float(maxDelay) \in Nat
  BY PowerOfTwo, FloatIs
<1>3. CappedBackoff(attempt, initial, maxDelay) = LesserOf(i * p, Float(maxDelay))
  BY <1>1 DEF CappedBackoff
<1> HIDE DEF p, i
<1>4. i * p \in Nat
  BY <1>2, SMT
<1>5. LesserOf(i * p, Float(maxDelay)) \in 0..Float(maxDelay)
  BY <1>2, <1>4 DEF LesserOf
<1> QED BY <1>3, <1>4, <1>5 DEF p, i

(* Whatever the draw, jitter within [0,1] leaves a factor within [0,1].     *)
LEMMA JitterFactorBound ==
    ASSUME NEW jitter \in Fractions, jitter.parts \in 0..JitterUnit, NEW rnd \in Draws
    PROVE  JitterFactor(jitter, rnd) \in 0 .. (JitterUnit * JitterUnit)
<1>1. JitterUnit \in Nat \ {0} /\ rnd \in 0..JitterUnit
  BY DelayAssumption DEF Draws
<1>2. rnd * jitter.parts \in Nat /\ JitterUnit * JitterUnit \in Nat
  BY <1>1, SMT
<1> QED BY <1>2 DEF JitterFactor

(* What a response's headers ask for is an integer.                          *)
LEMMA ParsedType ==
    ASSUME NEW h \in Hints, NEW now \in Nat
    PROVE  ParseRetryAfter(h, now).d \in Int
<1>1. h.ms.n \in Int /\ h.after.n \in Int /\ MaxDuration \in Nat
  BY DelayAssumption DEF Hints
<1>2. h.ms.n * Millisecond \in Int
  BY <1>1, DelayAssumption, SMT
<1>3. ToDuration(h.after.n) \in Int
  BY <1>1, DelayAssumption DEF ToDuration
<1>4. TimeTo(h.after.n, now) \in Int
  BY <1>1 DEF TimeTo, LesserOf
<1> QED BY <1>2, <1>3, <1>4 DEF ParseRetryAfter, Found, NotFound

(* No backoff is out of the range of a Duration, nor below 0 unless it      *)
(* overflowed or is a NaN, for a policy New has not validated too.          *)
LEMMA BackoffLeast ==
    ASSUME NEW attempt \in Nat, NEW initial \in Int, NEW maxDelay \in Int,
           NEW jitter \in Fractions, NEW rnd \in Draws
    PROVE  /\ Backoff(attempt, initial, maxDelay, jitter, rnd) \in Int
           /\ Backoff(attempt, initial, maxDelay, jitter, rnd) >= -(MaxDuration + 1)
           /\ Backoff(attempt, initial, maxDelay, jitter, rnd) <= MaxDuration
<1> USE DelayAssumption
<1> DEFINE d == CappedBackoff(attempt, initial, maxDelay)
           f == JitterFactor(jitter, rnd)
           u == JitterUnit * JitterUnit
           w == (d * f) \div u
<1>1. rnd \in Int /\ jitter.parts \in Int
  BY DEF Draws, Fractions
<1>2. CASE initial <= 0 \/ maxDelay <= 0
  BY <1>2 DEF Backoff
<1>3. CASE ~(initial <= 0 \/ maxDelay <= 0) /\ jitter.isNaN
  <2>1. Backoff(attempt, initial, maxDelay, jitter, rnd) = FromNaN
    BY <1>3, Zenon DEF Backoff, Jittered
  <2>2. FromNaN \in Int /\ FromNaN >= -(MaxDuration + 1) /\ FromNaN <= MaxDuration
    OBVIOUS
  <2> QED BY <2>1, <2>2
<1>4. CASE ~(initial <= 0 \/ maxDelay <= 0) /\ ~jitter.isNaN
  <2>1. d \in Nat
    <3>1. initial \in Nat /\ maxDelay \in Nat
      BY <1>4
    <3>2. d \in 0 .. Float(maxDelay)
      BY <3>1, CappedBackoffBound
    <3> HIDE DEF d
    <3> QED BY <3>1, <3>2, FloatIs
  <2>2. u \in Nat \ {0}
    BY SMT
  <2>3. f \in Nat
    <3>1. rnd * jitter.parts \in Int
      BY <1>1, SMT
    <3> QED BY <2>2, <3>1 DEF JitterFactor
  <2>4. w \in Nat
    <3> HIDE DEF d, f, u
    <3>1. d * f \in Nat
      BY <2>1, <2>3, SMT
    <3> QED BY <2>2, <3>1, SMT
  <2>5. Backoff(attempt, initial, maxDelay, jitter, rnd) = ToDuration(Float(w))
    BY <1>4, Zenon DEF Backoff, Jittered
  <2> HIDE DEF w
  <2> QED BY <2>4, <2>5, FloatIs, ToDurationIs
<1> QED BY <1>2, <1>3, <1>4

(* Within a validated policy jitter takes from the capped backoff, and      *)
(* float64 rounding never gives back more than the ceiling.                 *)
LEMMA JitteredUnder ==
    ASSUME NEW attempt \in Nat, NEW initial \in Nat, NEW maxDelay \in Nat,
           NEW jitter \in Fractions, jitter.parts \in 0..JitterUnit, NEW rnd \in Draws
    PROVE  LET d == CappedBackoff(attempt, initial, maxDelay)
               w == (d * JitterFactor(jitter, rnd)) \div (JitterUnit * JitterUnit)
           IN  w \in Nat /\ w <= d /\ Float(w) \in Nat /\ Float(w) <= Float(maxDelay)
<1> USE DelayAssumption
<1> DEFINE d == CappedBackoff(attempt, initial, maxDelay)
           f == JitterFactor(jitter, rnd)
           u == JitterUnit * JitterUnit
           w == (d * f) \div u
<1>1. Float(maxDelay) \in Nat /\ Float(maxDelay) \in Floats
  BY FloatIs
<1>2. d \in Nat /\ d <= Float(maxDelay)
  <2>1. d \in 0..Float(maxDelay)
    BY CappedBackoffBound
  <2> HIDE DEF d
  <2> QED BY <1>1, <2>1
<1>3. u \in Nat \ {0}
  BY SMT
<1>4. f \in 0..u
  BY JitterFactorBound
<1>5. w \in Nat /\ w <= d
  <2> HIDE DEF d, f, u
  <2> QED BY <1>2, <1>3, <1>4, FractionOf
<1>6. Float(w) \in Nat /\ Float(w) <= Float(maxDelay)
  <2>1. w <= Float(maxDelay)
    <3> HIDE DEF w, d
    <3> QED BY <1>1, <1>2, <1>5
  <2> HIDE DEF w
  <2>2. Float(w) <= Float(Float(maxDelay))
    BY <1>1, <1>5, <2>1, FloatMonotone
  <2>3. Float(Float(maxDelay)) = Float(maxDelay)
    BY <1>1, FloatIs
  <2> QED BY <1>5, <2>2, <2>3, FloatIs
<1> HIDE DEF w
<1> QED BY <1>5, <1>6 DEF w

(* A policy, and one that validate accepts.                                 *)
LEMMA PolicyIs ==
    ASSUME NEW p \in RetryPolicies
    PROVE  /\ p.BackoffInitial \in Int /\ p.BackoffMax \in Int /\ p.MaxRetryAfter \in Int
           /\ p.Jitter \in Fractions
           /\ Valid(p) => /\ p.BackoffInitial \in 0..MaxDuration
                          /\ p.BackoffMax \in 0..MaxDuration
                          /\ p.MaxRetryAfter \in 0..MaxDuration
                          /\ Float(p.BackoffMax) \in Nat
                          /\ LongestBackoff(p) \in Nat /\ LongestBackoff(p) <= MaxDuration
                          /\ LongestWait(p) \in Nat
                          /\ ~p.Jitter.isNaN => p.Jitter.parts \in 0..JitterUnit
<1>1. /\ p.BackoffInitial \in Int /\ p.BackoffMax \in Int /\ p.MaxRetryAfter \in Int
      /\ p.Jitter \in Fractions
  BY DelayAssumption DEF RetryPolicies, Durations
<1>2. ASSUME Valid(p)
      PROVE  /\ p.BackoffInitial \in 0..MaxDuration
             /\ p.BackoffMax \in 0..MaxDuration
             /\ p.MaxRetryAfter \in 0..MaxDuration
             /\ ~p.Jitter.isNaN => p.Jitter.parts \in 0..JitterUnit
  BY <1>2, DelayAssumption DEF RetryPolicies, Durations, Valid
<1>3. ASSUME Valid(p) PROVE Float(p.BackoffMax) \in Nat
  <2>1. p.BackoffMax \in Nat
    BY <1>2, <1>3, DelayAssumption
  <2> QED BY <2>1, FloatIs
<1>4. ASSUME Valid(p)
      PROVE  /\ LongestBackoff(p) \in Nat /\ LongestBackoff(p) <= MaxDuration
             /\ LongestWait(p) \in Nat
  BY <1>2, <1>3, <1>4, DelayAssumption DEF LongestBackoff, LesserOf, LongestWait
<1> QED BY <1>1, <1>2, <1>3, <1>4

(* A validated policy's backoff is at most its ceiling, and not negative    *)
(* when a Duration can always hold it.                                      *)
LEMMA BackoffBound ==
    ASSUME NEW attempt \in Nat, NEW p \in RetryPolicies, Valid(p), NEW rnd \in Draws
    PROVE  LET b == Backoff(attempt, p.BackoffInitial, p.BackoffMax, p.Jitter, rnd)
           IN  /\ b \in Int /\ b <= LongestBackoff(p)
               /\ Convertible(p) => b >= 0
<1> USE DelayAssumption
<1> DEFINE b == Backoff(attempt, p.BackoffInitial, p.BackoffMax, p.Jitter, rnd)
           d == CappedBackoff(attempt, p.BackoffInitial, p.BackoffMax)
           w == (d * JitterFactor(p.Jitter, rnd)) \div (JitterUnit * JitterUnit)
<1>1. /\ p.BackoffInitial \in Nat /\ p.BackoffMax \in Nat
      /\ p.Jitter \in Fractions
      /\ ~p.Jitter.isNaN => p.Jitter.parts \in 0..JitterUnit
      /\ LongestBackoff(p) \in Nat
      /\ Float(p.BackoffMax) \in Nat
  BY PolicyIs
<1>2. b \in Int /\ b <= MaxDuration
  BY PolicyIs, BackoffLeast
<1>3. CASE p.BackoffInitial <= 0 \/ p.BackoffMax <= 0
  <2>1. b = 0
    BY <1>3 DEF Backoff
  <2> HIDE DEF b
  <2> QED BY <1>1, <2>1 DEF b
<1>4. CASE ~(p.BackoffInitial <= 0 \/ p.BackoffMax <= 0) /\ p.Jitter.isNaN
  <2>1. b = FromNaN
    BY <1>4, Zenon DEF Backoff, Jittered
  <2>2. FromNaN \in Int /\ FromNaN <= 0
    OBVIOUS
  <2> HIDE DEF b
  <2> QED BY <1>1, <1>4, <2>1, <2>2 DEF Convertible, b
<1>5. CASE ~(p.BackoffInitial <= 0 \/ p.BackoffMax <= 0) /\ ~p.Jitter.isNaN
  <2>1. w \in Nat /\ Float(w) \in Nat /\ Float(w) <= Float(p.BackoffMax)
    BY <1>1, <1>5, JitteredUnder
  <2>2. b = ToDuration(Float(w))
    BY <1>5, Zenon DEF Backoff, Jittered
  <2> HIDE DEF b, w
  <2>3. b <= Float(w) /\ (Float(w) <= MaxDuration => b = Float(w))
    BY <2>1, <2>2, ToDurationIs
  <2> QED BY <1>1, <1>2, <2>1, <2>3 DEF LongestBackoff, LesserOf, Convertible, b
<1> QED BY <1>3, <1>4, <1>5

(* The largest BackoffMax is no ceiling: once the doubled delay is beyond   *)
(* any Duration, a backoff without jitter is what the platform makes of     *)
(* 2^63, on amd64 the least int64 (internal/retry/retry.go:62-73).          *)
THEOREM LargestCeilingOverflows ==
    ASSUME NEW attempt \in Nat, NEW initial \in Nat \ {0},
           Float(initial) * 2^attempt > MaxDuration, NEW rnd \in Draws
    PROVE  Backoff(attempt, initial, MaxDuration, Fraction(0), rnd) = Overflowed
<1> DEFINE d == CappedBackoff(attempt, initial, MaxDuration)
           u == JitterUnit * JitterUnit
           m == MaxDuration + 1
<1>1. MaxDuration \in Nat \ {0} /\ JitterUnit \in Nat \ {0} /\ rnd \in Nat
  BY DelayAssumption DEF Draws
<1>2. d = m
  <2>1. /\ d = LesserOf(Float(initial) * 2^attempt, Float(MaxDuration))
        /\ Float(initial) * 2^attempt \in Nat
    BY <1>1, CappedBackoffBound
  <2>2. Float(MaxDuration) = m
    BY LongestFloatIs DEF LongestFloat
  <2> HIDE DEF d
  <2> QED BY <1>1, <2>1, <2>2 DEF LesserOf
<1>3. JitterFactor(Fraction(0), rnd) = u /\ u \in Nat \ {0}
  BY <1>1, SMT DEF JitterFactor, Fraction
<1>4. (m * u) \div u = m
  <2>1. m \in Nat
    BY <1>1
  <2> HIDE DEF m, u
  <2> QED BY <1>3, <2>1, SMT
<1>5. ToDuration(Float(m)) = Overflowed
  <2>1. Float(m) = m
    BY <1>1, FloatAssumption, FloatIs
  <2> QED BY <1>1, <2>1 DEF ToDuration
<1>6. Backoff(attempt, initial, MaxDuration, Fraction(0), rnd)
      = ToDuration(Float((d * JitterFactor(Fraction(0), rnd)) \div u))
  <2>1. ~(initial <= 0 \/ MaxDuration <= 0)
    BY <1>1
  <2>2. Fraction(0).isNaN = FALSE
    BY DEF Fraction
  <2> QED BY <2>1, <2>2, Zenon DEF Backoff, Jittered
<1> HIDE DEF d, m, u
<1> QED BY <1>2, <1>3, <1>4, <1>5, <1>6

(* A NaN Jitter, which New accepts, makes every backoff no wait at all: the *)
(* least int64 on amd64, 0 on arm64 (retry.go:64,                           *)
(* internal/retry/retry.go:68-73).                                          *)
THEOREM NaNJitterNeverWaits ==
    ASSUME NEW attempt \in Nat, NEW initial \in Int, NEW maxDelay \in Int, NEW rnd \in Draws
    PROVE  Backoff(attempt, initial, maxDelay, NaN, rnd) <= 0
<1>1. CASE initial <= 0 \/ maxDelay <= 0
  BY <1>1 DEF Backoff
<1>2. CASE ~(initial <= 0 \/ maxDelay <= 0)
  <2>1. Backoff(attempt, initial, maxDelay, NaN, rnd) = FromNaN
    BY <1>2, Zenon DEF Backoff, Jittered, NaN
  <2> QED BY <2>1, DelayAssumption
<1> QED BY <1>1, <1>2

(* Every wait a validated policy leads to is at most the longer of          *)
(* MaxRetryAfter and the ceiling of the backoff, whatever the server's      *)
(* headers say; and not negative, unless Jitter is a NaN or the ceiling     *)
(* rounds beyond the longest Duration (RetryPolicy.delay, retry.go:87-95).  *)
THEOREM DelayBound ==
    ASSUME NEW p \in RetryPolicies, Valid(p), NEW attempt \in Nat,
           NEW h \in Hints, NEW now \in Nat, NEW rnd \in Draws
    PROVE  /\ Delay(p, attempt, h, now, rnd) \in Int
           /\ Delay(p, attempt, h, now, rnd) <= LongestWait(p)
           /\ Convertible(p) => Delay(p, attempt, h, now, rnd) >= 0
<1> DEFINE parsed == ParseRetryAfter(h, now)
<1>1. /\ p.MaxRetryAfter \in Nat /\ LongestBackoff(p) \in Nat
  BY PolicyIs, DelayAssumption
<1>2. CASE HintAccepted(p, parsed)
  <2>1. parsed.d \in Int
    BY ParsedType
  <2>2. Delay(p, attempt, h, now, rnd) = parsed.d
    BY <1>2 DEF Delay
  <2>3. parsed.d >= 0 /\ parsed.d <= p.MaxRetryAfter
    BY <1>2 DEF HintAccepted
  <2> HIDE DEF parsed
  <2> QED BY <1>1, <2>1, <2>2, <2>3 DEF LongestWait
<1>3. CASE ~HintAccepted(p, parsed)
  <2> DEFINE b == Backoff(attempt, p.BackoffInitial, p.BackoffMax, p.Jitter, rnd)
  <2>1. b \in Int /\ b <= LongestBackoff(p) /\ (Convertible(p) => b >= 0)
    BY BackoffBound
  <2>2. Delay(p, attempt, h, now, rnd) = b
    BY <1>3 DEF Delay
  <2> HIDE DEF b
  <2> QED BY <1>1, <2>1, <2>2 DEF LongestWait
<1> QED BY <1>2, <1>3

(* Every delay is an integer, for a policy New has not validated too.       *)
LEMMA DelayType ==
    ASSUME NEW p \in RetryPolicies, NEW attempt \in Nat,
           NEW h \in Hints, NEW now \in Nat, NEW rnd \in Draws
    PROVE  Delay(p, attempt, h, now, rnd) \in Int
BY PolicyIs, ParsedType, BackoffLeast DEF Delay

(* A hint the policy honours is still honoured when the delay is chosen     *)
(* later than the response was read: a date keeps its instant, a number of  *)
(* seconds only starts later, and an overflowed one asks for no wait.       *)
LEMMA HintKept ==
    ASSUME NEW p \in RetryPolicies, NEW attempt \in Nat, NEW rnd \in Draws,
           NEW h \in Hints, NEW at \in Nat, NEW now \in Nat, at <= now,
           ~p.IgnoreRetryAfter, ParseRetryAfter(h, at).ok,
           ParseRetryAfter(h, at).d <= p.MaxRetryAfter
    PROVE  now + Delay(p, attempt, h, now, rnd) >= at + ParseRetryAfter(h, at).d
<1> USE DelayAssumption
<1> DEFINE asked == ParseRetryAfter(h, at)
           parsed == ParseRetryAfter(h, now)
           b == Backoff(attempt, p.BackoffInitial, p.BackoffMax, p.Jitter, rnd)
<1>1. h.ms.n \in Int /\ h.after.n \in Int /\ p.MaxRetryAfter \in Int
  BY DEF Hints, RetryPolicies, Durations
<1>2. b \in Int /\ b >= -(MaxDuration + 1)
  BY PolicyIs, BackoffLeast
<1> SUFFICES now + Delay(p, attempt, h, now, rnd) >= at + asked.d
  OBVIOUS
<1>3. Delay(p, attempt, h, now, rnd) = IF HintAccepted(p, parsed) THEN parsed.d ELSE b
  BY DEF Delay
<1>4. CASE UsableMs(h) \/ UsableSecs(h)
  <2>1. parsed = asked
    BY <1>4 DEF ParseRetryAfter
  <2>2. asked.d \in Int /\ (asked.d >= 0 \/ asked.d = -(MaxDuration + 1))
    <3>1. CASE UsableMs(h)
      <4>1. h.ms.n * Millisecond \in Nat
        BY <1>1, <3>1, SMT DEF UsableMs
      <4>2. asked.d = h.ms.n * Millisecond
        BY <3>1 DEF ParseRetryAfter, Found
      <4> HIDE DEF asked
      <4> QED BY <4>1, <4>2
    <3>2. CASE ~UsableMs(h)
      <4>1. asked.d = ToDuration(h.after.n) /\ h.after.n >= 0
        BY <1>4, <3>2 DEF ParseRetryAfter, Found, UsableSecs
      <4>2. ToDuration(h.after.n) \in Int
            /\ (ToDuration(h.after.n) >= 0 \/ ToDuration(h.after.n) = -(MaxDuration + 1))
        BY <1>1, <4>1 DEF ToDuration
      <4> HIDE DEF asked
      <4> QED BY <4>1, <4>2
    <3> QED BY <3>1, <3>2
  <2>3. asked.d >= 0 => HintAccepted(p, parsed)
    BY <2>1 DEF HintAccepted
  <2> HIDE DEF asked, parsed, b
  <2>4. CASE HintAccepted(p, parsed)
    BY <1>3, <2>1, <2>2, <2>4
  <2>5. CASE ~HintAccepted(p, parsed)
    BY <1>2, <1>3, <2>1, <2>2, <2>3, <2>5
  <2> QED BY <2>4, <2>5
<1>5. CASE ~UsableMs(h) /\ ~UsableSecs(h)
  <2>1. h.after.kind = "date"
    BY <1>5 DEF ParseRetryAfter, NotFound
  <2>2. /\ asked.d = TimeTo(h.after.n, at)
        /\ parsed.d = TimeTo(h.after.n, now)
        /\ parsed.ok
    BY <1>5, <2>1 DEF ParseRetryAfter, Found
  <2>3. parsed.d \in Nat /\ asked.d \in Nat /\ parsed.d <= asked.d
        /\ now + parsed.d >= at + asked.d
    <3> HIDE DEF asked, parsed
    <3> QED BY <1>1, <2>2 DEF TimeTo, LesserOf
  <2>4. HintAccepted(p, parsed)
    <3>1. parsed.d <= p.MaxRetryAfter
      <4> HIDE DEF parsed
      <4> QED BY <1>1, <2>3
    <3> QED BY <2>2, <2>3, <3>1 DEF HintAccepted
  <2> QED BY <1>3, <2>3, <2>4
<1> QED BY <1>4, <1>5
=============================================================================
