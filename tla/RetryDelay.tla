------------------------------ MODULE RetryDelay ------------------------------
(***************************************************************************)
(* The pure half of the retry loop: which statuses are worth retrying      *)
(* (retry.go), what a response's Retry-After headers ask for, and how long *)
(* the client waits before the next attempt (internal/retry/retry.go).     *)
(*                                                                         *)
(* Durations are integers counting an arbitrary unit, as time.Duration     *)
(* counts nanoseconds.  A fraction is an integer number of parts of        *)
(* JitterUnit.  Header values are abstracted to what parsing makes of      *)
(* them: absent, unreadable, or a number or date that could be read.       *)
(*                                                                         *)
(* X_Y is a faulty variant of X, which some property must reject.          *)
(***************************************************************************)
EXTENDS Integers

CONSTANTS
    Millisecond,   \* one millisecond, in the unit durations are counted in
    MaxDuration,   \* math.MaxInt64: the largest time.Duration
    Floats,        \* the whole numbers a float64 holds exactly
    Overflowed,    \* what converting a float64 above MaxDuration yields here
    FromNaN,       \* what converting a NaN yields here
    JitterUnit     \* the fractions rnd() and Jitter are multiples of 1/JitterUnit

(* The Go specification leaves the conversions out of range to the          *)
(* platform.                                                                *)
ASSUME DelayAssumption ==
    /\ Millisecond \in Nat \ {0}
    /\ MaxDuration \in Nat \ {0}
    /\ \/ Overflowed = -(MaxDuration + 1) /\ FromNaN = -(MaxDuration + 1)   \* amd64
       \/ Overflowed = MaxDuration /\ FromNaN = 0                           \* arm64
    /\ JitterUnit \in Nat \ {0}

(* The greatest int64 has more bits than a float64 keeps, and 2^63 is the   *)
(* float64 next to it.  Doubling a float64 is exact.                        *)
ASSUME FloatAssumption ==
    /\ Floats \subseteq Nat
    /\ 0 \in Floats
    /\ MaxDuration \notin Floats /\ MaxDuration - 1 \notin Floats
    /\ MaxDuration + 1 \in Floats
    /\ \A f \in Floats : 2 * f > MaxDuration + 1 \/ 2 * f \in Floats

-----------------------------------------------------------------------------
(* Conversions. *)

LesserOf(a, b) == IF a < b THEN a ELSE b

Distance(a, b) == IF a < b THEN b - a ELSE a - b

(* float64(x): the nearest float64, with any choice between two as near.    *)
Float(x) ==
    IF x \in Floats THEN x
    ELSE CHOOSE f \in Floats : \A g \in Floats : Distance(f, x) <= Distance(g, x)

(* float64(math.MaxInt64) *)
LongestFloat == Float(MaxDuration)

(* time.Duration(x) for a float64 x >= 0. *)
ToDuration(x) == IF x <= MaxDuration THEN x ELSE Overflowed

-----------------------------------------------------------------------------
(* Retry-After headers. *)

Absent == [kind |-> "absent", n |-> 0]
Unreadable == [kind |-> "unreadable", n |-> 0]

(* What one response carries: `ms` is Retry-After-Ms, an integer number of  *)
(* milliseconds when "int"; `after` is Retry-After, either "secs", the      *)
(* float64 secs * time.Second already counted in duration units, or "date", *)
(* an absolute time.                                                        *)
Hints == [ms    : [kind : {"absent", "unreadable", "int"}, n : Int],
          after : [kind : {"absent", "unreadable", "secs", "date"}, n : Int]]

(* A nil http.Header, or a response with neither header. *)
NoHints == [ms |-> Absent, after |-> Absent]

UsableMs(h) ==
    /\ h.ms.kind = "int"
    /\ h.ms.n >= 0
    /\ h.ms.n <= MaxDuration \div Millisecond

(* The bound rounds up to 2^63, one value more than a Duration can hold.    *)
UsableSecs(h) ==
    /\ h.after.kind = "secs"
    /\ h.after.n >= 0
    /\ h.after.n <= LongestFloat

NotFound == [ok |-> FALSE, d |-> 0]
Found(d) == [ok |-> TRUE, d |-> d]

(* t.Sub(now), which stops at the longest Duration, of a date to come.      *)
TimeTo(date, now) == IF date > now THEN LesserOf(date - now, MaxDuration) ELSE 0

ParseRetryAfter_SecondsFirst(h, now) ==
    IF UsableSecs(h) THEN Found(ToDuration(h.after.n))
    ELSE IF UsableMs(h) THEN Found(h.ms.n * Millisecond)
    ELSE IF h.after.kind = "date" THEN Found(TimeTo(h.after.n, now))
    ELSE NotFound

(* A number of milliseconds that is negative or overflows falls through.    *)
ParseRetryAfter(h, now) ==
    IF UsableMs(h) THEN Found(h.ms.n * Millisecond)
    ELSE IF UsableSecs(h) THEN Found(ToDuration(h.after.n))
    ELSE IF h.after.kind = "date" THEN Found(TimeTo(h.after.n, now))
    ELSE NotFound

(* APIError.RetryAfter, as newAPIError sets it: 0 when nothing was found. *)
RetryAfter(h, now) == ParseRetryAfter(h, now).d

-----------------------------------------------------------------------------
(* Exponential backoff. *)

Doublings_FromOne(attempt) == attempt + 1

Doublings(attempt) == IF attempt < 0 THEN 0 ELSE attempt

(* min(initial * 2^attempt, maxDelay), of what float64 makes of the two.    *)
(* The ceiling can come out above maxDelay, 2^63 for the longest Duration.  *)
CappedBackoff(attempt, initial, maxDelay) ==
    LesserOf(Float(initial) * 2^Doublings(attempt), Float(maxDelay))

(* A float64 fraction, in parts of JitterUnit, or NaN.                      *)
Fractions == [isNaN : BOOLEAN, parts : Int]

Fraction(n) == [isNaN |-> FALSE, parts |-> n]
NaN == [isNaN |-> TRUE, parts |-> 0]

(* 1 - rnd()*jitter, never below 0, in parts of JitterUnit^2. *)
JitterFactor(jitter, rnd) ==
    LET f == JitterUnit * JitterUnit - rnd * jitter.parts
    IN  IF f < 0 THEN 0 ELSE f

(* A NaN factor passes the test for a negative one.  The product is counted *)
(* in whole units before it is rounded to a float64 rather than after.      *)
Jittered(d, jitter, rnd) ==
    IF jitter.isNaN
    THEN FromNaN
    ELSE ToDuration(Float((d * JitterFactor(jitter, rnd)) \div (JitterUnit * JitterUnit)))

Backoff(attempt, initial, maxDelay, jitter, rnd) ==
    IF initial <= 0 \/ maxDelay <= 0
    THEN 0
    ELSE Jittered(CappedBackoff(attempt, initial, maxDelay), jitter, rnd)

-----------------------------------------------------------------------------
(* The retry policy. *)

(* RetryPolicy.Statuses is a slice: nil stands for the default set, and an  *)
(* empty slice that is not nil for no status at all.                        *)
StatusLists == [isNil : BOOLEAN, codes : SUBSET Int]

(* time.Duration is an int64. *)
Durations == -(MaxDuration + 1) .. MaxDuration

RetryPolicies == [MaxRetries       : Int,
                  BackoffInitial   : Durations,
                  BackoffMax       : Durations,
                  Jitter           : Fractions,
                  MaxRetryAfter    : Durations,
                  IgnoreRetryAfter : BOOLEAN,
                  Statuses         : StatusLists,
                  ConnectionErrors : BOOLEAN]

(* RetryPolicy.validate, which New applies and WithCallRetry does not.  A   *)
(* NaN Jitter is neither below 0 nor above 1.                               *)
Valid(p) ==
    /\ p.MaxRetries >= 0
    /\ p.BackoffInitial >= 0 /\ p.BackoffMax >= 0 /\ p.MaxRetryAfter >= 0
    /\ p.Jitter.isNaN \/ p.Jitter.parts \in 0..JitterUnit
    /\ \A s \in p.Statuses.codes : s >= 100 /\ s <= 999

RetryableStatus(p, code) ==
    IF p.Statuses.isNil
    THEN code = 408 \/ code = 429 \/ code \in 500..599
    ELSE code \in p.Statuses.codes

(* The values rnd() can draw: rand.Float64 is in [0, 1). *)
Draws == 0 .. (JitterUnit - 1)

HintAccepted_AnyLength(p, parsed) == ~p.IgnoreRetryAfter /\ parsed.ok

HintAccepted_AnySign(p, parsed) ==
    ~p.IgnoreRetryAfter /\ parsed.ok /\ parsed.d <= p.MaxRetryAfter

HintAccepted_BelowMax(p, parsed) ==
    ~p.IgnoreRetryAfter /\ parsed.ok /\ parsed.d \in 0 .. (p.MaxRetryAfter - 1)

HintAccepted(p, parsed) ==
    /\ ~p.IgnoreRetryAfter
    /\ parsed.ok
    /\ parsed.d >= 0
    /\ parsed.d <= p.MaxRetryAfter

Delay(p, attempt, h, now, rnd) ==
    LET parsed == ParseRetryAfter(h, now)
    IN  IF HintAccepted(p, parsed)
        THEN parsed.d
        ELSE Backoff(attempt, p.BackoffInitial, p.BackoffMax, p.Jitter, rnd)

(* The longest a policy lets one backoff last, and one wait.                *)
LongestBackoff(p) == LesserOf(Float(p.BackoffMax), MaxDuration)

LongestWait(p) ==
    IF LongestBackoff(p) > p.MaxRetryAfter THEN LongestBackoff(p) ELSE p.MaxRetryAfter

(* The policies whose backoff a Duration can always hold.                   *)
Convertible(p) == ~p.Jitter.isNaN /\ Float(p.BackoffMax) <= MaxDuration
=============================================================================
