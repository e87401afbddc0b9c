---------------------------- MODULE RetrySchedule ----------------------------
(***************************************************************************)
(* The delays RetryDelay chooses for the successive attempts of one call,  *)
(* compared with what the documentation says of them, for any policy, any  *)
(* combination of the two headers and any draw of the jitter.              *)
(***************************************************************************)
EXTENDS RetryDelay

CONSTANTS
    Policies,    \* the retry policies of calls
    Responses,   \* the headers of responses
    Now,         \* the instant the responses are read at
    MaxAttempt   \* bound: the last attempt of a schedule

ASSUME ScheduleAssumption ==
    /\ Policies \subseteq RetryPolicies
    /\ Responses \subseteq Hints
    /\ Now \in Nat /\ MaxAttempt \in Nat

VARIABLES
    policy,    \* the retry policy of the call
    hints,     \* the headers of the response to the latest attempt
    attempt,   \* its number, from 0
    rnd        \* what rnd() draws

vars == <<policy, hints, attempt, rnd>>

Init ==
    /\ policy \in Policies
    /\ hints \in Responses
    /\ attempt = 0
    /\ rnd \in Draws

(* The next round of the loop of do.  Every combination of headers and draw *)
(* has a schedule of its own, so they need not change within one.           *)
NextAttempt ==
    /\ attempt < MaxAttempt
    /\ attempt' = attempt + 1
    /\ UNCHANGED <<policy, hints, rnd>>

Next == NextAttempt

Spec == Init /\ [][Next]_vars

(* What do waits for after this attempt. *)
Chosen == Delay(policy, attempt, hints, Now, rnd)

(* A validated policy bounds every wait, whatever the headers say: none is  *)
(* beyond the longer of MaxRetryAfter and the ceiling of the backoff, and   *)
(* none is negative unless the backoff itself is out of a Duration's reach  *)
(* (retry.go:87-95, internal/retry/retry.go:62-73).                         *)
DelayWithinPolicy ==
    Valid(policy) =>
        /\ Chosen <= LongestWait(policy)
        /\ Convertible(policy) => Chosen >= 0

(* "delay before the first retry, doubled at each attempt", under the       *)
(* ceiling, of what float64 makes of the two.                               *)
DocumentedBackoff[n \in Nat] ==
    IF n = 0 THEN LesserOf(Float(policy.BackoffInitial), Float(policy.BackoffMax))
    ELSE LesserOf(2 * DocumentedBackoff[n - 1], Float(policy.BackoffMax))

BackoffChosen ==
    Backoff(attempt, policy.BackoffInitial, policy.BackoffMax, policy.Jitter, rnd)

(* The backoff of a validated policy that a Duration can hold is the        *)
(* documented one less a part of it of at most Jitter, to the precision of  *)
(* a float64 (retry.go:25-27, internal/retry/retry.go:48-74).               *)
BackoffDoublesUnderCeiling ==
    Valid(policy) /\ Convertible(policy) =>
        LET base == DocumentedBackoff[attempt]
            left == (base * (JitterUnit - policy.Jitter.parts)) \div JitterUnit
        IN  BackoffChosen \in Float(left) .. base

(* The wait the server asked for is the one that is made when the policy    *)
(* allows it, Retry-After-Ms before Retry-After, and a longer one is        *)
(* answered by the backoff.  A number of milliseconds that is negative or   *)
(* overflows gives way to Retry-After (docs/retries-and-timeouts.md,        *)
(* retry.go:28, internal/retry/retry.go:22-44).                             *)
ServerDecidesWait ==
    LET msRead == hints.ms.kind = "int" /\ hints.ms.n \in 0 .. MaxDuration \div Millisecond
        asks(d) == IF d <= policy.MaxRetryAfter THEN Chosen = d
                   ELSE Valid(policy) => Chosen <= LongestBackoff(policy)
    IN  ~policy.IgnoreRetryAfter =>
            /\ msRead => asks(hints.ms.n * Millisecond)
            /\ ~msRead /\ hints.after.kind = "secs" /\ hints.after.n \in 0..MaxDuration
               => asks(hints.after.n)
            /\ ~msRead /\ hints.after.kind = "date" => asks(TimeTo(hints.after.n, Now))

(* What the repository says of the program and the code does not do: see    *)
(* README.md, Findings.                                                     *)

(* "Retry-After overflowing a Duration yields RetryAfter 0, never negative" *)
(* (errors_test.go:362), of APIError.RetryAfter.                            *)
RetryAfterNeverNegative == RetryAfter(hints, Now) >= 0
=============================================================================
