---------------------------- MODULE MCClientCall ----------------------------
(***************************************************************************)
(* Instances of ClientCall for TLC: the policies, timeouts, deadlines and  *)
(* responses that make every branch of the loop reachable.                 *)
(***************************************************************************)
EXTENDS ClientCall

(* What amd64 makes of a float64 beyond MaxDuration = 31, and of a NaN. *)
LeastDuration == -32

DefaultStatuses == [isNil |-> TRUE, codes |-> {}]

(* DefaultRetryPolicy scaled down: two retries, backoff 1 then 2 with half  *)
(* of it as jitter, hints honoured up to 3.                                 *)
Default == [MaxRetries |-> 2, BackoffInitial |-> 1, BackoffMax |-> 2, Jitter |-> Fraction(1),
            MaxRetryAfter |-> 3, IgnoreRetryAfter |-> FALSE,
            Statuses |-> DefaultStatuses, ConnectionErrors |-> TRUE]

NoRetry == [Default EXCEPT !.MaxRetries = 0, !.ConnectionErrors = FALSE]

(* One retry, of 429 alone, without reading hints. *)
Picky == [Default EXCEPT !.MaxRetries = 1, !.IgnoreRetryAfter = TRUE, !.Jitter = Fraction(0),
                         !.Statuses = [isNil |-> FALSE, codes |-> {429}],
                         !.ConnectionErrors = FALSE]

(* Through WithCallRetry, which does not validate. *)
Negative == [Default EXCEPT !.MaxRetries = -1]
LengthenedJitter == [Default EXCEPT !.MaxRetries = 1, !.Jitter = Fraction(-2)]

Config(t, p) == [timeout |-> t, retry |-> p]

SafetyConfigs ==
    {Config(2, Default), Config(0, [Default EXCEPT !.MaxRetries = 1]), Config(1, Picky),
     Config(2, NoRetry), Config(1, Negative), Config(1, LengthenedJitter)}

SmallConfigs ==
    {Config(1, [Default EXCEPT !.MaxRetries = 1]), Config(0, Picky), Config(2, NoRetry)}

Plain(status) == [status |-> status, hints |-> NoHints]

After(status, kind, n) ==
    [status |-> status, hints |-> [NoHints EXCEPT !.after = [kind |-> kind, n |-> n]]]

AfterMs(status, n) ==
    [status |-> status, hints |-> [NoHints EXCEPT !.ms = [kind |-> "int", n |-> n]]]

SafetyResponses ==
    {Plain(200), Plain(404), Plain(503), After(429, "secs", 3), After(429, "date", 5),
     AfterMs(503, 9)}

SmallResponses == {Plain(200), Plain(503), After(429, "secs", 2)}

SafetyDeadlines == {Never, 4, 7}
SmallDeadlines == {Never, 3}
=============================================================================
