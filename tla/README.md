# A TLA+ model of jev-go

jev-go is a Go client for an evaluation API: a caller puts typed questions about a state into a
`Request`, `Client.Evaluate` posts it with retries under a per-attempt timeout and the caller's
context, and typed `Key`s read the answers out of the `Result`. This directory models the client:
the retry loop in time, the delay arithmetic, a client shared by concurrent calls, requests edited
while they are evaluated and the keys that read their results, the integer conversions of scale
questions, and the errors made of undocumented bodies.

## The system

| Component (source) | State | Operations | Talks to | What must hold |
| --- | --- | --- | --- | --- |
| Call loop (`client.go`: `do`, `attempt`, `waitRetry`, `wait`; `internal/retry`: `Sleep`) | attempt number, the attempt's context, the latest response or error, the wait's timer | start an attempt, read its response, choose a delay, wait, return | the caller's context, the clock, net/http, the server | budget of attempts, the deadline, documented worst case, the right error with honest `Attempts` and `Timeout`, termination |
| Retry policy and delays (`retry.go`, `internal/retry/retry.go`) | none | `validate`, `retryableStatus`, `delay`, `ParseRetryAfter`, `Backoff` | called by the loop and by `newAPIError` | a wait within the policy, hints honoured in the documented order, no overflow |
| Construction and settings (`options.go`, `client.go`: `New`, `resolveCall`, `header`; `version.go`) | the config, one header map | options in order, final checks, call options, header maps and body readers per attempt | environment, caller, net/http | precedence of options over environment over defaults; calls do not disturb each other or the client |
| Scale questions (`question.go`, `answer.go`) | levels by index | `ScoreMap`, `Score`, marshal, `byLevel`, `Nearest` | server | levels survive the trip in every integer type |
| Requests, keys, other questions (`request.go`, `question.go`, `entry.go`) | the request's question map, keys | `Ask`, `marshalRequest`, `Key.Answer` | `Evaluate` | an invalid request is never sent; a key reads its own question's kind |
| Results (`result.go`, `answer.go`) | answers and kinds by key | `parseResult`, `NoulOf`, `ChoiceOf`, `ScoreOf`, `RawAnswer` | `Evaluate` | a result has a kind for every answer |
| Errors (`errors.go`) | the error's fields | `newAPIError`, `extractMessage`, `Is`, `Error` | the loop, the caller | which error, what it says, and that its sentinels agree with the retries |
| Model listing (`models.go`) | none | `ListModels`, a call of the same loop without a body | the loop | no body is sent; an unreadable answer is an error |

What is hard here: the caller's cancellation, the deadline, the attempt's timeout, the wait's timer
and the server race in every order; a check of the deadline is followed by a sleep; header maps are
shared between calls, attempts and a transport that may write late; integers and floats meet at the
limits of `time.Duration` and of the caller's level type. `PROJECT.json` lists these hazards with
their lines and the properties aimed at them.

## The modules

### RetryDelay

Pure operators. A duration counts an arbitrary unit (`Millisecond` of them to a millisecond) up to
`MaxDuration`; a fraction counts parts of `JitterUnit`. A header is abstracted to what parsing makes
of it: absent, unreadable, a number, a date.

`Floats` are the whole numbers a float64 holds exactly, and `Float` rounds to the nearest of them.
`float64(math.MaxInt64)` is 2^63, one more than a Duration holds, which matters twice, and both times
the model does as the code does. `UsableSecs` lets through one value too many. And the ceiling of
`CappedBackoff` is `Float(maxDelay)`, which may come out above `maxDelay`, and for the largest
`BackoffMax` beyond every Duration. `ToDuration` then yields `Overflowed`, the platform's choice: the
least int64 on amd64, the largest on arm64. `Jitter` is a `Fraction` or a `NaN`, which passes
`validate`; what a NaN converts to is `FromNaN`. One simplification remains: the product of backoff and
jitter factor is counted in whole units before it is rounded, so a delay may be off by less than a unit
and the rounding of one float64.

`RetrySchedule` compares the delays of the attempts of one call, under any policy, headers and draw,
with what the documentation says of them. `LongestWait` is the longer of `MaxRetryAfter` and the
rounded ceiling; `Convertible` policies are those whose Jitter is a number and whose rounded ceiling
is a Duration still, as it is for every `BackoffMax` of at most 2^63 - 513 ns.

### CallContract and ClientCall

`CallContract` is what one call promises about attempts and its outcome, without time.
`ClientCall` is the loop of `do`. `pc` says where its goroutine is:

| `pc` | the code is | left by |
| --- | --- | --- |
| `send` | at the top of the loop, `client.go:105` | `Send` |
| `inflight` | in `httpClient.Do` or `readBody`, `client.go:171-175` | `ResponseRead`, `BodyTooLarge`, `NetworkFails`, `AttemptContextDone` |
| `failed` | at `client.go:108` with an error | `ReturnInvalidResponse`, `FailedByContext`, `FailedForGood`, `RetryAfterError` |
| `answered` | at `client.go:134` with a response | `ReturnResponse`, `RefusedForGood`, `RetryAfterStatus` |
| `wait` | in `wait`, `client.go:204` | `WaitInterrupted`, `WaitSkipped`, `EnterSleep` |
| `arm` | at the top of `retry.Sleep` | `WaitInterrupted`, `NoWait`, `ArmTimer` |
| `sleep` | in its `select` | `WaitInterrupted`, `SleepElapsed` |
| `done` | returned; `out` is the outcome | |

The caller cancels (`CallerCancels`), its deadline fires (`DeadlineFires`) and the attempt's timeout
fires (`AttemptTimeoutFires`) between any two of these steps. Time is discrete. `Tick` moves the
clock only while the goroutine is blocked and no timer that is due is waiting to fire, so a timer is
never late by itself; `Lag` lets up to `MaxLag` instants pass while code runs, a goroutine that was
descheduled between, say, the deadline check and the sleep. Bounds that speak of time allow for `lag`.

Ghost state: `sent` (the numbers carried by the requests handed to the network, whether or not a
connection then comes about) and `warned` (Warn
lines) are written by the code's steps and read only by properties.

### Client

`New` (environment, options one by one, final checks; `DocumentedError` is what the documentation says
it ends in) and then any number of concurrent calls, each
made with `Arguments`: a request, told apart by the model it names, or `ListModels`; and a sequence
of call options, folded by `ResolveCall`. `http.Header` is a map and `bytes.Reader` remembers how
far it was read, so the module keeps a heap of header maps (the config's, one per call, one per
attempt) and the reader of every attempt's body. The retry count of a request is kept as the number
that its header spells. `HandToTransport` and `WriteRequest` are external:
`http.Client` may add its jar's cookies to the request's map, and a connection may write headers and
body at any later time, also after the attempt was abandoned. Whether a further attempt is made is
ClientCall's business; here one may always follow. `CallerEditsStatuses` is the caller writing to
the slice it passed in a policy.

### ScoreScale

One scale question from the caller's enum to `Nearest`. Integers have the width of their Go type;
`int` may be narrower than `int64`, as on a 32-bit build, and level types may be as wide as `int64`,
signed or not. The server either echoes the scale or answers anything. Two keys that name one level
("1" and "01") meet in `byLevel`, where Go's map iteration decides which value stays. The out-of-range
conversion of a float follows amd64.

### Batch

A request, its keys and its calls. A question is its kind, an identity and what the encoding
looks at: whether its entries are text, null or refused, how many options, whether every label is
named. `Evaluate` encodes the request or refuses it (`EvaluateNil` has none); `SendAttempt` starts an
attempt with that body, which reaches the server or not: with the context done, or without a
connection, nothing does, and the call can then only end in a `TransportError`. `wire` holds what did
reach it. The caller may change the request at any time (`Ask`, `Assign`, `Remove`). An attempt fails
for good or not (`AttemptFails`), or brings a 2xx body: an honest server answers some of the questions
it was last sent, each in its own kind, and may answer a raw question in a kind the SDK knows, or in a
newer one, perhaps with the SDK's field names for values of other types (`fits`); a misbehaving one
answers anything, or no JSON.
`Decode` is `parseResult`, or the decoding of a model list. `Answer` is `Key.Answer` with the decoding
of all kinds, as a function of a key and a result, so a key may be tried on any result.

Batch and ClientCall compose over `CallContract`: ClientCall implements the contract for the loop of
`do`, and Batch's calls make their attempts by it (`CallsKeepContract`), without time, contexts or waits.

### Errors

`newAPIError` and what the caller sees of it. A JSON value is its kind with its text, fields or
items, and a text a sequence of words. A `loc` segment that is empty still counts as one, as in the
code: `Located` asks for a segment and not for text. `ErrorReports` makes the error of any response and compares its
message with the documented order of shapes, stated without the helpers of the code, and its sentinels with `RetryableStatus`. `MCErrors` gives
it every status outside 2xx, and bodies in which each field the SDK looks at is missing, of another
type, empty or filled.

In all modules a definition named `X_Y` is a faulty variant of `X`: a plausible slip in that
piece of code, which the property named with it in `PROJECT.json` rejects. Nothing else uses it.

## Runs

| Run | Configuration | Question | Result |
| --- | --- | --- | --- |
| `call` | `ClientCall.cfg` | one call against every interleaving: its safety, `ImplementsContract`, and that it returns | holds, 487 thousand states |
| `retry_delay` | `RetryDelay.cfg` | delay arithmetic against its documentation | holds |
| `client` | `Client.cfg` | when New fails, the settings it resolves, header maps and body readers with two calls | holds, 737 thousand states |
| `score_scale` | `ScoreScale.cfg` | scale questions over six integer types | holds |
| `batch` | `Batch.cfg` | do keys read what was asked, does anything unsound leave, is an answered call repeated | holds, 3.2 million states |
| `errors` | `Errors.cfg` | messages, the error line and sentinels against their documentation | holds, 4.4 thousand states |
| `invalid_non2xx`, `warn_without_retry`, `attempt_after_cancel`, `retry_after_boundary`, `statuses_shared`, `nearest_negative` | of the same names | one sentence of the documentation each | violated, see Findings |

Bounds. `call`: up to two retries (a third attempt follows a second exactly as a second follows a
first), timeouts of 0 to 2 instants, backoff 1 and 2, hints at, below and beyond the policy's limit,
deadlines that cut the call inside an attempt and inside a wait, policies as `New` accepts them and
two that only `WithCallRetry` lets in; one instant of lag; a clock of 14 instants, which only a call
with neither timeout nor deadline can exhaust. `retry_delay`: Durations up to 31, five bits,
against floats of three significant bits, so that, as in Go, most Durations have no float of their own
and the largest rounds to one more than itself; a ceiling a float holds, one that rounds above itself,
the largest, and one below zero that `validate` refuses; header values at, just below and just beyond
the largest Duration; a Jitter of none, half, all and NaN; and five attempts, enough to double the
smallest initial delay beyond every ceiling. `client`: every option alone and every ordered pair, which is what precedence and
replacement need; two calls of two attempts, enough for one call or attempt to disturb another; three
argument lists that between them hold `ListModels`, a request with and without a model, every kind of
call option, a negative timeout after a valid one, and a protected header.
`score_scale`: types of 2 to 4 bits with `int` of 3 and `int64` of 4, so that every
relation of the three widths occurs; up to 5 levels against a limit of 4 instead of 10; at most two keys
from a misbehaving server, enough to collide. `batch`: two names and the empty one, a question of each kind, a
second noul to replace the first and one question that fails in each way; three changes of the request,
so that a question is registered, called for, replaced and removed in every order; choices of 2 and 3
options against a limit of 2, scores of 1 and 2 levels against limits of 2 and 3, instead of 255 and 10;
two attempts of one call, for a second would share only the request, and a call reads it once. `errors`: every status,
and every object of those fields besides the five other bodies; texts of one to three words around an echo of two, and detail
arrays of up to two entries, enough for one to be skipped and for two to be joined.

Fairness (`FairSpec`): the goroutine of the call is scheduled (`Code`), timers fire (`Timers`) and the
clock moves (`Tick`). That is what the Go runtime provides, together with a transport that honours
the context of its request, which net/http does. Nothing is assumed of the server, the network or
the caller; without a timeout and a deadline a call on a silent server rightly never returns.

Deadlock is checked for a call, where only `Returned` may stay. The other modules end: a schedule, a
client that made its calls, a question that was answered.

## Proofs

Every safety property that a passing run checks, and the two action properties and the two
refinements, is also a theorem, for every value of the constants that satisfies the assumptions named
below.

| Proof module | About | Assumes |
| --- | --- | --- |
| `NatLemmas` | induction, powers of two, remainders, greatest indexes | |
| `RetryDelay_proofs` | `RetryDelay` | `DelayAssumption`, `FloatAssumption` |
| `RetrySchedule_proofs` | `RetrySchedule` | `ScheduleAssumption` |
| `ClientCall_proofs` | `ClientCall`: first its time, then its outcome | `CallAssumption` |
| `Client_proofs` | `Client` | `ClientAssumption`, `LiteralsAssumption` |
| `Batch_proofs` | `Batch` | `BatchAssumption` |
| `ScoreScale_proofs` | `ScoreScale` | `ScaleAssumption` |
| `Errors_proofs` | `ErrorReports` | `EchoAssumption`, `ReportAssumption` |

The assumptions give the constants their types, and few do more. `DelayAssumption`: what a float64
beyond the largest Duration and a NaN convert to are those of amd64 or those of arm64.
`FloatAssumption`: the floats are whole numbers, doubling one gives another until it leaves the range of
a Duration, and next to the largest Duration there is only the one above it. `ClientAssumption`: no
option, environment or request names the model that stands for "no body", and a header option has a
value, for an empty one cannot be told from none. `LiteralsAssumption`: the module's own literals are
strings, which TLC knows and the provers do not. `ScaleAssumption`: an `int` holds every level of the
longest scale (10 levels, and at least 32 bits in Go). `ReportAssumption`: what is inside a JSON value
is a JSON value, and a body that is not blank has some text.

No prover here takes an induction over a statement, but over a set it can be done: `SetInduction`
(a set with 0, and with n + 1 for each n in it, has all naturals) is proved once, from the
well-foundedness of `<`, and every induction is about the set of numbers a statement holds for. The
recursive functions of the model (`DocumentedBackoff`, the fold of `ResolveCall`, that of
`JoinDetailEntries`, `FlattenSeq`) are each `CHOOSE f : f = ...`; a proof exhibits a function that
solves the equation, so that the chosen one does, and compares the two index by index.

- `DelayBound`: for a valid policy `Delay` is at most `LongestWait`, and for a convertible one not below
  zero; `LargestCeilingOverflows` and `NaNJitterNeverWaits` say
  what becomes of the policies left out. Its lemmas bound the capped power of two, the jitter
  factor, their product and what rounding makes of it.
- `TypeCorrect`: `Spec => []TypeOK`, one step per action.
- `DeadlineRespected`, `WaitsFitDeadline`: the two follow from `DeadlineInv`. `ReturnsByDeadline` is not
  inductive alone: that the clock stops at the deadline rests on a context that is still open before it
  and on a sleep that ends by it, and that a wait fits rests on the time lost between the check and the
  timer. `DeadlineInv` says where the clock stands relative to the deadline in each of these places.
- `WorstCaseHolds`: for every policy `New` accepts, since a delay below zero is no wait; from `CostInv`, which charges the time spent so far: each attempt that is over at most
  the timeout, each wait at most `LongestWait`, plus the lag, and says how much of the current attempt
  or wait may already have passed. It uses `DelayBound` for the chosen delay and `RoundArithmetic` for
  the step from one attempt to the next.
- `AttemptsCounted`: from `HonestInv`, which says at each `pc` which requests reached the network. An
  attempt that is over did, or else the caller's context is done and the loop is about to end.
- `KeepsContract`: every initial state maps to one of the contract (`ContractInit`) and every step to a
  step or a stutter (`ContractStep`). That a wait follows only a retryable failure with attempts left is
  decided before the wait and needed after it; `StageInv` carries it across.
- `CauseTold`: from `CauseInv`. The error of an attempt is kept through the wait and may be returned from
  there, so what it says (`Explains`) has to stay true while the clock and the caller's context go on.
- `RetriesUnlessDeadline`: `GivesUpOnlyForDeadline` is inductive as it stands: the step that returns
  establishes it from its own guard, and nothing it reads changes once the call has returned. A
  per-attempt timeout is one of the failures: its cause is DeadlineExceeded while the caller's context
  is open.
- `HintsHonoured`: from `HintInv`. The instant a server asked to be left alone until is counted from the
  reading of its response, the delay from a later instant, the timer from a later one still;
  `HintKept` and `BackoffLeast` show that choosing late never brings the next attempt nearer.

In `ClientCall_proofs`, `NextCases` groups the steps of `Next` by what they leave alone
(`ReturningStill`, `ChoosingStill`, `OutsideStill`), so that each proof has one step per group and not
one per action where an invariant cannot be disturbed.

- `DelayHolds`, `BackoffHolds`, `ServerHolds`: `DelayBound` gives the first. For the second,
  the recursive `DocumentedBackoff` is shown to be the lesser of the ceiling and the initial delay times
  2^n (`DocumentedIs`), and what jitter leaves of it to be no less than its share, rounded
  (`ShareLeft`). The third follows header by header.
- `PrecedenceHolds`, `OutweighedHolds`: from `ConfigInv`. While New runs, each setting is that of the
  last option applied so far, or else the environment's, or else the default (`SettingsInv`); lemmas
  about "the last option of a kind" say what one more option changes. Where New fails that invariant says
  nothing, so the failing steps are looked at directly: `RefusedFails` and `FinalErrorIs` show that an
  option fails exactly when it is documented to, and that the final checks, applied to those settings,
  come to `DocumentedError`.
- `CallSettingsHold`: from `CallInv`, that a call that was started keeps the settings its own options
  give, read off the configuration it was started with. `ResolveCallIs` shows that the code's fold
  comes to the last valid option of each kind.
- `HeadersHold`, `BodiesHold`: from `AttemptInv` and `WrittenInv`. A property of the requests written
  is not inductive alone, for a request may be written long after its attempt: the invariant says what
  every header map in the heap and every reader holds while some transport still has it, with and
  without the jar's cookies, and that no map of one call or attempt is that of another (`MapsDiffer`).
- `ConfigImmutableHolds`: no step after New writes the configuration or its header map.
- `SoundBodiesHold`, `LocalErrorsHold`, `BatchParseHolds`, `KeysReadHonestly`: from `Inv` of
  `Batch_proofs`. What reached the server is what its call encoded (`WireInv`), and what was encoded was sound then
  (`SentInv`), though the request has changed since; a call that was answered or refused by a server did
  reach one, which no more follows from its having made an attempt; a reply that is honest answers the questions of that
  encoding (`ReplyInv`), which is why a key that outlived its question cannot misread one.
- `ContractsKept`: for every call, each step of the batch is a step of its own contract or leaves it be,
  the steps of all other calls included.
- `SentScaleHolds`, `ContiguousHolds`: `n` distinct levels that all lie below `n` are exactly `0..n-1`,
  by counting (`AcceptedIsContiguous`). `ScoreMap` sees a level only as an `int64`; `MapIndexIs` shows that
  a level of any type is itself there or below zero, so that none passes for another.
- `NoWrapHolds`, `RoundTripHolds`, `NearestHolds`: from the lemmas about remainders by powers of two. A
  level that `byLevel` does not refuse is the index the server wrote (`FitsIsExact`), a key that echoes an
  accepted scale fits (`EchoFits`), and a rounded score is clamped to a scale that its level type can
  count (`CountFits`, `NearestIs`); with nothing to clamp to, finding 6 remains.
- `MessageHolds`: joining the complaints of a detail array one by one, as the code does, gives what
  joining all of them at once gives (`DetailsJoined`), for arrays of any length, and the path of an entry likewise; the rest is a case for each shape. `ShortHolds` needs the type of the message, and so that of every part of it.
- `SentinelsHold`: status by status, for every status there is.

Only model-checked: the liveness properties (`CallReturns`, `ContextEndsCall`) and everything else under
fairness, for temporal reasoning about ENABLED is out of the prover's reach; and the six properties that
the code violates. That every action can happen, and that no precondition of a property is empty, is
shown by TLC as well.

## Findings

1. `invalid_non2xx`: an oversized body turns any response, a retryable 503 too, into
   `ErrInvalidResponse` (`client.go:109`, `175`), though `docs/errors.md:52` says this "can only
   happen once a 2xx response has arrived".
2. `warn_without_retry`: the "jev: retrying" line precedes the decision (`client.go:143`). When the wait
   would outlive the deadline, the call returns at once with its context still open and no retry
   follows, though by `docs/configuration.md:143` "a retry is about to be scheduled". The property
   leaves out a context that ends after the line was written.
3. `attempt_after_cancel`: `retry.Sleep` may return nil although the context is done
   (`internal/retry/retry.go:87`), and the loop then starts one more attempt, counted in `Attempts`
   but refused by net/http (`docs/retries-and-timeouts.md:132`: "no further attempt is made").
4. `retry_after_boundary`: `Retry-After: 9223372036.854776` passes the overflow test and overflows
   (`internal/retry/retry.go:34`); `APIError.RetryAfter` is negative on amd64 (`errors_test.go:362`:
   "never negative"). `delay` itself is protected by its `d >= 0`.
5. `statuses_shared`: a client keeps the caller's `Statuses` slice (`options.go:165`) and so is not
   "immutable after `New`" (`docs/configuration.md:85`).
6. `nearest_negative`: with empty legend and probabilities a score beyond a signed level type can
   become a negative level (`answer.go:83`; `docs/confidence.md:113`: "never returns a negative level").

More disagreements are in the model, which follows the code, and are shown without a run of their own:

- A `BackoffMax` of `math.MaxInt64` passes `validate` and rounds to 2^63, so a backoff that reaches it
  undiminished overflows in `time.Duration` (`internal/retry/retry.go:64`, `73`), on amd64 to a negative
  delay, which is no wait, although line 62 says that "math.Pow keeps large attempts from overflowing a
  time.Duration". Theorem `LargestCeilingOverflows`; `DelayWithinPolicy` and
  `BackoffDoublesUnderCeiling` hold of the policies that are `Convertible`.
- A NaN `Jitter` is neither below 0 nor above 1 and passes `validate` (`retry.go:64`), whose error asks
  for a Jitter "in [0,1]"; every backoff is then what the platform makes of a NaN. Theorem
  `NaNJitterNeverWaits`.
- A JSON body that is no object keeps its raw text (`errors.go:170`), as `errors_test.go:77` expects.
  `docs/errors.md:121` gives raw text to a body that is "not valid JSON" and, at line 130, an empty
  message to one with none of the shapes. `MessageAsDocumented` speaks of objects and of bodies that are
  no JSON, on which the two agree.
- `docs/batching.md:182` promises `ErrAnswerKind` for an answer of another kind, while `decodeWire`
  (`answer.go:107`) unmarshals all fields before it looks at the type: an answer of an unknown kind that
  uses a field name of the SDK for a value of another type is an `ErrInvalidResponse`.

## Not modelled

- Text: header and URL parsing, JSON encoding, the wording of errors, log lines other than the Warn of
  a retry. `http.NewRequestWithContext` cannot fail on a URL `New` accepted.
- Two goroutines that use one `Request`, one of them changing it, while `Evaluate` iterates over the map:
  a data race that may end the program, which `docs/batching.md:259` leaves to the caller. In Batch an
  edit and an encoding are each one step.
- A "model" among the extra fields of a request, which replaces the model in the body just as "state"
  would the state; only the latter is refused, and only the latter is modelled.
- `ChoiceAnswer.Ranked` and `Result.Keys` (a sort of a map), `NoulAnswer.Yes` (a comparison), `RawBody`
  (a copy), the fields of a `Model`: pure reads that unit tests cover.

## Plan

Every component is modelled, and every safety property a run checks is proved. What is left:

1. What is left of the violated sentences, as theorems: `RetryAfter` is negative only for the one value
   at the boundary (finding 4); an attempt after the caller's context is done is the last, and reaches no
   network (finding 3); an `ErrInvalidResponse` without an oversized body follows a 2xx (finding 1).
2. What `ClientCall` says of a call beyond `CallContract`: that its clock and attempts only go forward,
   and that the outcome is that of its last attempt.
