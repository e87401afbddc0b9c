------------------------------ MODULE ClientCall ------------------------------
(***************************************************************************)
(* One call of Client.do (client.go): attempts, waits and the error that   *)
(* is finally returned, against the caller's context, the per-attempt      *)
(* timeout, the server and the network.                                    *)
(*                                                                         *)
(* `pc` follows the goroutine of the call.  Its steps, the caller's        *)
(* cancellation, the context timers and the network interleave freely      *)
(* within an instant; the clock moves only when no timer is due.  The code *)
(* itself takes no time, except for a budget of MaxLag instants that may   *)
(* pass while it runs (a descheduled goroutine).                           *)
(*                                                                         *)
(* X_Y is a faulty variant of X, which some property must reject.          *)
(***************************************************************************)
EXTENDS RetryDelay

CONSTANTS
    CallConfigs,   \* what resolveCall can return: [timeout, retry]
    Deadlines,     \* the deadlines the caller's context can have, Never included
    Responses,     \* the [status, hints] a server can answer with
    MaxLag,        \* bound: instants spent off the network and not asleep
    MaxNow         \* bound: the last instant of the clock

(* No deadline, no timer: an instant before the clock starts. *)
Never == -1

ASSUME CallAssumption ==
    /\ CallConfigs \subseteq [timeout : Int, retry : RetryPolicies]
    /\ Deadlines \subseteq Nat \cup {Never}
    /\ Responses \subseteq [status : Nat, hints : Hints]
    /\ MaxLag \in Nat
    /\ MaxNow \in Nat

VARIABLES
    cc,              \* callConfig: per-attempt timeout and retry policy
    deadline,        \* ctx.Deadline() of the caller's context
    now,             \* the clock
    lag,             \* instants the code itself has taken
    ctx,             \* the caller's context
    attemptCtx,      \* the context of the attempt under way
    start,           \* when the attempt under way began
    pc,              \* where the call is
    attempt,         \* the loop variable of do, from 0
    sent,            \* the attempts whose request was handed to the network
    resp,            \* the response of the latest attempt
    err,             \* the error of the latest attempt
    delay,           \* d, the wait chosen before the next attempt
    wakeAt,          \* when the timer of the wait fires
    warned,          \* Warn lines "jev: retrying"
    out              \* what the call returned

world == <<cc, deadline>>
clock == <<now, lag>>
contexts == <<ctx, attemptCtx, start>>
reports == <<sent, resp, err, warned>>
waiting == <<delay, wakeAt>>
vars == <<world, clock, contexts, pc, attempt, reports, waiting, out>>

ContextStates == {"open", "canceled", "expired"}
Causes == {"none", "network", "nettimeout", "DeadlineExceeded", "Canceled"}

NoResponse == [status |-> 0, hints |-> NoHints, at |-> 0]
NoError == [kind |-> "none", timeout |-> FALSE, cause |-> "none"]
InvalidResponse == [kind |-> "invalid", timeout |-> FALSE, cause |-> "none"]
TransportError(timeout, cause) ==
    [kind |-> "transport", timeout |-> timeout, cause |-> cause]

NotReturned == [kind |-> "none", attempts |-> 0, timeout |-> FALSE, cause |-> "none"]

TypeOK ==
    /\ cc \in CallConfigs
    /\ deadline \in Deadlines
    /\ now \in Nat /\ lag \in 0..MaxLag
    /\ ctx \in ContextStates /\ attemptCtx \in ContextStates
    /\ start \in Nat
    /\ pc \in {"send", "inflight", "failed", "answered", "wait", "arm", "sleep", "done"}
    /\ attempt \in Nat
    /\ sent \subseteq 0..attempt
    /\ resp \in [status : Nat, hints : Hints, at : Nat]
    /\ err \in [kind : {"none", "transport", "invalid"}, timeout : BOOLEAN, cause : Causes]
    /\ delay \in Int
    /\ wakeAt \in Int
    /\ warned \in Nat
    /\ out \in [kind : {"none", "response", "api", "transport", "invalid"},
                attempts : Nat, timeout : BOOLEAN, cause : Causes]

Init ==
    /\ cc \in CallConfigs
    /\ deadline \in Deadlines
    /\ now = 0 /\ lag = 0
    /\ ctx = "open" /\ attemptCtx = "open" /\ start = 0
    /\ pc = "send" /\ attempt = 0
    /\ sent = {} /\ resp = NoResponse /\ err = NoError
    /\ delay = 0 /\ wakeAt = Never
    /\ warned = 0
    /\ out = NotReturned

-----------------------------------------------------------------------------
(* Decisions of the code. *)

Success(status) == status >= 200 /\ status < 300

AttemptsLeft_OffByOne(n) == n <= cc.retry.MaxRetries

AttemptsLeft(n) == n < cc.retry.MaxRetries

RetriesError_NotTimeouts(n) == AttemptsLeft(n) /\ cc.retry.ConnectionErrors /\ ~err.timeout

RetriesError(n) == AttemptsLeft(n) /\ cc.retry.ConnectionErrors

RetriesStatus(n, status) == AttemptsLeft(n) /\ RetryableStatus(cc.retry, status)

(* errors.Is(err, target) of a context error. *)
ContextError(state) == IF state = "expired" THEN "DeadlineExceeded" ELSE "Canceled"

(* isTimeout: the attempt's context ran out of time, or the error says so. *)
IsTimeout(cause) ==
    attemptCtx = "expired" \/ cause \in {"nettimeout", "DeadlineExceeded"}

WaitOutlivesDeadline_Never(d) == FALSE

WaitOutlivesDeadline_OnTime(d) == deadline # Never /\ now + d >= deadline

WaitOutlivesDeadline(d) == deadline # Never /\ now + d > deadline

(* The attempt's context is a child of the caller's: done if that one is.   *)
Inherited_Background(state) == "open"

Inherited(state) == state

(* context.WithTimeout(ctx, cc.timeout), when cc.timeout is positive. *)
AttemptOverdue_Never == FALSE

AttemptOverdue == cc.timeout > 0 /\ now >= start + cc.timeout

(* X-TypeSafe-Retry-Count, which the first attempt leaves out. *)
RetryCount_FromOne == attempt + 1

RetryCount == attempt

(* The Attempts field of every error. *)
AttemptsMade_Retries == attempt

AttemptsMade == attempt + 1

Return(o) ==
    /\ pc' = "done"
    /\ out' = o
    /\ UNCHANGED <<world, clock, contexts, attempt, reports, waiting>>

ReturnTransport(timeout, cause) ==
    Return([kind |-> "transport", attempts |-> AttemptsMade,
            timeout |-> timeout, cause |-> cause])

ReturnAPIError ==
    Return([kind |-> "api", attempts |-> AttemptsMade, timeout |-> FALSE, cause |-> "none"])

ReturnAttemptError == ReturnTransport(err.timeout, err.cause)

(* &TransportError{Err: ctx.Err()}, built by do and by waitRetry. *)
ReturnContextError_Masked == ReturnAttemptError

ReturnContextError == ReturnTransport(ctx = "expired", ContextError(ctx))

-----------------------------------------------------------------------------
(* attempt: the request, and what becomes of it. *)

(* net/http does not so much as dial under a context that is done.          *)
Send ==
    /\ pc = "send"
    /\ pc' = "inflight"
    /\ attemptCtx' = Inherited(ctx)
    /\ start' = now
    /\ sent' = IF Inherited(ctx) = "open" THEN sent \cup {RetryCount} ELSE sent
    /\ UNCHANGED <<world, clock, ctx, attempt, resp, err, warned, waiting, out>>

(* attempt returns, and its deferred cancel releases the attempt's context. *)
AttemptEnds(next, e) ==
    /\ pc' = next
    /\ err' = e
    /\ attemptCtx' = "canceled"
    /\ UNCHANGED <<world, clock, ctx, start, attempt, sent, warned, waiting, out>>

AttemptFails(e) == AttemptEnds("failed", e)

(* Headers and the whole body were read. *)
ResponseRead(r) ==
    /\ pc = "inflight" /\ attempt \in sent
    /\ resp' = [status |-> r.status, hints |-> r.hints, at |-> now]
    /\ AttemptEnds("answered", NoError)

(* readBody found more than maxResponseBody bytes, whatever the status. *)
BodyTooLarge(r) ==
    /\ pc = "inflight" /\ attempt \in sent
    /\ resp' = [status |-> r.status, hints |-> r.hints, at |-> now]
    /\ AttemptFails(InvalidResponse)

(* The connection fails, before the headers or in the middle of the body,   *)
(* or a timeout of the transport's own fires.                               *)
NetworkFails ==
    /\ pc = "inflight" /\ attempt \in sent
    /\ \E cause \in {"network", "nettimeout"} :
           AttemptFails(TransportError(IsTimeout(cause), cause))
    /\ UNCHANGED resp

(* Do or the body read returns the error of the attempt's context. *)
AttemptContextDone ==
    /\ pc = "inflight" /\ attemptCtx # "open"
    /\ AttemptFails(TransportError(IsTimeout(ContextError(attemptCtx)),
                                   ContextError(attemptCtx)))
    /\ UNCHANGED resp

-----------------------------------------------------------------------------
(* The loop of do after an attempt. *)

ChooseDelay(hints) ==
    /\ \E rnd \in Draws : delay' = Delay(cc.retry, attempt, hints, now, rnd)
    /\ pc' = "wait"
    /\ UNCHANGED <<world, clock, contexts, attempt, sent, resp, err, wakeAt, out>>

ReturnInvalidResponse ==
    /\ pc = "failed" /\ err.kind = "invalid"
    /\ Return([kind |-> "invalid", attempts |-> 0, timeout |-> FALSE, cause |-> "none"])

FailedByContext ==
    /\ pc = "failed" /\ err.kind = "transport" /\ ctx # "open"
    /\ ReturnContextError

FailedForGood ==
    /\ pc = "failed" /\ err.kind = "transport" /\ ctx = "open"
    /\ ~RetriesError(attempt)
    /\ ReturnAttemptError

RetryAfterError ==
    /\ pc = "failed" /\ err.kind = "transport" /\ ctx = "open"
    /\ RetriesError(attempt)
    /\ ChooseDelay(NoHints)
    /\ UNCHANGED warned

ReturnResponse ==
    /\ pc = "answered" /\ Success(resp.status)
    /\ Return([kind |-> "response", attempts |-> 0, timeout |-> FALSE, cause |-> "none"])

RefusedForGood ==
    /\ pc = "answered" /\ ~Success(resp.status)
    /\ ~RetriesStatus(attempt, resp.status)
    /\ ReturnAPIError

(* The Warn line is written here, before waitRetry decides. *)
RetryAfterStatus ==
    /\ pc = "answered" /\ ~Success(resp.status)
    /\ RetriesStatus(attempt, resp.status)
    /\ ChooseDelay(resp.hints)
    /\ warned' = warned + 1

-----------------------------------------------------------------------------
(* waitRetry, wait and retry.Sleep. *)

(* wait, then again Sleep, finds the caller's context done; or the select   *)
(* of Sleep takes ctx.Done().                                               *)
WaitInterrupted ==
    /\ pc \in {"wait", "arm", "sleep"} /\ ctx # "open"
    /\ ReturnContextError

(* errWaitSkipped: the last error is returned as it is. *)
WaitSkipped ==
    /\ pc = "wait" /\ ctx = "open"
    /\ WaitOutlivesDeadline(delay)
    /\ IF err.kind = "none" THEN ReturnAPIError ELSE ReturnAttemptError

EnterSleep ==
    /\ pc = "wait" /\ ctx = "open"
    /\ ~WaitOutlivesDeadline(delay)
    /\ pc' = "arm"
    /\ UNCHANGED <<world, clock, contexts, attempt, reports, waiting, out>>

ArmTimer ==
    /\ pc = "arm" /\ ctx = "open" /\ delay > 0
    /\ pc' = "sleep"
    /\ wakeAt' = now + delay
    /\ UNCHANGED <<world, clock, contexts, attempt, reports, delay, out>>

NextAttempt ==
    /\ pc' = "send"
    /\ attempt' = attempt + 1
    /\ UNCHANGED <<world, clock, contexts, reports, waiting, out>>

NoWait ==
    /\ pc = "arm" /\ ctx = "open" /\ delay <= 0
    /\ NextAttempt

(* The select of Sleep takes the timer; when the context is done at the     *)
(* same instant it may take either.                                         *)
SleepElapsed ==
    /\ pc = "sleep" /\ now >= wakeAt
    /\ NextAttempt

-----------------------------------------------------------------------------
(* The caller, the timers and the clock. *)

(* The attempt's context is cancelled with its parent. *)
EndContext(state) ==
    /\ ctx = "open" /\ pc # "done"
    /\ ctx' = state
    /\ attemptCtx' = IF pc = "inflight" /\ attemptCtx = "open"
                     THEN Inherited(state) ELSE attemptCtx
    /\ UNCHANGED <<world, clock, start, pc, attempt, reports, waiting, out>>

CallerCancels == EndContext("canceled")

DeadlineDue == ctx = "open" /\ deadline # Never /\ now >= deadline

DeadlineFires == DeadlineDue /\ EndContext("expired")

AttemptTimeoutDue ==
    /\ pc = "inflight" /\ attemptCtx = "open"
    /\ AttemptOverdue

AttemptTimeoutFires ==
    /\ AttemptTimeoutDue
    /\ attemptCtx' = "expired"
    /\ UNCHANGED <<world, clock, ctx, start, pc, attempt, reports, waiting, out>>

(* What the goroutine has to do before time moves on. *)
WakeUpDue ==
    \/ pc = "inflight" /\ attemptCtx # "open"
    \/ pc = "sleep" /\ (ctx # "open" \/ now >= wakeAt)

Tick ==
    /\ pc \in {"inflight", "sleep"}
    /\ ~DeadlineDue /\ ~AttemptTimeoutDue /\ ~WakeUpDue
    /\ now < MaxNow
    /\ now' = now + 1
    /\ UNCHANGED <<world, lag, contexts, pc, attempt, reports, waiting, out>>

(* Time passes while the code runs. *)
Lag ==
    /\ pc \in {"send", "failed", "answered", "wait", "arm"}
    /\ ~DeadlineDue
    /\ lag < MaxLag
    /\ now' = now + 1 /\ lag' = lag + 1
    /\ UNCHANGED <<world, contexts, pc, attempt, reports, waiting, out>>

(* Nothing happens after the call has returned. *)
Returned == pc = "done" /\ UNCHANGED vars

-----------------------------------------------------------------------------
Server ==
    \/ \E r \in Responses : ResponseRead(r)
    \/ \E r \in Responses : BodyTooLarge(r)
    \/ NetworkFails

AfterAttempt ==
    \/ ReturnInvalidResponse
    \/ FailedByContext
    \/ FailedForGood
    \/ RetryAfterError
    \/ ReturnResponse
    \/ RefusedForGood
    \/ RetryAfterStatus

Waiting ==
    \/ WaitInterrupted
    \/ WaitSkipped
    \/ EnterSleep
    \/ ArmTimer
    \/ NoWait
    \/ SleepElapsed

(* The goroutine of the call, with a transport that honours its context. *)
Code == Send \/ AttemptContextDone \/ AfterAttempt \/ Waiting

Timers == DeadlineFires \/ AttemptTimeoutFires

Next == Server \/ Code \/ Timers \/ CallerCancels \/ Tick \/ Lag \/ Returned

Spec == Init /\ [][Next]_vars

(* The goroutine is scheduled, timers fire and the clock moves.  Nothing is *)
(* assumed of the server, the network or the caller.                        *)
FairSpec == Spec /\ WF_vars(Code) /\ WF_vars(Timers) /\ WF_vars(Tick)

-----------------------------------------------------------------------------
(* Properties. *)

Max0(n) == IF n < 0 THEN 0 ELSE n

(* The latest attempt, as CallContract sees it. *)
Verdict ==
    IF pc = "send"
    THEN IF attempt = 0 THEN "idle" ELSE "retryable"
    ELSE IF pc = "inflight" THEN "pending"
    ELSE IF err.kind = "none" /\ Success(resp.status) THEN "answered"
    ELSE IF \/ err.kind = "none" /\ RetriesStatus(attempt, resp.status)
            \/ err.kind = "transport" /\ RetriesError(attempt)
         THEN "retryable"
    ELSE "final"

Contract == INSTANCE CallContract WITH
    budget  <- Max0(cc.retry.MaxRetries) + 1,
    tries   <- IF pc = "send" THEN attempt ELSE attempt + 1,
    last    <- Verdict,
    outcome <- IF pc # "done" THEN "none"
               ELSE IF out.kind = "response" THEN "answer" ELSE "error"

(* A call keeps the promise of CallContract: attempts within the budget of  *)
(* the policy, one only after a failure the policy retries, none after an   *)
(* answer or a final failure, and one outcome (do, client.go:99-148).       *)
ImplementsContract == Contract!Spec

(* A call does not run past its caller's deadline by more than the code's   *)
(* own time: no attempt and no wait outlives the context                    *)
(* (client.go:154, 203-211).                                                *)
ReturnsByDeadline == deadline # Never => now <= deadline + lag

(* The wait before a retry is never one that ends after the caller's        *)
(* deadline (docs/retries-and-timeouts.md:128, client.go:207).              *)
SleepsWithinDeadline ==
    pc = "sleep" /\ deadline # Never => wakeAt <= deadline + lag

(* The worst case the documentation tells callers to budget for: every      *)
(* attempt at its timeout and every wait at the longest the policy allows   *)
(* (docs/retries-and-timeouts.md:106-124).                                  *)
WorstCaseElapsed ==
    cc.timeout > 0 /\ Valid(cc.retry) =>
        now <= lag + (cc.retry.MaxRetries + 1) * cc.timeout
                   + cc.retry.MaxRetries * LongestWait(cc.retry)

(* A failure the policy retries, with attempts left, is returned for one    *)
(* reason only: the wait would have ended after the deadline.  Such a       *)
(* failure is a status worth retrying, a failed connection, a timeout of    *)
(* the transport's, or the per-attempt timeout, which is no fault of the    *)
(* caller's context (retry.go:31, client.go:122-127, 139-146, 190-191).     *)
GivesUpOnlyForDeadline ==
    /\ pc = "done" /\ attempt < cc.retry.MaxRetries
    /\ \/ out.kind = "api" /\ RetryableStatus(cc.retry, resp.status)
       \/ /\ out.kind = "transport" /\ cc.retry.ConnectionErrors
          /\ \/ out.cause \in {"network", "nettimeout"}
             \/ out.cause = "DeadlineExceeded" /\ ctx = "open"
    => deadline # Never /\ now + delay > deadline

(* A retry is not sent before the instant the server asked to be left alone *)
(* until, when the policy honours that request (retry.go:88-95).            *)
ServerHintHonoured ==
    [][ LET asked == ParseRetryAfter(resp.hints, resp.at)
        IN  sent' # sent /\ attempt > 0 /\ err.kind = "none"
                /\ ~cc.retry.IgnoreRetryAfter
                /\ asked.ok /\ asked.d <= cc.retry.MaxRetryAfter
            => now >= resp.at + asked.d ]_vars

(* A TransportError tells why the call ended: it names the caller's context *)
(* whenever that one was done and nothing was answered, and its Timeout     *)
(* says a deadline fired, the caller's, the attempt's or the transport's    *)
(* own (client.go:112-119, 173, 193-199, 256-262).                          *)
TransportErrorTellsWhy ==
    pc = "done" /\ out.kind = "transport" =>
        /\ ctx # "open" => out.cause = ContextError(ctx)
        /\ out.cause = "Canceled" => ctx = "canceled" /\ ~out.timeout
        /\ out.cause = "DeadlineExceeded" =>
               out.timeout /\ (ctx = "expired" \/ AttemptOverdue)
        /\ out.cause = "nettimeout" => out.timeout
        /\ out.timeout => out.cause = "nettimeout" \/ ctx = "expired" \/ AttemptOverdue

(* Attempts counts the requests handed to the network, those whose          *)
(* connection could not be made included, and one more only when the        *)
(* caller's context was done before the last could be                       *)
(* (client.go:116, 138, 196).                                               *)
AttemptsHonest ==
    pc = "done" /\ out.attempts > 0 =>
        \/ sent = 0 .. (out.attempts - 1)
        \/ sent = 0 .. (out.attempts - 2) /\ ctx # "open"

(* A call with a per-attempt timeout or a deadline returns, whatever the    *)
(* server and the network do.                                               *)
CallReturns == (cc.timeout > 0 \/ deadline # Never) ~> (pc = "done")

(* Once the caller's context is done the call returns, even one that has    *)
(* neither a timeout nor a deadline.                                        *)
ContextEndsCall == (ctx # "open") ~> (pc = "done")

(* What the repository says of the program and the code does not do: see    *)
(* README.md, Findings.                                                     *)

(* "The last three are the decoding family and can only happen once a 2xx   *)
(* response has arrived" (docs/errors.md:52-53), of ErrInvalidResponse.     *)
InvalidOnlyAfterSuccess ==
    pc = "done" /\ out.kind = "invalid" => Success(resp.status)

(* "A retry is about to be scheduled after a retryable status"              *)
(* (docs/configuration.md:143), of a Warn line: unless the caller's context *)
(* ends first, an attempt follows it.                                       *)
WarnMeansRetry == pc = "done" /\ ctx = "open" => warned <= attempt

(* "When the caller's context is cancelled or expires ... no further        *)
(* attempt is made" (docs/retries-and-timeouts.md:132-134).                 *)
NoAttemptAfterContextEnds == [][ctx # "open" => attempt' = attempt]_vars
=============================================================================
