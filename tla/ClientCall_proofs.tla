-------------------------- MODULE ClientCall_proofs --------------------------
(***************************************************************************)
(* Proofs about ClientCall, for every set of configurations, deadlines and *)
(* responses and every bound.                                              *)
(***************************************************************************)
EXTENDS ClientCall, RetryDelay_proofs

(* resolveCall's result and a response, by field.                           *)
LEMMA ConfigType ==
    ASSUME cc \in CallConfigs
    PROVE  cc.timeout \in Int /\ cc.retry \in RetryPolicies /\ cc.retry.MaxRetries \in Int
BY CallAssumption DEF RetryPolicies

(* A response that was read is a record of its type.                       *)
LEMMA ResponseType ==
    ASSUME NEW r \in Responses, NEW at \in Nat
    PROVE  [status |-> r.status, hints |-> r.hints, at |-> at]
               \in [status : Nat, hints : Hints, at : Nat]
BY CallAssumption

LEMMA DeadlineType ==
    ASSUME deadline \in Deadlines
    PROVE  deadline \in Nat \/ deadline = Never
BY CallAssumption

LEMMA NoHintsType == NoHints \in Hints
BY DEF NoHints, Hints, Absent

-----------------------------------------------------------------------------
(* Type correctness. *)

LEMMA TypeInit == Init => TypeOK
BY CallAssumption, NoHintsType
   DEF Init, TypeOK, NoResponse, NoError, NotReturned, ContextStates, Causes, Never

(* The five ways to return leave a well-formed outcome.                     *)
LEMMA TypeReturn ==
    ASSUME TypeOK,
           NEW o \in [kind : {"none", "response", "api", "transport", "invalid"},
                      attempts : Nat, timeout : BOOLEAN, cause : Causes],
           Return(o)
    PROVE  TypeOK'
BY DEF TypeOK, Return, world, clock, contexts, reports, waiting

(* Each way to return, by what it returns.                                 *)
LEMMA TypeReturnTransport ==
    ASSUME TypeOK, NEW timeout \in BOOLEAN, NEW cause \in Causes,
           ReturnTransport(timeout, cause)
    PROVE  TypeOK'
BY TypeReturn DEF TypeOK, ReturnTransport, AttemptsMade

LEMMA TypeReturnContextError ==
    ASSUME TypeOK, ReturnContextError
    PROVE  TypeOK'
BY TypeReturnTransport DEF ReturnContextError, ContextError, Causes

LEMMA TypeReturnAPIError ==
    ASSUME TypeOK, ReturnAPIError
    PROVE  TypeOK'
<1> DEFINE o == [kind |-> "api", attempts |-> AttemptsMade, timeout |-> FALSE, cause |-> "none"]
<1>1. o \in [kind : {"none", "response", "api", "transport", "invalid"},
             attempts : Nat, timeout : BOOLEAN, cause : Causes]
  BY DEF TypeOK, Causes, AttemptsMade
<1>2. Return(o)
  BY DEF ReturnAPIError
<1> QED
  <2> HIDE DEF o
  <2> QED BY <1>1, <1>2, TypeReturn

LEMMA TypeReturnAttemptError ==
    ASSUME TypeOK, ReturnAttemptError
    PROVE  TypeOK'
<1>1. err.timeout \in BOOLEAN /\ err.cause \in Causes
  BY DEF TypeOK
<1> QED BY <1>1, TypeReturnTransport DEF ReturnAttemptError

(* The end of an attempt, whatever ended it.                               *)
LEMMA TypeAttemptEnds ==
    ASSUME TypeOK, NEW next \in {"failed", "answered"},
           NEW e \in [kind : {"none", "transport", "invalid"}, timeout : BOOLEAN, cause : Causes],
           AttemptEnds(next, e),
           resp' \in [status : Nat, hints : Hints, at : Nat]
    PROVE  TypeOK'
BY DEF TypeOK, AttemptEnds, world, clock, waiting, ContextStates

(* A delay is chosen after a failure and after a refusal alike.            *)
LEMMA TypeChooseDelay ==
    ASSUME TypeOK, NEW h \in Hints, ChooseDelay(h), warned' \in Nat
    PROVE  TypeOK'
<1>1. delay' \in Int
  <2>1. cc.retry \in RetryPolicies
    BY ConfigType DEF TypeOK
  <2> QED BY <2>1, DelayType DEF TypeOK, ChooseDelay
<1> QED BY <1>1 DEF TypeOK, ChooseDelay, world, clock, contexts

(* The caller's context ends, and the attempt's with it.                   *)
LEMMA TypeEndContext ==
    ASSUME TypeOK, NEW state \in ContextStates, EndContext(state)
    PROVE  TypeOK'
BY DEF TypeOK, EndContext, Inherited, world, clock, reports, waiting

(* The loop goes on with the next attempt.                                 *)
LEMMA TypeNextAttempt ==
    ASSUME TypeOK, NextAttempt
    PROVE  TypeOK'
BY DEF TypeOK, NextAttempt, world, clock, contexts, reports, waiting

LEMMA TypeNext == TypeOK /\ [Next]_vars => TypeOK'
<1> SUFFICES ASSUME TypeOK, [Next]_vars PROVE TypeOK'
  OBVIOUS
<1>1. CASE \E r \in Responses : ResponseRead(r)
  <2> PICK r \in Responses : ResponseRead(r)
    BY <1>1
  <2>1. resp' \in [status : Nat, hints : Hints, at : Nat]
    BY ResponseType DEF ResponseRead, TypeOK
  <2> QED BY <2>1, TypeAttemptEnds DEF ResponseRead, NoError, Causes
<1>2. CASE \E r \in Responses : BodyTooLarge(r)
  <2> PICK r \in Responses : BodyTooLarge(r)
    BY <1>2
  <2>1. resp' \in [status : Nat, hints : Hints, at : Nat]
    BY ResponseType DEF BodyTooLarge, TypeOK
  <2> QED BY <2>1, TypeAttemptEnds DEF BodyTooLarge, AttemptFails, InvalidResponse, Causes
<1>3. CASE NetworkFails
  <2> PICK cause \in {"network", "nettimeout"} :
             AttemptFails(TransportError(IsTimeout(cause), cause))
    BY <1>3 DEF NetworkFails
  <2>1. TransportError(IsTimeout(cause), cause)
           \in [kind : {"none", "transport", "invalid"}, timeout : BOOLEAN, cause : Causes]
    BY DEF TransportError, IsTimeout, Causes
  <2>2. resp' \in [status : Nat, hints : Hints, at : Nat]
    BY <1>3 DEF NetworkFails, TypeOK
  <2> QED BY <2>1, <2>2, TypeAttemptEnds DEF AttemptFails
<1>4. CASE AttemptContextDone
  <2> DEFINE e == TransportError(IsTimeout(ContextError(attemptCtx)), ContextError(attemptCtx))
  <2>1. e \in [kind : {"none", "transport", "invalid"}, timeout : BOOLEAN, cause : Causes]
    BY DEF TransportError, IsTimeout, ContextError, Causes
  <2>2. resp' \in [status : Nat, hints : Hints, at : Nat]
    BY <1>4 DEF AttemptContextDone, TypeOK
  <2>3. AttemptEnds("failed", e)
    BY <1>4 DEF AttemptContextDone, AttemptFails
  <2> HIDE DEF e
  <2> QED BY <2>1, <2>2, <2>3, TypeAttemptEnds
<1>5. CASE Send
  BY <1>5 DEF Send, TypeOK, Inherited, RetryCount, world, clock, waiting
<1>6. CASE ReturnInvalidResponse
  BY <1>6, TypeReturn DEF ReturnInvalidResponse, Causes
<1>7. CASE FailedByContext
  BY <1>7, TypeReturnContextError DEF FailedByContext
<1>8. CASE FailedForGood
  BY <1>8, TypeReturnAttemptError DEF FailedForGood
<1>9. CASE RetryAfterError
  <2>1. warned' \in Nat
    BY <1>9 DEF RetryAfterError, TypeOK
  <2> QED BY <1>9, <2>1, TypeChooseDelay, NoHintsType DEF RetryAfterError
<1>10. CASE ReturnResponse
  BY <1>10, TypeReturn DEF ReturnResponse, Causes
<1>11. CASE RefusedForGood
  BY <1>11, TypeReturnAPIError DEF RefusedForGood
<1>12. CASE RetryAfterStatus
  <2>1. warned' \in Nat /\ resp.hints \in Hints
    BY <1>12 DEF RetryAfterStatus, TypeOK
  <2> QED BY <1>12, <2>1, TypeChooseDelay DEF RetryAfterStatus
<1>13. CASE WaitInterrupted
  BY <1>13, TypeReturnContextError DEF WaitInterrupted
<1>14. CASE WaitSkipped
  BY <1>14, TypeReturnAPIError, TypeReturnAttemptError DEF WaitSkipped
<1>15. CASE EnterSleep
  BY <1>15 DEF EnterSleep, TypeOK, world, clock, contexts, reports, waiting
<1>16. CASE ArmTimer
  BY <1>16 DEF ArmTimer, TypeOK, world, clock, contexts, reports
<1>17. CASE NoWait
  BY <1>17, TypeNextAttempt DEF NoWait
<1>18. CASE SleepElapsed
  BY <1>18, TypeNextAttempt DEF SleepElapsed
<1>19. CASE DeadlineFires
  BY <1>19, TypeEndContext DEF DeadlineFires, ContextStates
<1>20. CASE AttemptTimeoutFires
  BY <1>20 DEF AttemptTimeoutFires, TypeOK, ContextStates, world, clock, reports, waiting
<1>21. CASE CallerCancels
  BY <1>21, TypeEndContext DEF CallerCancels, ContextStates
<1>22. CASE Tick
  BY <1>22 DEF Tick, TypeOK, world, contexts, reports, waiting
<1>23. CASE Lag
  BY <1>23, CallAssumption DEF Lag, TypeOK, world, contexts, reports, waiting
<1>24. CASE UNCHANGED vars
  BY <1>24 DEF TypeOK, vars, world, clock, contexts, reports, waiting
<1> QED BY <1>1, <1>2, <1>3, <1>4, <1>5, <1>6, <1>7, <1>8, <1>9, <1>10, <1>11, <1>12,
           <1>13, <1>14, <1>15, <1>16, <1>17, <1>18, <1>19, <1>20, <1>21, <1>22, <1>23, <1>24
        DEF Next, Server, Code, AfterAttempt, Waiting, Timers, Returned

(* Every variable of a call stays within its type.                          *)
THEOREM TypeCorrect == Spec => []TypeOK
BY TypeInit, TypeNext, PTL DEF Spec

-----------------------------------------------------------------------------
(* The caller's deadline.                                                  *)
(*                                                                         *)
(* The clock may pass the deadline only while the code runs, at the cost   *)
(* of lag: in flight or asleep, the deadline's timer stops it first, and   *)
(* once the context is done the attempt's context is too, so the transport *)
(* gives up before the next tick.  The inductive invariant adds that link  *)
(* between the two contexts, and the wait that was found to fit before the *)
(* timer is armed.                                                         *)

AttemptFollowsCaller == pc = "inflight" /\ ctx # "open" => attemptCtx # "open"

WaitFits == deadline # Never /\ pc = "arm" => now + delay <= deadline + lag

DeadlineInv ==
    /\ TypeOK
    /\ AttemptFollowsCaller
    /\ ReturnsByDeadline
    /\ WaitFits
    /\ SleepsWithinDeadline

(* A step that moves neither clock nor deadline, away from arm and sleep.   *)
LEMMA DeadlineStill ==
    ASSUME DeadlineInv, TypeOK', UNCHANGED <<deadline, clock>>,
           pc' \notin {"inflight", "arm", "sleep"}
    PROVE  DeadlineInv'
BY DEF DeadlineInv, AttemptFollowsCaller, ReturnsByDeadline, WaitFits,
       SleepsWithinDeadline, clock

(* A step that ends a context and changes nothing else that matters here.   *)
LEMMA DeadlineContext ==
    ASSUME DeadlineInv, TypeOK', UNCHANGED <<deadline, clock, pc, waiting>>,
           AttemptFollowsCaller'
    PROVE  DeadlineInv'
BY DEF DeadlineInv, ReturnsByDeadline, WaitFits, SleepsWithinDeadline, clock, waiting

LEMMA DeadlineInit == Init => DeadlineInv
<1> SUFFICES ASSUME Init PROVE DeadlineInv
  OBVIOUS
<1>1. TypeOK
  BY TypeInit
<1>2. deadline # Never => now <= deadline + lag
  BY <1>1, DeadlineType DEF Init, TypeOK
<1> QED BY <1>1, <1>2 DEF Init, DeadlineInv, AttemptFollowsCaller, ReturnsByDeadline,
           WaitFits, SleepsWithinDeadline

(* No step leaves the clock on the wrong side of the deadline.             *)
LEMMA DeadlineNext == DeadlineInv /\ [Next]_vars => DeadlineInv'
<1> SUFFICES ASSUME DeadlineInv, [Next]_vars PROVE DeadlineInv'
  OBVIOUS
<1>t. TypeOK /\ TypeOK'
  BY TypeNext DEF DeadlineInv
<1>d. deadline \in Int /\ now \in Int /\ lag \in Int /\ delay \in Int /\ wakeAt \in Int
  BY <1>t, DeadlineType DEF TypeOK, Never
<1>1. CASE Server \/ AttemptContextDone \/ AfterAttempt
  <2>1. UNCHANGED <<deadline, clock>> /\ pc' \notin {"inflight", "arm", "sleep"}
    BY <1>1 DEF Server, ResponseRead, BodyTooLarge, NetworkFails, AttemptContextDone,
         AfterAttempt, AttemptFails, AttemptEnds, ReturnInvalidResponse, FailedByContext,
         FailedForGood, RetryAfterError, ReturnResponse, RefusedForGood, RetryAfterStatus,
         ChooseDelay, ReturnContextError, ReturnAPIError, ReturnAttemptError,
         ReturnTransport, Return, world
  <2> QED BY <1>t, <2>1, DeadlineStill
<1>2. CASE WaitInterrupted \/ WaitSkipped \/ NoWait \/ SleepElapsed
  <2>1. UNCHANGED <<deadline, clock>> /\ pc' \notin {"inflight", "arm", "sleep"}
    BY <1>2 DEF WaitInterrupted, WaitSkipped, NoWait, SleepElapsed, NextAttempt,
         ReturnContextError, ReturnAPIError, ReturnAttemptError, ReturnTransport,
         Return, world
  <2> QED BY <1>t, <2>1, DeadlineStill
<1>3. CASE Send
  BY <1>3, <1>t DEF Send, Inherited, DeadlineInv, AttemptFollowsCaller, ReturnsByDeadline, WaitFits,
       SleepsWithinDeadline, world, clock
<1>4. CASE EnterSleep
  <2>1. deadline # Never => now + delay <= deadline + lag
    BY <1>4, <1>t, <1>d DEF EnterSleep, WaitOutlivesDeadline, TypeOK
  <2> QED BY <1>4, <1>t, <2>1 DEF EnterSleep, DeadlineInv, AttemptFollowsCaller,
             ReturnsByDeadline, WaitFits, SleepsWithinDeadline, world, clock, waiting
<1>5. CASE ArmTimer
  BY <1>5, <1>t, <1>d DEF ArmTimer, DeadlineInv, AttemptFollowsCaller, ReturnsByDeadline,
       WaitFits, SleepsWithinDeadline, world, clock
<1>6. CASE Timers \/ CallerCancels
  <2>1. UNCHANGED <<deadline, clock, pc, waiting>>
    BY <1>6 DEF Timers, DeadlineFires, AttemptTimeoutFires, CallerCancels, EndContext, world
  <2>2. AttemptFollowsCaller'
    BY <1>6 DEF Timers, DeadlineFires, AttemptTimeoutFires, CallerCancels, EndContext,
         Inherited, AttemptFollowsCaller, DeadlineInv
  <2> QED BY <1>t, <2>1, <2>2, DeadlineContext
<1>7. CASE Tick
  <2>1. ctx = "open"
    BY <1>7 DEF Tick, WakeUpDue, DeadlineInv, AttemptFollowsCaller
  <2>2. deadline # Never => now < deadline
    BY <1>7, <1>d, <2>1 DEF Tick, DeadlineDue
  <2>3. deadline # Never => now + 1 <= deadline + lag
    BY <1>d, <1>t, <2>2 DEF TypeOK
  <2> QED BY <1>7, <1>t, <2>3 DEF Tick, DeadlineInv, AttemptFollowsCaller,
             ReturnsByDeadline, WaitFits, SleepsWithinDeadline, world, contexts, waiting
<1>8. CASE Lag
  BY <1>8, <1>t, <1>d DEF Lag, DeadlineInv, AttemptFollowsCaller, ReturnsByDeadline,
       WaitFits, SleepsWithinDeadline, world, contexts, waiting
<1>9. CASE UNCHANGED vars
  BY <1>9, <1>t DEF vars, world, clock, contexts, waiting, DeadlineInv,
       AttemptFollowsCaller, ReturnsByDeadline, WaitFits, SleepsWithinDeadline
<1> QED BY <1>1, <1>2, <1>3, <1>4, <1>5, <1>6, <1>7, <1>8, <1>9
        DEF Next, Code, Waiting, Returned

(* No call outlives its caller's deadline by more than the time the code    *)
(* itself takes (client.go:154, 203-211).                                   *)
THEOREM DeadlineRespected == Spec => []ReturnsByDeadline
<1>1. DeadlineInv => ReturnsByDeadline
  BY DEF DeadlineInv
<1> QED BY <1>1, DeadlineInit, DeadlineNext, PTL DEF Spec

(* No wait is started that would end after the deadline (client.go:207).    *)
THEOREM WaitsFitDeadline == Spec => []SleepsWithinDeadline
<1>1. DeadlineInv => SleepsWithinDeadline
  BY DEF DeadlineInv
<1> QED BY <1>1, DeadlineInit, DeadlineNext, PTL DEF Spec

-----------------------------------------------------------------------------
(* The worst case a caller budgets for.                                    *)
(*                                                                         *)
(* Each round of the loop costs at most one timeout and one wait, and the  *)
(* last round has no wait.  Rounds is what the completed rounds may have   *)
(* cost; CostInv bounds the clock at each point of the current one.        *)

Round == cc.timeout + LongestWait(cc.retry)
Rounds == lag + attempt * Round
WorstCase == (cc.retry.MaxRetries + 1) * cc.timeout
             + cc.retry.MaxRetries * LongestWait(cc.retry)

Budgeted == cc.timeout > 0 /\ Valid(cc.retry)

CostInv ==
    /\ TypeOK
    /\ AttemptFollowsCaller
    /\ Budgeted =>
        /\ attempt <= cc.retry.MaxRetries
        /\ pc \in {"wait", "arm", "sleep"} => attempt < cc.retry.MaxRetries
        /\ pc = "send" => now <= Rounds
        /\ pc = "inflight" => start <= Rounds /\ now <= start + cc.timeout
        /\ pc \in {"failed", "answered", "wait", "arm"} => now <= Rounds + cc.timeout
        /\ pc \in {"wait", "arm"} => delay <= LongestWait(cc.retry)
        /\ pc = "sleep" => wakeAt <= Rounds + Round /\ now <= wakeAt
        /\ pc = "done" => now <= lag + WorstCase

(* What n rounds and one attempt more cost is within the documented bound. *)
LEMMA RoundArithmetic ==
    ASSUME NEW n \in Nat, NEW R \in Nat, n <= R, NEW t \in Nat, NEW w \in Nat
    PROVE  /\ (n + 1) * (t + w) = n * (t + w) + (t + w)
           /\ n * (t + w) \in Nat
           /\ (R + 1) * t + R * w \in Nat
           /\ n * (t + w) + t <= (R + 1) * t + R * w
           /\ n < R => n * (t + w) + (t + w) <= (R + 1) * t + R * w
<1>1. n * t <= R * t /\ n * w <= R * w
  BY SMT
<1>2. n < R => (n + 1) * t <= R * t /\ (n + 1) * w <= R * w
  <2>1. SUFFICES ASSUME n < R PROVE (n + 1) * t <= R * t /\ (n + 1) * w <= R * w
    OBVIOUS
  <2>2. n + 1 \in Nat /\ n + 1 <= R
    BY <2>1, SMT
  <2> QED BY <2>2, SMT
<1>3. /\ n * (t + w) = n * t + n * w
      /\ (n + 1) * t = n * t + t
      /\ (n + 1) * w = n * w + w
      /\ (R + 1) * t = R * t + t
  BY SMT
<1>4. (n + 1) * (t + w) = n * (t + w) + (t + w)
  BY SMT
<1>5. n * t \in Nat /\ n * w \in Nat /\ R * t \in Nat /\ R * w \in Nat
  BY SMT
<1> QED BY <1>1, <1>2, <1>3, <1>4, <1>5

(* The facts about one call's budget the steps below rest on.               *)
LEMMA BudgetFacts ==
    ASSUME TypeOK, Budgeted
    PROVE  /\ cc.timeout \in Nat
           /\ LongestWait(cc.retry) \in Nat
           /\ cc.retry.MaxRetries \in Nat
           /\ cc.retry \in RetryPolicies
<1>1. cc.timeout \in Int /\ cc.retry \in RetryPolicies
  BY ConfigType DEF TypeOK
<1>2. LongestWait(cc.retry) \in Nat
  BY <1>1, PolicyIs DEF Budgeted
<1>3. cc.retry.MaxRetries \in Nat
  BY <1>1 DEF RetryPolicies, Budgeted, Valid
<1> QED BY <1>1, <1>2, <1>3 DEF Budgeted

(* Returning after at most a timeout, or after a wait too when retries were *)
(* left, stays within the worst case.                                       *)
LEMMA CostReturn ==
    ASSUME CostInv, TypeOK', UNCHANGED <<cc, clock, attempt>>, pc' = "done",
           pc \in {"failed", "answered", "wait", "arm", "sleep"}
    PROVE  CostInv'
<1>1. AttemptFollowsCaller'
  BY DEF AttemptFollowsCaller
<1>2. ASSUME Budgeted
      PROVE  now <= lag + WorstCase
  <2>1. /\ now \in Nat /\ lag \in Nat /\ attempt \in Nat /\ wakeAt \in Int
        /\ attempt <= cc.retry.MaxRetries
    BY <1>2 DEF CostInv, TypeOK
  <2> DEFINE t == cc.timeout
             w == LongestWait(cc.retry)
             R == cc.retry.MaxRetries
             spent == attempt * (t + w)
             worst == (R + 1) * t + R * w
  <2>2. t \in Nat /\ w \in Nat /\ R \in Nat
    BY <1>2, BudgetFacts DEF CostInv
  <2>3. /\ spent \in Nat /\ worst \in Nat
        /\ spent + t <= worst
        /\ attempt < R => spent + (t + w) <= worst
    <3> HIDE DEF t, w, R
    <3>1. attempt <= R
      BY <2>1 DEF R
    <3> QED BY <2>1, <2>2, <3>1, RoundArithmetic
  <2>4. CASE pc \in {"failed", "answered", "wait", "arm"}
    <3>1. now <= (lag + spent) + t
      BY <1>2, <2>4 DEF CostInv, Rounds, Round
    <3>2. now <= lag + worst
      <4> HIDE DEF spent, worst, t
      <4> QED BY <2>1, <2>2, <2>3, <3>1
    <3> QED BY <3>2 DEF WorstCase
  <2>5. CASE pc = "sleep"
    <3>1. now <= wakeAt /\ wakeAt <= (lag + spent) + (t + w) /\ attempt < R
      BY <1>2, <2>5 DEF CostInv, Rounds, Round
    <3>2. now <= lag + worst
      <4> HIDE DEF spent, worst, t, w, R
      <4> QED BY <2>1, <2>2, <2>3, <3>1
    <3> QED BY <3>2 DEF WorstCase
  <2> QED BY <2>4, <2>5
<1> QED BY <1>1, <1>2 DEF CostInv, Budgeted, WorstCase, clock

LEMMA CostInit == Init => CostInv
<1> SUFFICES ASSUME Init PROVE CostInv
  OBVIOUS
<1>1. TypeOK
  BY TypeInit
<1>2. ASSUME Budgeted PROVE now <= Rounds /\ attempt <= cc.retry.MaxRetries
  <2>1. attempt = 0 /\ now = 0 /\ lag = 0
    BY DEF Init
  <2>2. Round \in Nat /\ cc.retry.MaxRetries \in Nat
    BY <1>1, <1>2, BudgetFacts DEF Round
  <2> HIDE DEF Round
  <2> QED BY <2>1, <2>2 DEF Rounds
<1> QED BY <1>1, <1>2 DEF Init, CostInv, AttemptFollowsCaller

(* An attempt starts within what the rounds before it may have cost.       *)
LEMMA CostNextAttempt ==
    ASSUME CostInv, TypeOK', NextAttempt,
           \/ pc = "arm" /\ delay <= 0
           \/ pc = "sleep"
    PROVE  CostInv'
<1>1. pc' = "send" /\ attempt' = attempt + 1 /\ UNCHANGED <<cc, now, lag>>
  BY DEF NextAttempt, world, clock
<1>2. ASSUME Budgeted PROVE now <= Rounds' /\ attempt + 1 <= cc.retry.MaxRetries
  <2>1. /\ now \in Nat /\ lag \in Nat /\ attempt \in Nat /\ wakeAt \in Int
        /\ attempt < cc.retry.MaxRetries
    BY <1>2 DEF CostInv, TypeOK
  <2> DEFINE t == cc.timeout
             w == LongestWait(cc.retry)
             spent == attempt * (t + w)
  <2>2. t \in Nat /\ w \in Nat /\ cc.retry.MaxRetries \in Nat
    BY <1>2, BudgetFacts DEF CostInv
  <2>3. spent \in Nat /\ (attempt + 1) * (t + w) = spent + (t + w)
    <3> HIDE DEF t, w
    <3> QED BY <2>1, <2>2, RoundArithmetic
  <2>4. now <= (lag + spent) + (t + w)
    <3>1. CASE pc = "arm"
      <4>1. now <= (lag + spent) + t
        BY <1>2, <3>1 DEF CostInv, Rounds, Round
      <4> HIDE DEF spent, t, w
      <4> QED BY <2>1, <2>2, <2>3, <4>1
    <3>2. CASE pc = "sleep"
      <4>1. now <= wakeAt /\ wakeAt <= (lag + spent) + (t + w)
        BY <1>2, <3>2 DEF CostInv, Rounds, Round
      <4> HIDE DEF spent, t, w
      <4> QED BY <2>1, <2>2, <2>3, <4>1
    <3> QED BY <3>1, <3>2
  <2>5. Rounds' = lag + (spent + (t + w))
    BY <1>1, <2>3 DEF Rounds, Round
  <2> HIDE DEF spent, t, w
  <2> QED BY <2>1, <2>2, <2>3, <2>4, <2>5
<1> QED BY <1>1, <1>2 DEF CostInv, Budgeted, AttemptFollowsCaller

(* A delay that was chosen is at most the longest wait.                    *)
LEMMA CostChooseDelay ==
    ASSUME CostInv, TypeOK', NEW h \in Hints, ChooseDelay(h),
           pc \in {"failed", "answered"}, AttemptsLeft(attempt)
    PROVE  CostInv'
<1>1. UNCHANGED <<cc, clock, attempt>> /\ pc' = "wait"
  BY DEF ChooseDelay, world
<1>2. ASSUME Budgeted
      PROVE  delay' <= LongestWait(cc.retry)
  <2>1. cc.retry \in RetryPolicies /\ Valid(cc.retry) /\ attempt \in Nat /\ now \in Nat
    BY <1>2, BudgetFacts DEF CostInv, TypeOK, Budgeted
  <2>3. \E rnd \in Draws : delay' = Delay(cc.retry, attempt, h, now, rnd)
    BY DEF ChooseDelay
  <2> QED BY <2>1, <2>3, DelayBound
<1> QED BY <1>1, <1>2 DEF CostInv, Budgeted, AttemptFollowsCaller, AttemptsLeft, Rounds,
           Round, clock

(* An attempt that ends has cost at most its timeout.                      *)
LEMMA CostAttemptEnds ==
    ASSUME CostInv, TypeOK', NEW next \in {"failed", "answered"}, NEW e,
           pc = "inflight", AttemptEnds(next, e)
    PROVE  CostInv'
<1>1. UNCHANGED <<cc, now, lag, attempt>> /\ pc' = next
  BY DEF AttemptEnds, world, clock
<1>2. ASSUME Budgeted PROVE now <= Rounds + cc.timeout
  <2>1. start <= Rounds /\ now <= start + cc.timeout
    BY <1>2 DEF CostInv
  <2>2. /\ start \in Nat /\ now \in Nat /\ cc.timeout \in Nat
        /\ Rounds \in Nat
    <3>1. /\ start \in Nat /\ now \in Nat /\ lag \in Nat /\ attempt \in Nat
          /\ attempt <= cc.retry.MaxRetries
      BY <1>2 DEF CostInv, TypeOK
    <3> DEFINE t == cc.timeout
               w == LongestWait(cc.retry)
    <3>2. t \in Nat /\ w \in Nat /\ cc.retry.MaxRetries \in Nat
      BY <1>2, BudgetFacts DEF CostInv
    <3>3. attempt * (t + w) \in Nat
      <4> HIDE DEF t, w
      <4> QED BY <3>1, <3>2, RoundArithmetic
    <3>4. Rounds \in Nat
      BY <3>1, <3>3 DEF Rounds, Round
    <3> QED BY <3>1, <3>2, <3>4
  <2> QED BY <2>1, <2>2
<1> QED BY <1>1, <1>2 DEF CostInv, Budgeted, AttemptFollowsCaller, Rounds, Round

(* A tick of lag moves the clock and the allowance alike.                   *)
LEMMA CostLag ==
    ASSUME CostInv, TypeOK', Lag
    PROVE  CostInv'
<1>1. /\ UNCHANGED <<cc, pc, attempt, delay, wakeAt, start>>
      /\ now' = now + 1 /\ lag' = lag + 1
      /\ pc \in {"send", "failed", "answered", "wait", "arm"}
  BY DEF Lag, world, contexts, waiting
<1>2. ASSUME Budgeted
      PROVE  /\ now \in Nat /\ cc.timeout \in Nat /\ Rounds \in Nat
             /\ Rounds' = Rounds + 1
  <2>1. now \in Nat /\ lag \in Nat /\ attempt \in Nat /\ attempt <= cc.retry.MaxRetries
    BY <1>2 DEF CostInv, TypeOK
  <2> DEFINE t == cc.timeout
             w == LongestWait(cc.retry)
             spent == attempt * (t + w)
  <2>2. t \in Nat /\ w \in Nat /\ cc.retry.MaxRetries \in Nat
    BY <1>2, BudgetFacts DEF CostInv
  <2>3. spent \in Nat
    <3> HIDE DEF t, w
    <3> QED BY <2>1, <2>2, RoundArithmetic
  <2>4. Rounds = lag + spent /\ Rounds' = (lag + 1) + spent
    BY <1>1 DEF Rounds, Round
  <2> HIDE DEF spent
  <2> QED BY <2>1, <2>2, <2>3, <2>4
<1>3. Budgeted' <=> Budgeted
  BY <1>1 DEF Budgeted
<1>4. AttemptFollowsCaller'
  BY <1>1 DEF AttemptFollowsCaller
<1>5. ASSUME Budgeted
      PROVE  /\ pc = "send" => now + 1 <= Rounds'
             /\ pc \in {"failed", "answered", "wait", "arm"} => now + 1 <= Rounds' + cc.timeout
  <2>1. /\ pc = "send" => now <= Rounds
        /\ pc \in {"failed", "answered", "wait", "arm"} => now <= Rounds + cc.timeout
    BY <1>5 DEF CostInv
  <2> QED BY <1>2, <1>5, <2>1
<1> QED BY <1>1, <1>3, <1>4, <1>5 DEF CostInv

LEMMA CostNext == CostInv /\ [Next]_vars => CostInv'
<1> SUFFICES ASSUME CostInv, [Next]_vars PROVE CostInv'
  OBVIOUS
<1>t. TypeOK /\ TypeOK'
  BY TypeNext DEF CostInv
<1>1. CASE Server \/ AttemptContextDone
  <2>1. pc = "inflight" /\ \E next \in {"failed", "answered"}, e \in
           [kind : {"none", "transport", "invalid"}, timeout : BOOLEAN, cause : Causes] :
               AttemptEnds(next, e)
    BY <1>1 DEF Server, ResponseRead, BodyTooLarge, NetworkFails, AttemptContextDone,
         AttemptFails, TransportError, IsTimeout, ContextError, InvalidResponse, NoError, Causes
  <2> QED BY <1>t, <2>1, CostAttemptEnds
<1>2. CASE \/ ReturnInvalidResponse \/ FailedByContext \/ FailedForGood
           \/ ReturnResponse \/ RefusedForGood \/ WaitInterrupted \/ WaitSkipped
  <2>1. /\ UNCHANGED <<cc, clock, attempt>> /\ pc' = "done"
        /\ pc \in {"failed", "answered", "wait", "arm", "sleep"}
    BY <1>2 DEF ReturnInvalidResponse, FailedByContext, FailedForGood, ReturnResponse,
         RefusedForGood, WaitInterrupted, WaitSkipped, ReturnContextError, ReturnAPIError,
         ReturnAttemptError, ReturnTransport, Return, world
  <2> QED BY <1>t, <2>1, CostReturn
<1>3. CASE RetryAfterError
  BY <1>3, <1>t, CostChooseDelay, NoHintsType DEF RetryAfterError, RetriesError
<1>4. CASE RetryAfterStatus
  <2>1. resp.hints \in Hints
    BY <1>t DEF TypeOK
  <2> QED BY <1>4, <1>t, <2>1, CostChooseDelay DEF RetryAfterStatus, RetriesStatus
<1>5. CASE Send
  <2>1. UNCHANGED <<cc, now, lag, attempt>> /\ pc' = "inflight" /\ start' = now
        /\ attemptCtx' = ctx /\ ctx' = ctx /\ pc = "send"
    BY <1>5 DEF Send, Inherited, world, clock
  <2>2. Budgeted => now \in Nat /\ cc.timeout \in Nat
    BY <1>t, BudgetFacts DEF TypeOK
  <2> QED BY <1>t, <2>1, <2>2 DEF CostInv, Budgeted, AttemptFollowsCaller, Rounds, Round
<1>6. CASE EnterSleep
  BY <1>6, <1>t DEF EnterSleep, CostInv, Budgeted, AttemptFollowsCaller, Rounds, Round,
       world, clock, waiting
<1>7. CASE ArmTimer
  <2>1. /\ UNCHANGED <<cc, now, lag, attempt>> /\ pc' = "sleep" /\ wakeAt' = now + delay
        /\ pc = "arm" /\ delay > 0
    BY <1>7 DEF ArmTimer, world, clock
  <2>2. ASSUME Budgeted PROVE now + delay <= Rounds + Round /\ now <= now + delay
    <3>1. now <= Rounds + cc.timeout /\ delay <= LongestWait(cc.retry)
      BY <1>7, <2>1, <2>2 DEF CostInv
    <3>2. now \in Nat /\ delay \in Int /\ lag \in Nat /\ attempt \in Nat
      BY <1>t DEF TypeOK
    <3> DEFINE t == cc.timeout
               w == LongestWait(cc.retry)
    <3>3. t \in Nat /\ w \in Nat /\ Rounds \in Int
      <4>1. t \in Nat /\ w \in Nat /\ cc.retry.MaxRetries \in Nat
            /\ attempt <= cc.retry.MaxRetries
        BY <1>t, <2>2, BudgetFacts DEF CostInv
      <4>2. attempt * (t + w) \in Nat
        <5> HIDE DEF t, w
        <5> QED BY <3>2, <4>1, RoundArithmetic
      <4> QED BY <3>2, <4>1, <4>2 DEF Rounds, Round
    <3>4. now + delay <= Rounds + (t + w)
      <4>1. now <= Rounds + t /\ delay <= w
        BY <3>1
      <4> HIDE DEF t, w
      <4> QED BY <3>2, <3>3, <4>1
    <3> QED BY <2>1, <3>2, <3>4 DEF Round
  <2> QED BY <1>t, <2>1, <2>2 DEF CostInv, Budgeted, AttemptFollowsCaller, Rounds, Round
<1>8. CASE NoWait \/ SleepElapsed
  BY <1>8, <1>t, CostNextAttempt DEF NoWait, SleepElapsed
<1>9. CASE Timers \/ CallerCancels
  <2>1. UNCHANGED <<cc, clock, pc, attempt, waiting, start>>
    BY <1>9 DEF Timers, DeadlineFires, AttemptTimeoutFires, CallerCancels, EndContext, world
  <2>2. AttemptFollowsCaller'
    BY <1>9 DEF Timers, DeadlineFires, AttemptTimeoutFires, CallerCancels, EndContext,
         Inherited, AttemptFollowsCaller, CostInv
  <2> QED BY <1>t, <2>1, <2>2 DEF CostInv, Budgeted, Rounds, Round, WorstCase, clock, waiting
<1>10. CASE Tick
  <2>1. /\ UNCHANGED <<cc, lag, pc, attempt, ctx, attemptCtx, start, delay, wakeAt>>
        /\ now' = now + 1 /\ pc \in {"inflight", "sleep"}
    BY <1>10 DEF Tick, world, contexts, waiting
  <2>2. pc = "inflight" /\ cc.timeout > 0 => now < start + cc.timeout
    <3>1. pc = "inflight" => attemptCtx = "open"
      BY <1>10 DEF Tick, WakeUpDue
    <3>2. now \in Nat /\ start \in Nat /\ cc.timeout \in Int
      BY <1>t, ConfigType DEF TypeOK
    <3> QED BY <1>10, <3>1, <3>2 DEF Tick, AttemptTimeoutDue, AttemptOverdue
  <2>3. pc = "sleep" => now < wakeAt
    BY <1>10, <1>t DEF Tick, WakeUpDue, TypeOK
  <2>4. ASSUME Budgeted
        PROVE  /\ pc = "inflight" => now + 1 <= start + cc.timeout
               /\ pc = "sleep" => now + 1 <= wakeAt
    <3>1. cc.timeout \in Nat /\ cc.timeout > 0
      BY <1>t, <2>4, BudgetFacts DEF Budgeted
    <3> QED BY <1>t, <2>2, <2>3, <3>1 DEF TypeOK
  <2> QED BY <1>t, <2>1, <2>4 DEF CostInv, Budgeted, AttemptFollowsCaller, Rounds, Round
<1>11. CASE Lag
  BY <1>11, <1>t, CostLag
<1>12. CASE UNCHANGED vars
  BY <1>12, <1>t DEF vars, world, clock, contexts, waiting, CostInv, Budgeted,
       AttemptFollowsCaller, Rounds, Round, WorstCase
<1> QED BY <1>1, <1>2, <1>3, <1>4, <1>5, <1>6, <1>7, <1>8, <1>9, <1>10, <1>11, <1>12
        DEF Next, Code, AfterAttempt, Waiting, Returned

(* CostInv at any point of a round is within the worst case.                *)
LEMMA CostBound == CostInv => WorstCaseElapsed
<1> SUFFICES ASSUME CostInv, Budgeted
             PROVE  now <= lag + (cc.retry.MaxRetries + 1) * cc.timeout
                               + cc.retry.MaxRetries * LongestWait(cc.retry)
  BY DEF WorstCaseElapsed, Budgeted
<1>1. /\ now \in Nat /\ lag \in Nat /\ attempt \in Nat /\ wakeAt \in Int /\ start \in Nat
      /\ attempt <= cc.retry.MaxRetries
  BY DEF CostInv, TypeOK
<1> DEFINE t == cc.timeout
           w == LongestWait(cc.retry)
           R == cc.retry.MaxRetries
           spent == attempt * (t + w)
           first == (R + 1) * t
           rest == R * w
<1>2. t \in Nat /\ w \in Nat /\ R \in Nat
  BY BudgetFacts DEF CostInv
<1>3. /\ spent \in Nat /\ first \in Nat /\ rest \in Nat
      /\ spent + t <= first + rest
      /\ attempt < R => spent + (t + w) <= first + rest
  <2> HIDE DEF t, w, R
  <2>1. attempt <= R
    BY <1>1 DEF R
  <2>2. first \in Nat /\ rest \in Nat
    BY <1>2, SMT
  <2> QED BY <1>1, <1>2, <2>1, <2>2, RoundArithmetic
<1>4. \/ now <= (lag + spent)
      \/ start <= (lag + spent) /\ now <= start + t
      \/ now <= (lag + spent) + t
      \/ now <= wakeAt /\ wakeAt <= (lag + spent) + (t + w) /\ attempt < R
      \/ now <= lag + (first + rest)
  BY DEF CostInv, TypeOK, Rounds, Round, WorstCase
<1>5. now <= lag + first + rest
  <2> HIDE DEF t, w, R, spent, first, rest
  <2> QED BY <1>1, <1>2, <1>3, <1>4
<1> QED BY <1>5

(* A call with a timeout and a validated policy ends within the time its    *)
(* documentation adds up: (MaxRetries + 1) timeouts and MaxRetries of the   *)
(* longest wait (docs/retries-and-timeouts.md:106-124).                     *)
THEOREM WorstCaseHolds == Spec => []WorstCaseElapsed
BY CostInit, CostNext, CostBound, PTL DEF Spec

-----------------------------------------------------------------------------
(* The outcome of a call: the count and the cause its error carries, why it *)
(* gave up, and that it keeps CallContract.                                 *)


(* The steps of the code that return, and those of the world and the clock, *)
(* which move neither the loop nor its reports.                             *)
Returning ==
    \/ ReturnInvalidResponse \/ FailedByContext \/ FailedForGood
    \/ ReturnResponse \/ RefusedForGood \/ WaitInterrupted \/ WaitSkipped

Choosing == RetryAfterError \/ RetryAfterStatus

Outside == Timers \/ CallerCancels \/ Tick \/ Lag

(* What the cases of the proofs below are.                                  *)
LEMMA NextCases ==
    ASSUME [Next]_vars
    PROVE  \/ Server \/ AttemptContextDone
           \/ Send
           \/ Returning
           \/ Choosing
           \/ EnterSleep \/ ArmTimer
           \/ NoWait \/ SleepElapsed
           \/ Outside
           \/ UNCHANGED vars
BY DEF Next, Code, AfterAttempt, Waiting, Returned, Returning, Choosing, Outside

(* A step that returns sets the outcome and nothing else.                  *)
LEMMA ReturningStill ==
    ASSUME Returning
    PROVE  /\ UNCHANGED <<cc, deadline, clock, contexts, attempt, reports, waiting>>
           /\ pc \in {"failed", "answered", "wait", "arm", "sleep"} /\ pc' = "done"
           /\ out'.attempts \in {0, attempt + 1}
           /\ out'.kind \in {"response", "invalid", "api", "transport"}
BY DEF Returning, ReturnInvalidResponse, FailedByContext, FailedForGood, ReturnResponse,
       RefusedForGood, WaitInterrupted, WaitSkipped, ReturnContextError, ReturnAPIError,
       ReturnAttemptError, ReturnTransport, Return, AttemptsMade, world

(* A step that chooses a delay leaves the attempt's report alone.          *)
LEMMA ChoosingStill ==
    ASSUME Choosing
    PROVE  /\ UNCHANGED <<cc, deadline, clock, contexts, attempt, sent, resp, err, out>>
           /\ pc \in {"failed", "answered"} /\ pc' = "wait"
           /\ pc = "failed" => ctx = "open"
BY DEF Choosing, RetryAfterError, RetryAfterStatus, ChooseDelay, world

(* The world and the clock leave the loop and its reports alone.           *)
LEMMA OutsideStill ==
    ASSUME Outside
    PROVE  /\ UNCHANGED <<cc, deadline, start, pc, attempt, reports, waiting, out>>
           /\ pc # "done"
           /\ ctx' = ctx \/ ctx = "open"
BY DEF Outside, Timers, DeadlineFires, AttemptTimeoutFires, AttemptTimeoutDue, CallerCancels,
       EndContext, Tick, Lag, world, contexts

-----------------------------------------------------------------------------
(* Attempts.                                                               *)
(*                                                                         *)
(* Every attempt that is over reached the network, for only a context that *)
(* is done keeps a request off it, and then the loop ends.                 *)

Earlier == 0 .. (attempt - 1)

HonestInv ==
    /\ TypeOK
    /\ pc = "send" => sent = Earlier
    /\ pc \in {"inflight", "failed", "done"} =>
           sent = 0 .. attempt \/ (sent = Earlier /\ ctx # "open")
    /\ pc \in {"answered", "wait", "arm", "sleep"} => sent = 0 .. attempt
    /\ pc = "done" => out.attempts \in {0, attempt + 1}

LEMMA HonestInit == Init => HonestInv
BY TypeInit DEF Init, HonestInv, Earlier

(* No step loses count of the requests that reached the network.           *)
LEMMA HonestNext == HonestInv /\ [Next]_vars => HonestInv'
<1> SUFFICES ASSUME HonestInv, [Next]_vars PROVE HonestInv'
  OBVIOUS
<1>t. TypeOK /\ TypeOK' /\ attempt \in Nat
  BY TypeNext DEF HonestInv, TypeOK
<1>1. CASE Server \/ AttemptContextDone
  <2>1. /\ pc = "inflight" /\ UNCHANGED <<ctx, attempt, sent>>
        /\ pc' = "failed" \/ (pc' = "answered" /\ attempt \in sent)
    BY <1>1 DEF Server, ResponseRead, BodyTooLarge, NetworkFails, AttemptContextDone,
         AttemptFails, AttemptEnds
  <2>2. attempt \notin Earlier
    BY <1>t DEF Earlier
  <2> QED BY <1>t, <2>1, <2>2 DEF HonestInv, Earlier
<1>2. CASE Send
  <2>1. /\ pc = "send" /\ pc' = "inflight" /\ UNCHANGED <<ctx, attempt>>
        /\ sent' = IF ctx = "open" THEN sent \cup {attempt} ELSE sent
    BY <1>2 DEF Send, Inherited, RetryCount
  <2>2. Earlier \cup {attempt} = 0 .. attempt
    BY <1>t DEF Earlier
  <2> QED BY <1>t, <2>1, <2>2 DEF HonestInv, Earlier
<1>3. CASE Returning
  <2>1. /\ UNCHANGED <<ctx, attempt, sent>> /\ pc' = "done"
        /\ pc \in {"failed", "answered", "wait", "arm", "sleep"}
        /\ out'.attempts \in {0, attempt + 1}
    BY <1>3, ReturningStill DEF contexts, reports
  <2> QED BY <1>t, <2>1 DEF HonestInv, Earlier
<1>4. CASE Choosing
  BY <1>4, <1>t, ChoosingStill DEF HonestInv, Earlier, contexts
<1>5. CASE EnterSleep \/ ArmTimer
  BY <1>5, <1>t DEF EnterSleep, ArmTimer, HonestInv, Earlier, contexts, reports
<1>6. CASE NoWait \/ SleepElapsed
  <2>1. pc \in {"arm", "sleep"} /\ pc' = "send" /\ attempt' = attempt + 1 /\ sent' = sent
    BY <1>6 DEF NoWait, SleepElapsed, NextAttempt, reports
  <2>2. Earlier' = 0 .. attempt
    BY <1>t, <2>1 DEF Earlier
  <2> QED BY <1>t, <2>1, <2>2 DEF HonestInv
<1>7. CASE Outside
  BY <1>7, <1>t, OutsideStill DEF HonestInv, Earlier, reports
<1>8. CASE UNCHANGED vars
  BY <1>8, <1>t DEF vars, contexts, reports, HonestInv, Earlier
<1> QED BY <1>1, <1>2, <1>3, <1>4, <1>5, <1>6, <1>7, <1>8, NextCases

(* The Attempts of an error counts the requests put on the network, and one *)
(* more only when the caller's context was done before the last could be    *)
(* (client.go:116, 138, 196).                                               *)
THEOREM AttemptsCounted == Spec => []AttemptsHonest
<1>1. HonestInv => AttemptsHonest
  <2> SUFFICES ASSUME HonestInv, pc = "done", out.attempts > 0
               PROVE  \/ sent = 0 .. (out.attempts - 1)
                      \/ sent = 0 .. (out.attempts - 2) /\ ctx # "open"
    BY DEF AttemptsHonest
  <2>1. attempt \in Nat /\ out.attempts = attempt + 1
    BY DEF HonestInv, TypeOK
  <2>2. out.attempts - 1 = attempt /\ out.attempts - 2 = attempt - 1
    BY <2>1
  <2> QED BY <2>2 DEF HonestInv, Earlier
<1> QED BY <1>1, HonestInit, HonestNext, PTL DEF Spec

-----------------------------------------------------------------------------
(* The contract.                                                           *)
(*                                                                         *)
(* The state tells the verdict on the latest attempt from what it left in  *)
(* err and resp.  That a wait follows only a failure the policy retries,   *)
(* with attempts left, is decided before the wait and needed after it.     *)

StageInv ==
    /\ TypeOK
    /\ attempt <= Max0(cc.retry.MaxRetries)
    /\ pc = "answered" => err.kind = "none"
    /\ pc = "failed" => err.kind # "none"
    /\ pc \in {"wait", "arm", "sleep"} =>
           AttemptsLeft(attempt) /\ Verdict = "retryable"

(* The budget of attempts, whatever MaxRetries is.                         *)
LEMMA BudgetType ==
    ASSUME TypeOK
    PROVE  /\ attempt \in Nat /\ cc.retry.MaxRetries \in Int
           /\ Max0(cc.retry.MaxRetries) \in Nat
           /\ AttemptsLeft(attempt) => attempt + 1 <= Max0(cc.retry.MaxRetries)
<1>1. attempt \in Nat /\ cc.retry.MaxRetries \in Int
  BY ConfigType DEF TypeOK
<1> QED BY <1>1 DEF Max0, AttemptsLeft

LEMMA StageInit == Init => StageInv
<1> SUFFICES ASSUME Init PROVE StageInv
  OBVIOUS
<1>1. TypeOK
  BY TypeInit
<1>2. attempt = 0 /\ Max0(cc.retry.MaxRetries) \in Nat
  BY <1>1, BudgetType DEF Init
<1> QED BY <1>1, <1>2 DEF Init, StageInv

LEMMA StageNext == StageInv /\ [Next]_vars => StageInv'
<1> SUFFICES ASSUME StageInv, [Next]_vars PROVE StageInv'
  OBVIOUS
<1>t. TypeOK /\ TypeOK'
  BY TypeNext DEF StageInv
<1>1. CASE Server \/ AttemptContextDone
  <2>1. /\ UNCHANGED <<cc, attempt>>
        /\ \/ pc' = "failed" /\ err'.kind # "none"
           \/ pc' = "answered" /\ err'.kind = "none"
    BY <1>1 DEF Server, ResponseRead, BodyTooLarge, NetworkFails, AttemptContextDone,
         AttemptFails, AttemptEnds, NoError, InvalidResponse, TransportError, world
  <2> QED BY <1>t, <2>1 DEF StageInv
<1>2. CASE Send
  BY <1>2, <1>t DEF Send, StageInv, world
<1>3. CASE Returning
  <2>1. UNCHANGED <<cc, attempt>> /\ pc' = "done"
    BY <1>3, ReturningStill
  <2> QED BY <1>t, <2>1 DEF StageInv
<1>4. CASE Choosing
  <2>1. UNCHANGED <<cc, attempt, resp, err>> /\ pc' = "wait"
    BY <1>4, ChoosingStill
  <2>2. \/ err.kind = "transport" /\ RetriesError(attempt)
        \/ /\ err.kind = "none" /\ ~Success(resp.status)
           /\ RetriesStatus(attempt, resp.status)
    BY <1>4 DEF Choosing, RetryAfterError, RetryAfterStatus, StageInv
  <2>3. AttemptsLeft(attempt)
    BY <2>2 DEF RetriesError, RetriesStatus
  <2>4. Verdict' = "retryable" /\ AttemptsLeft(attempt)'
    BY <2>1, <2>2, <2>3 DEF Verdict, RetriesError, RetriesStatus, AttemptsLeft
  <2> QED BY <1>t, <2>1, <2>4 DEF StageInv
<1>5. CASE EnterSleep \/ ArmTimer
  <2>1. /\ UNCHANGED <<cc, attempt, resp, err>>
        /\ pc \in {"wait", "arm", "sleep"} /\ pc' \in {"wait", "arm", "sleep"}
    BY <1>5 DEF EnterSleep, ArmTimer, world, reports
  <2>2. Verdict' = Verdict /\ AttemptsLeft(attempt)' = AttemptsLeft(attempt)
    BY <2>1 DEF Verdict, RetriesError, RetriesStatus, AttemptsLeft
  <2> QED BY <1>t, <2>1, <2>2 DEF StageInv
<1>6. CASE NoWait \/ SleepElapsed
  <2>1. /\ pc \in {"arm", "sleep"} /\ pc' = "send"
        /\ attempt' = attempt + 1 /\ cc' = cc
    BY <1>6 DEF NoWait, SleepElapsed, NextAttempt, world
  <2>2. attempt + 1 <= Max0(cc.retry.MaxRetries)
    BY <1>t, <2>1, BudgetType DEF StageInv
  <2> QED BY <1>t, <2>1, <2>2 DEF StageInv
<1>7. CASE Outside \/ UNCHANGED vars
  <2>1. UNCHANGED <<cc, pc, attempt, resp, err>>
    BY <1>7, OutsideStill DEF reports, vars, world
  <2>2. Verdict' = Verdict /\ AttemptsLeft(attempt)' = AttemptsLeft(attempt)
    BY <2>1 DEF Verdict, RetriesError, RetriesStatus, AttemptsLeft
  <2> QED BY <1>t, <2>1, <2>2 DEF StageInv
<1> QED BY <1>1, <1>2, <1>3, <1>4, <1>5, <1>6, <1>7, NextCases

(* What the mapping of Contract reads.                                      *)
MappedTries == IF pc = "send" THEN attempt ELSE attempt + 1
MappedOutcome ==
    IF pc # "done" THEN "none"
    ELSE IF out.kind = "response" THEN "answer" ELSE "error"

LEMMA ContractInit == Init => Contract!Init
<1> SUFFICES ASSUME Init PROVE Contract!Init
  OBVIOUS
<1>1. TypeOK
  BY TypeInit
<1>2. Max0(cc.retry.MaxRetries) + 1 \in Nat \ {0}
  BY <1>1, BudgetType
<1> QED BY <1>2 DEF Init, Contract!Init, Verdict

(* A step that leaves what the mapping reads alone. *)
LEMMA ContractStutters ==
    ASSUME UNCHANGED <<cc, MappedTries, Verdict, MappedOutcome>>
    PROVE  UNCHANGED Contract!vars
BY DEF Contract!vars, MappedTries, MappedOutcome

(* A step of the loop is a step of the contract, or none of it.            *)
LEMMA ContractStep ==
    ASSUME StageInv, StageInv', [Next]_vars
    PROVE  [Contract!Next]_(Contract!vars)
<1>1. CASE Server \/ AttemptContextDone
  <2>1. /\ UNCHANGED <<cc, attempt>> /\ pc = "inflight" /\ pc' \in {"failed", "answered"}
    BY <1>1 DEF Server, ResponseRead, BodyTooLarge, NetworkFails, AttemptContextDone,
         AttemptFails, AttemptEnds, world
  <2>2. Verdict = "pending" /\ Verdict' \in {"answered", "retryable", "final"}
    BY <2>1 DEF Verdict
  <2> QED BY <2>1, <2>2 DEF Contract!Next, Contract!Resolve, Contract!Verdicts
<1>2. CASE Send
  <2>1. UNCHANGED <<cc, attempt>> /\ pc = "send" /\ pc' = "inflight"
    BY <1>2 DEF Send, world
  <2>2. Verdict \in {"idle", "retryable"} /\ Verdict' = "pending"
    BY <2>1 DEF Verdict
  <2>3. attempt < Max0(cc.retry.MaxRetries) + 1
    BY BudgetType DEF StageInv
  <2> QED BY <2>1, <2>2, <2>3 DEF Contract!Next, Contract!Try
<1>3. CASE Returning
  <2>1. /\ UNCHANGED <<cc, attempt, resp, err>> /\ pc' = "done"
        /\ pc \in {"failed", "answered", "wait", "arm", "sleep"}
    BY <1>3, ReturningStill DEF reports
  <2>2. Verdict' = Verdict
    BY <2>1 DEF Verdict, RetriesError, RetriesStatus, AttemptsLeft
  <2>3. Verdict \in {"answered", "retryable", "final"}
    BY <2>1 DEF Verdict
  <2>4. out'.kind = "response" <=> Verdict = "answered"
    <3>1. CASE ReturnResponse
      BY <3>1 DEF ReturnResponse, Return, StageInv, Verdict
    <3>2. CASE RefusedForGood
      <4>1. out'.kind = "api" /\ pc = "answered" /\ ~Success(resp.status)
        BY <3>2 DEF RefusedForGood, ReturnAPIError, Return
      <4> QED BY <4>1 DEF Verdict
    <3>3. CASE ReturnInvalidResponse \/ FailedByContext \/ FailedForGood
      <4>1. out'.kind \in {"invalid", "transport"} /\ pc = "failed"
        BY <3>3 DEF ReturnInvalidResponse, FailedByContext, FailedForGood,
             ReturnContextError, ReturnAttemptError, ReturnTransport, Return
      <4> QED BY <4>1 DEF StageInv, Verdict
    <3>4. CASE WaitInterrupted \/ WaitSkipped
      <4>1. out'.kind \in {"api", "transport"} /\ pc \in {"wait", "arm", "sleep"}
        BY <3>4 DEF WaitInterrupted, WaitSkipped, ReturnContextError, ReturnAttemptError,
             ReturnAPIError, ReturnTransport, Return
      <4> QED BY <4>1 DEF StageInv
    <3> QED BY <1>3, <3>1, <3>2, <3>3, <3>4 DEF Returning
  <2> QED BY <2>1, <2>2, <2>3, <2>4 DEF Contract!Next, Contract!Return, Contract!Verdicts
<1>4. CASE Choosing
  <2>1. /\ UNCHANGED <<cc, attempt, resp, err>>
        /\ pc \in {"failed", "answered"} /\ pc' = "wait"
    BY <1>4, ChoosingStill
  <2>2. Verdict' = Verdict
    BY <2>1 DEF Verdict, RetriesError, RetriesStatus, AttemptsLeft
  <2> QED BY <2>1, <2>2, ContractStutters DEF MappedTries, MappedOutcome
<1>5. CASE EnterSleep \/ ArmTimer
  <2>1. /\ UNCHANGED <<cc, attempt, resp, err>>
        /\ pc \in {"wait", "arm", "sleep"} /\ pc' \in {"wait", "arm", "sleep"}
    BY <1>5 DEF EnterSleep, ArmTimer, world, reports
  <2>2. Verdict' = Verdict
    BY <2>1 DEF Verdict, RetriesError, RetriesStatus, AttemptsLeft
  <2> QED BY <2>1, <2>2, ContractStutters DEF MappedTries, MappedOutcome
<1>6. CASE NoWait \/ SleepElapsed
  <2>1. /\ pc \in {"arm", "sleep"} /\ pc' = "send"
        /\ attempt' = attempt + 1 /\ cc' = cc /\ attempt \in Nat
    BY <1>6 DEF NoWait, SleepElapsed, NextAttempt, world, StageInv, TypeOK
  <2>2. Verdict = "retryable" /\ Verdict' = "retryable"
    BY <2>1 DEF StageInv, Verdict
  <2> QED BY <2>1, <2>2, ContractStutters DEF MappedTries, MappedOutcome
<1>7. CASE Outside \/ UNCHANGED vars
  <2>1. UNCHANGED <<cc, pc, attempt, resp, err, out>>
    BY <1>7, OutsideStill DEF reports, vars, world
  <2>2. Verdict' = Verdict
    BY <2>1 DEF Verdict, RetriesError, RetriesStatus, AttemptsLeft
  <2> QED BY <2>1, <2>2, ContractStutters DEF MappedTries, MappedOutcome
<1> QED BY <1>1, <1>2, <1>3, <1>4, <1>5, <1>6, <1>7, NextCases

(* A call implements CallContract: attempts within the budget of its        *)
(* policy, one only after a failure the policy retries, none after an       *)
(* answer or a final failure, and one outcome (client.go:99-148).           *)
THEOREM KeepsContract == Spec => ImplementsContract
<1>1. Spec => []StageInv
  BY StageInit, StageNext, PTL DEF Spec
<1>2. Contract!Spec <=> Contract!Init /\ [][Contract!Next]_(Contract!vars)
  BY DEF Contract!Spec
<1> QED BY <1>1, <1>2, ContractInit, ContractStep, PTL DEF Spec, ImplementsContract

-----------------------------------------------------------------------------
(* The cause of a TransportError.                                          *)
(*                                                                         *)
(* The error of an attempt is kept through the wait and may be returned    *)
(* from there: what it says must stay true while the caller's context and  *)
(* the clock go on.  Before that, the context of the attempt is done only  *)
(* because its parent is, or because its timeout passed.                   *)

Explains(timeout, cause) ==
    /\ cause = "Canceled" => ctx = "canceled" /\ ~timeout
    /\ cause = "DeadlineExceeded" => timeout /\ (ctx = "expired" \/ AttemptOverdue)
    /\ cause = "nettimeout" => timeout
    /\ timeout => cause = "nettimeout" \/ ctx = "expired" \/ AttemptOverdue

AttemptContextExplained ==
    pc = "inflight" =>
        /\ attemptCtx = "canceled" => ctx = "canceled"
        /\ attemptCtx = "expired" => ctx = "expired" \/ AttemptOverdue

CauseInv ==
    /\ StageInv
    /\ AttemptContextExplained
    /\ pc \in {"failed", "wait", "arm", "sleep"} /\ err.kind = "transport" =>
           Explains(err.timeout, err.cause)
    /\ pc = "done" /\ out.kind = "transport" =>
           /\ ctx # "open" => out.cause = ContextError(ctx)
           /\ Explains(out.timeout, out.cause)

LEMMA CauseInit == Init => CauseInv
BY StageInit DEF Init, CauseInv, AttemptContextExplained

(* Explanations survive a step that leaves the attempt alone and ends at    *)
(* most a context that was open.                                            *)
LEMMA ExplainsStill ==
    ASSUME TypeOK, TypeOK', UNCHANGED <<cc, start>>, ctx' = ctx \/ ctx = "open", now <= now',
           NEW timeout \in BOOLEAN, NEW cause \in Causes, Explains(timeout, cause)
    PROVE  /\ AttemptOverdue => AttemptOverdue'
           /\ Explains(timeout, cause)'
<1>1. AttemptOverdue => AttemptOverdue'
  <2>1. cc.timeout \in Int /\ now \in Nat /\ now' \in Nat /\ start \in Nat
    BY ConfigType DEF TypeOK
  <2> QED BY <2>1 DEF AttemptOverdue
<1> QED BY <1>1 DEF Explains

(* What the network or a timeout of its own ended is told as that.         *)
LEMMA AttemptErrorExplained ==
    ASSUME CauseInv, pc = "inflight", NEW cause \in {"network", "nettimeout"}
    PROVE  Explains(IsTimeout(cause), cause)
BY DEF CauseInv, StageInv, AttemptContextExplained, TypeOK, Explains, IsTimeout

(* What a context ended is told with the cause of that context.            *)
LEMMA ContextErrorExplained ==
    ASSUME CauseInv, pc = "inflight", attemptCtx # "open"
    PROVE  Explains(IsTimeout(ContextError(attemptCtx)), ContextError(attemptCtx))
BY DEF CauseInv, StageInv, AttemptContextExplained, TypeOK, ContextStates, Explains,
       IsTimeout, ContextError

(* An error that is explained when the attempt ends is explained after it. *)
LEMMA CauseAttemptEnds ==
    ASSUME CauseInv, StageInv', NEW next \in {"failed", "answered"}, NEW e,
           pc = "inflight", AttemptEnds(next, e),
           e.kind = "transport" => Explains(e.timeout, e.cause)
    PROVE  CauseInv'
<1>1. UNCHANGED <<cc, now, ctx, start>> /\ pc' = next /\ err' = e
  BY DEF AttemptEnds, world, clock
<1>2. AttemptContextExplained' /\ pc' # "done"
  BY <1>1 DEF AttemptContextExplained
<1>3. e.kind = "transport" => Explains(err.timeout, err.cause)'
  BY <1>1 DEF Explains, AttemptOverdue
<1> QED BY <1>1, <1>2, <1>3 DEF CauseInv

(* What the call returns is its context's own error, or the attempt's while *)
(* the context is open.                                                     *)
LEMMA CauseReturning ==
    ASSUME CauseInv, StageInv', Returning
    PROVE  CauseInv'
<1>1. UNCHANGED <<cc, now, ctx, start>> /\ pc' = "done"
  BY ReturningStill DEF clock, contexts
<1>2. ASSUME NEW timeout, NEW cause, Explains(timeout, cause),
             out'.timeout = timeout, out'.cause = cause
      PROVE  Explains(out.timeout, out.cause)'
  BY <1>1, <1>2 DEF Explains, AttemptOverdue
<1>3. CASE ReturnContextError /\ ctx # "open"
  <2>1. out'.timeout = (ctx = "expired") /\ out'.cause = ContextError(ctx)
    BY <1>3 DEF ReturnContextError, ReturnTransport, Return
  <2>2. Explains(ctx = "expired", ContextError(ctx))
    BY <1>3 DEF Explains, ContextError, CauseInv, StageInv, TypeOK, ContextStates
  <2>3. Explains(out.timeout, out.cause)'
    BY <1>2, <2>1, <2>2
  <2>4. out'.cause = ContextError(ctx')
    BY <1>1, <2>1
  <2> QED BY <1>1, <2>3, <2>4 DEF CauseInv, AttemptContextExplained, ContextError
<1>4. CASE /\ ReturnAttemptError /\ ctx = "open" /\ err.kind = "transport"
           /\ pc \in {"failed", "wait"}
  <2>1. out'.timeout = err.timeout /\ out'.cause = err.cause
    BY <1>4 DEF ReturnAttemptError, ReturnTransport, Return
  <2>2. Explains(err.timeout, err.cause)
    BY <1>4 DEF CauseInv
  <2>3. Explains(out.timeout, out.cause)'
    BY <1>2, <2>1, <2>2
  <2> QED BY <1>1, <1>4, <2>3 DEF CauseInv, AttemptContextExplained
<1>5. CASE out'.kind # "transport"
  BY <1>1, <1>5 DEF CauseInv, AttemptContextExplained
<1>6. \/ ReturnContextError /\ ctx # "open"
      \/ /\ ReturnAttemptError /\ ctx = "open" /\ err.kind = "transport"
         /\ pc \in {"failed", "wait"}
      \/ out'.kind # "transport"
  <2>1. CASE WaitSkipped
    <3>1. err.kind \in {"none", "transport"}
      BY <2>1 DEF WaitSkipped, CauseInv, StageInv, Verdict
    <3> QED BY <2>1, <3>1 DEF WaitSkipped, ReturnAPIError, Return
  <2>2. CASE WaitInterrupted \/ FailedByContext \/ FailedForGood
    BY <2>2 DEF WaitInterrupted, FailedByContext, FailedForGood
  <2>3. CASE ReturnInvalidResponse \/ ReturnResponse \/ RefusedForGood
    BY <2>3 DEF ReturnInvalidResponse, ReturnResponse, RefusedForGood, ReturnAPIError, Return
  <2> QED BY <2>1, <2>2, <2>3 DEF Returning
<1> QED BY <1>3, <1>4, <1>5, <1>6

(* What the world does never falsifies an explanation.                     *)
LEMMA CauseOutside ==
    ASSUME CauseInv, StageInv', Outside
    PROVE  CauseInv'
<1>1. /\ UNCHANGED <<cc, start, pc, err>> /\ pc # "done"
      /\ ctx' = ctx \/ ctx = "open"
  BY OutsideStill DEF reports
<1>2. now <= now'
  <2>1. now' = now \/ now' = now + 1
    BY DEF Outside, Timers, DeadlineFires, AttemptTimeoutFires, CallerCancels, EndContext,
         Tick, Lag, clock
  <2> QED BY <2>1 DEF CauseInv, StageInv, TypeOK
<1>3. AttemptOverdue => AttemptOverdue'
  <2>1. Explains(FALSE, "none")
    BY DEF Explains
  <2> QED BY <1>1, <1>2, <2>1, ExplainsStill DEF CauseInv, StageInv, Causes
<1>4. err.kind = "transport" /\ pc \in {"failed", "wait", "arm", "sleep"}
         => Explains(err.timeout, err.cause)'
  <2>1. err.timeout \in BOOLEAN /\ err.cause \in Causes
    BY DEF CauseInv, StageInv, TypeOK
  <2> SUFFICES ASSUME Explains(err.timeout, err.cause)
               PROVE  Explains(err.timeout, err.cause)'
    BY DEF CauseInv
  <2> QED BY <1>1, <1>3 DEF Explains
<1>5. AttemptContextExplained'
  <2> SUFFICES ASSUME pc = "inflight" PROVE AttemptContextExplained'
    BY <1>1 DEF AttemptContextExplained
  <2>1. CASE Tick \/ Lag
    BY <2>1, <1>3 DEF Tick, Lag, contexts, CauseInv, AttemptContextExplained
  <2>2. CASE CallerCancels \/ DeadlineFires
    BY <2>2, <1>3 DEF CallerCancels, DeadlineFires, EndContext, Inherited, CauseInv,
         AttemptContextExplained
  <2>3. CASE AttemptTimeoutFires
    BY <2>3, <1>3 DEF AttemptTimeoutFires, AttemptTimeoutDue, AttemptContextExplained
  <2> QED BY <2>1, <2>2, <2>3 DEF Outside, Timers
<1> QED BY <1>1, <1>4, <1>5 DEF CauseInv

LEMMA CauseNext == CauseInv /\ [Next]_vars => CauseInv'
<1> SUFFICES ASSUME CauseInv, [Next]_vars PROVE CauseInv'
  OBVIOUS
<1>t. StageInv /\ StageInv' /\ TypeOK /\ TypeOK'
  BY StageNext DEF CauseInv, StageInv
<1>1. CASE Server
  <2>1. CASE NetworkFails
    <3> PICK cause \in {"network", "nettimeout"} :
               AttemptFails(TransportError(IsTimeout(cause), cause))
      BY <2>1 DEF NetworkFails
    <3> DEFINE e == TransportError(IsTimeout(cause), cause)
    <3>1. Explains(e.timeout, e.cause)
      BY <2>1, AttemptErrorExplained DEF NetworkFails, TransportError
    <3>2. AttemptEnds("failed", e) /\ pc = "inflight"
      BY <2>1 DEF NetworkFails, AttemptFails
    <3> HIDE DEF e
    <3> QED BY <1>t, <3>1, <3>2, CauseAttemptEnds
  <2>2. CASE \E r \in Responses : ResponseRead(r) \/ BodyTooLarge(r)
    <3>1. /\ pc = "inflight"
          /\ AttemptEnds("answered", NoError) \/ AttemptEnds("failed", InvalidResponse)
      BY <2>2 DEF ResponseRead, BodyTooLarge, AttemptFails
    <3>2. NoError.kind # "transport" /\ InvalidResponse.kind # "transport"
      BY DEF NoError, InvalidResponse
    <3> QED BY <1>t, <3>1, <3>2, CauseAttemptEnds
  <2> QED BY <1>1, <2>1, <2>2 DEF Server
<1>2. CASE AttemptContextDone
  <2> DEFINE e == TransportError(IsTimeout(ContextError(attemptCtx)), ContextError(attemptCtx))
  <2>1. Explains(e.timeout, e.cause)
    BY <1>2, ContextErrorExplained DEF AttemptContextDone, TransportError
  <2>2. AttemptEnds("failed", e) /\ pc = "inflight"
    BY <1>2 DEF AttemptContextDone, AttemptFails
  <2> HIDE DEF e
  <2> QED BY <1>t, <2>1, <2>2, CauseAttemptEnds
<1>3. CASE Send
  BY <1>3, <1>t DEF Send, Inherited, CauseInv, AttemptContextExplained
<1>4. CASE Returning
  BY <1>4, <1>t, CauseReturning
<1>5. CASE Choosing
  <2>1. /\ UNCHANGED <<cc, now, ctx, start, err>>
        /\ pc \in {"failed", "answered"} /\ pc' = "wait"
    BY <1>5, ChoosingStill DEF clock, contexts
  <2>2. pc = "answered" => err.kind = "none"
    BY <1>t DEF StageInv
  <2> QED BY <1>t, <2>1, <2>2 DEF CauseInv, AttemptContextExplained, Explains, AttemptOverdue
<1>6. CASE EnterSleep \/ ArmTimer
  <2>1. /\ UNCHANGED <<cc, now, ctx, start, err>>
        /\ pc \in {"wait", "arm", "sleep"} /\ pc' \in {"wait", "arm", "sleep"}
    BY <1>6 DEF EnterSleep, ArmTimer, world, clock, contexts, reports
  <2> QED BY <1>t, <2>1 DEF CauseInv, AttemptContextExplained, Explains, AttemptOverdue
<1>7. CASE NoWait \/ SleepElapsed
  BY <1>7, <1>t DEF NoWait, SleepElapsed, NextAttempt, CauseInv, AttemptContextExplained
<1>8. CASE Outside
  BY <1>8, <1>t, CauseOutside
<1>9. CASE UNCHANGED vars
  BY <1>9, <1>t DEF vars, world, clock, contexts, reports, CauseInv, AttemptContextExplained,
       Explains, AttemptOverdue, ContextError
<1> QED BY <1>1, <1>2, <1>3, <1>4, <1>5, <1>6, <1>7, <1>8, <1>9, NextCases

(* The cause and the Timeout of a TransportError are those of what really   *)
(* ended the call (client.go:112-119, 173, 193-199, 256-262).               *)
THEOREM CauseTold == Spec => []TransportErrorTellsWhy
<1>1. CauseInv => TransportErrorTellsWhy
  BY DEF CauseInv, TransportErrorTellsWhy, Explains
<1> QED BY <1>1, CauseInit, CauseNext, PTL DEF Spec

-----------------------------------------------------------------------------
(* Giving up.                                                              *)

LEMMA GivesUpNext == GivesUpOnlyForDeadline /\ [Next]_vars => GivesUpOnlyForDeadline'
<1> SUFFICES ASSUME GivesUpOnlyForDeadline, [Next]_vars PROVE GivesUpOnlyForDeadline'
  OBVIOUS
<1>1. CASE Returning
  <2>1. UNCHANGED <<cc, deadline, now, attempt, resp, delay>>
    BY <1>1, ReturningStill DEF clock, reports, waiting
  <2>2. CASE WaitSkipped
    <3>1. deadline # Never /\ now + delay > deadline
      BY <2>2 DEF WaitSkipped, WaitOutlivesDeadline
    <3> QED BY <2>1, <3>1 DEF GivesUpOnlyForDeadline
  <2>3. CASE FailedByContext \/ WaitInterrupted
    <3>1. out'.kind = "transport" /\ out'.cause \in {"DeadlineExceeded", "Canceled"}
          /\ ctx' # "open"
      BY <2>3 DEF FailedByContext, WaitInterrupted, ReturnContextError, ReturnTransport,
           Return, ContextError, contexts
    <3> QED BY <3>1 DEF GivesUpOnlyForDeadline
  <2>4. CASE FailedForGood
    <3>1. out'.kind = "transport" /\ ~RetriesError(attempt)
      BY <2>4 DEF FailedForGood, ReturnAttemptError, ReturnTransport, Return
    <3> QED BY <2>1, <3>1 DEF GivesUpOnlyForDeadline, RetriesError, AttemptsLeft
  <2>5. CASE RefusedForGood
    <3>1. out'.kind = "api" /\ ~RetriesStatus(attempt, resp.status)
      BY <2>5 DEF RefusedForGood, ReturnAPIError, Return
    <3> QED BY <2>1, <3>1 DEF GivesUpOnlyForDeadline, RetriesStatus, AttemptsLeft
  <2>6. CASE ReturnInvalidResponse \/ ReturnResponse
    BY <2>6 DEF ReturnInvalidResponse, ReturnResponse, Return, GivesUpOnlyForDeadline
  <2> QED BY <1>1, <2>2, <2>3, <2>4, <2>5, <2>6 DEF Returning
<1>2. CASE pc' # "done"
  BY <1>2 DEF GivesUpOnlyForDeadline
<1>3. CASE UNCHANGED vars
  BY <1>3 DEF vars, world, clock, contexts, reports, waiting, GivesUpOnlyForDeadline
<1>4. Returning \/ pc' # "done" \/ UNCHANGED vars
  BY NextCases, ChoosingStill, OutsideStill
     DEF Server, ResponseRead, BodyTooLarge, NetworkFails, AttemptContextDone, AttemptFails,
         AttemptEnds, Send, EnterSleep, ArmTimer, NoWait, SleepElapsed, NextAttempt
<1> QED BY <1>1, <1>2, <1>3, <1>4

(* A failure the policy retries, the per-attempt timeout included, is       *)
(* returned with attempts left only when the wait would have outlived the   *)
(* deadline (retry.go:31, client.go:122-127, 139-146).                      *)
THEOREM RetriesUnlessDeadline == Spec => []GivesUpOnlyForDeadline
<1>1. Init => GivesUpOnlyForDeadline
  BY DEF Init, GivesUpOnlyForDeadline
<1> QED BY <1>1, GivesUpNext, PTL DEF Spec

-----------------------------------------------------------------------------
(* The server's hint.                                                      *)
(*                                                                         *)
(* The instant a server asked to be left alone until is counted from when  *)
(* its response was read.  The delay is chosen later and the timer armed   *)
(* later still; each only moves the next attempt further away (HintKept).  *)

Asked == ParseRetryAfter(resp.hints, resp.at)
Until == resp.at + Asked.d

Binding ==
    /\ err.kind = "none"
    /\ ~cc.retry.IgnoreRetryAfter
    /\ Asked.ok /\ Asked.d <= cc.retry.MaxRetryAfter

HintInv ==
    /\ StageInv
    /\ resp.at <= now
    /\ Binding =>
        /\ pc \in {"wait", "arm"} => now + delay >= Until
        /\ pc = "sleep" => wakeAt >= Until
        /\ pc = "send" /\ attempt > 0 => now >= Until

(* The instant a server asked to be left alone until is a number.          *)
LEMMA UntilType ==
    ASSUME TypeOK
    PROVE  Until \in Int /\ resp.hints \in Hints /\ resp.at \in Nat
<1>1. resp.hints \in Hints /\ resp.at \in Nat
  BY DEF TypeOK
<1>2. Asked.d \in Int
  BY <1>1, ParsedType DEF Asked
<1> HIDE DEF Asked
<1> QED BY <1>1, <1>2 DEF Until

(* What is due only after goal at t is so at any later u.                   *)
LEMMA Later ==
    ASSUME NEW t \in Int, NEW u \in Int, NEW d \in Int, NEW goal \in Int,
           t + d >= goal, u >= t
    PROVE  u + d >= goal
OBVIOUS

LEMMA HintInit == Init => HintInv
BY StageInit DEF Init, HintInv, NoResponse

(* A step after which the next attempt is neither chosen nor awaited, or    *)
(* one that changes nothing but the clock.                                  *)
LEMMA HintStill ==
    ASSUME HintInv, StageInv',
           now' = now \/ now' = now + 1,
           \/ pc' \in {"inflight", "failed", "answered", "done"} /\ (resp' = resp \/ resp'.at = now)
           \/ UNCHANGED <<cc, pc, attempt, resp, err, waiting>>
    PROVE  HintInv'
<1>t. /\ Until \in Int /\ resp.at \in Nat /\ now \in Nat /\ delay \in Int /\ now' \in Nat
  BY UntilType DEF HintInv, StageInv, TypeOK
<1>1. resp'.at <= now'
  BY <1>t DEF HintInv
<1>2. CASE pc' \in {"inflight", "failed", "answered", "done"}
  BY <1>1, <1>2 DEF HintInv
<1>3. CASE UNCHANGED <<cc, pc, attempt, resp, err, waiting>>
  <2>1. Until' = Until /\ Binding' = Binding
    BY <1>3 DEF Until, Binding, Asked
  <2> HIDE DEF Until, Binding
  <2>2. pc' = pc /\ attempt' = attempt /\ delay' = delay /\ wakeAt' = wakeAt
    BY <1>3 DEF waiting
  <2>3. ASSUME Binding
        PROVE  /\ pc \in {"wait", "arm"} => now' + delay >= Until
               /\ pc = "sleep" => wakeAt >= Until
               /\ pc = "send" /\ attempt > 0 => now' >= Until
    <3>1. /\ pc \in {"wait", "arm"} => now + delay >= Until
          /\ pc = "sleep" => wakeAt >= Until
          /\ pc = "send" /\ attempt > 0 => now >= Until
      BY <2>3 DEF HintInv
    <3>2. now' >= now
      BY <1>t
    <3>3. now \in Int /\ now' \in Int /\ delay \in Int /\ Until \in Int
      BY <1>t
    <3>4. now + delay >= Until => now' + delay >= Until
      <4> HIDE DEF HintInv
      <4>1. SUFFICES ASSUME now + delay >= Until PROVE now' + delay >= Until
        OBVIOUS
      <4> QED BY <3>2, <3>3, <4>1, Later
    <3>5. now >= Until => now' >= Until
      BY <1>t, <3>2
    <3> QED BY <3>1, <3>4, <3>5
  <2> QED BY <1>1, <2>1, <2>2, <2>3 DEF HintInv
<1> QED BY <1>2, <1>3

LEMMA HintNext == HintInv /\ [Next]_vars => HintInv'
<1> SUFFICES ASSUME HintInv, [Next]_vars PROVE HintInv'
  OBVIOUS
<1>t. StageInv /\ StageInv' /\ TypeOK
  BY StageNext DEF HintInv, StageInv
<1>u. /\ Until \in Int /\ now \in Nat /\ delay \in Int /\ wakeAt \in Int /\ attempt \in Nat
      /\ resp.hints \in Hints /\ resp.at \in Nat
  BY <1>t, UntilType DEF TypeOK
<1>1. CASE Server \/ AttemptContextDone
  <2>1. /\ now' = now /\ pc' \in {"failed", "answered"}
        /\ resp' = resp \/ resp'.at = now
    BY <1>1 DEF Server, ResponseRead, BodyTooLarge, NetworkFails, AttemptContextDone,
         AttemptFails, AttemptEnds, clock
  <2> QED BY <1>t, <2>1, HintStill
<1>2. CASE Send
  <2>1. now' = now /\ pc' = "inflight" /\ resp' = resp
    BY <1>2 DEF Send, clock
  <2> QED BY <1>t, <2>1, HintStill
<1>3. CASE Returning
  <2>1. now' = now /\ pc' = "done" /\ resp' = resp
    BY <1>3, ReturningStill DEF clock, reports
  <2> QED BY <1>t, <2>1, HintStill
<1>4. CASE Choosing
  <2>1. UNCHANGED <<cc, now, attempt, resp, err>> /\ pc' = "wait"
    BY <1>4, ChoosingStill DEF clock
  <2>2. Until' = Until /\ Binding' = Binding
    BY <2>1 DEF Until, Binding, Asked
  <2>3. ASSUME Binding PROVE now + delay' >= Until
    <3>1. ChooseDelay(resp.hints)
      BY <1>4, <2>3 DEF Choosing, RetryAfterError, RetryAfterStatus, Binding
    <3>2. PICK rnd \in Draws : delay' = Delay(cc.retry, attempt, resp.hints, now, rnd)
      BY <3>1 DEF ChooseDelay
    <3>3. cc.retry \in RetryPolicies
      BY <1>t, ConfigType DEF TypeOK
    <3>4. now + Delay(cc.retry, attempt, resp.hints, now, rnd)
             >= resp.at + ParseRetryAfter(resp.hints, resp.at).d
      BY <1>u, <2>3, <3>3, HintKept DEF HintInv, Binding, Asked
    <3> QED BY <3>2, <3>4 DEF Until, Asked
  <2> HIDE DEF Until, Binding
  <2> QED BY <1>t, <2>1, <2>2, <2>3 DEF HintInv
<1>5. CASE EnterSleep \/ ArmTimer
  <2>1. /\ UNCHANGED <<cc, now, attempt, resp, err, delay>>
        /\ \/ pc = "wait" /\ pc' = "arm"
           \/ pc = "arm" /\ pc' = "sleep" /\ wakeAt' = now + delay
    BY <1>5 DEF EnterSleep, ArmTimer, world, clock, reports, waiting
  <2>2. Until' = Until /\ Binding' = Binding
    BY <2>1 DEF Until, Binding, Asked
  <2> HIDE DEF Until, Binding
  <2> QED BY <1>t, <2>1, <2>2 DEF HintInv
<1>6. CASE NoWait \/ SleepElapsed
  <2>1. /\ UNCHANGED <<cc, now, resp, err>> /\ pc' = "send"
        /\ \/ pc = "arm" /\ delay <= 0
           \/ pc = "sleep" /\ now >= wakeAt
    BY <1>6 DEF NoWait, SleepElapsed, NextAttempt, world, clock, reports
  <2>2. Until' = Until /\ Binding' = Binding
    BY <2>1 DEF Until, Binding, Asked
  <2>3. Binding => now >= Until
    <3> HIDE DEF Until, Binding
    <3> QED BY <1>u, <2>1 DEF HintInv
  <2> HIDE DEF Until, Binding
  <2> QED BY <1>t, <2>1, <2>2, <2>3 DEF HintInv
<1>7. CASE Outside \/ UNCHANGED vars
  <2>1. UNCHANGED <<cc, pc, attempt, resp, err, waiting>>
    BY <1>7, OutsideStill DEF reports, vars, world
  <2>2. now' = now \/ now' = now + 1
    BY <1>7 DEF Outside, Timers, DeadlineFires, AttemptTimeoutFires, CallerCancels, EndContext,
         Tick, Lag, clock, vars
  <2> QED BY <1>t, <2>1, <2>2, HintStill
<1> QED BY <1>1, <1>2, <1>3, <1>4, <1>5, <1>6, <1>7, NextCases

(* Only Send changes what is on the network.                                *)
LEMMA OnlySendSends ==
    ASSUME [Next]_vars, sent' # sent
    PROVE  pc = "send"
BY NextCases, ReturningStill, ChoosingStill, OutsideStill
   DEF Server, ResponseRead, BodyTooLarge, NetworkFails, AttemptContextDone, AttemptFails,
       AttemptEnds, Send, EnterSleep, ArmTimer, NoWait, SleepElapsed, NextAttempt, reports, vars

(* A retry is not sent before the instant a server asked for, when the      *)
(* policy honours it (retry.go:88-95).                                      *)
THEOREM HintsHonoured == Spec => ServerHintHonoured
<1>1. HintInv /\ [Next]_vars =>
        [ LET asked == ParseRetryAfter(resp.hints, resp.at)
          IN  sent' # sent /\ attempt > 0 /\ err.kind = "none"
                  /\ ~cc.retry.IgnoreRetryAfter
                  /\ asked.ok /\ asked.d <= cc.retry.MaxRetryAfter
              => now >= resp.at + asked.d ]_vars
  BY OnlySendSends DEF HintInv, Binding, Until, Asked
<1> QED BY <1>1, HintInit, HintNext, PTL DEF Spec, ServerHintHonoured
=============================================================================
