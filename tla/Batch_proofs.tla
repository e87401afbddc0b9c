------------------------------ MODULE Batch_proofs ------------------------------
(***************************************************************************)
(* Batch, for any questions, names, replies, calls and bounds: what        *)
(* reaches the network, what becomes of the answers, and that the calls    *)
(* keep CallContract.                                                      *)
(***************************************************************************)
EXTENDS Batch, TLAPS

-----------------------------------------------------------------------------
(* The inductive invariant.                                                *)

Fields == {"at", "kind", "asked", "n", "last", "reply", "answers", "err"}

(* Every call is a record of Idle's fields. *)
Shape ==
    /\ DOMAIN call = Calls
    /\ \A c \in Calls : DOMAIN call[c] = Fields

Sound(body) ==
    /\ body.state = "text"
    /\ body.questions # NoQuestions
    /\ \A name \in DOMAIN body.questions :
         LET q == body.questions[name]
         IN  /\ name # "" /\ q.named /\ q.kind \in Kinds \cup {"raw"}
             /\ q.kind \in Kinds => /\ q.instructions \in {"nil", "text"}
                                    /\ q.entries \subseteq {"text", "nil", "null"}
             /\ q.kind = "choice" => q.size \in 1..MaxOptions
             /\ q.kind = "score" => q.size \in MinLevels..MaxLevels

(* Where a call is, what its latest attempt came to, and its error. *)
PlaceInv(c) ==
    /\ call[c].at \in {"idle", "calling", "returned"}
    /\ call[c].kind \in {"evaluate", "models"}
    /\ call[c].n \in 0..MaxAttempts
    /\ call[c].last \in {"idle", "pending", "retryable", "final", "answered"}
    /\ call[c].last = "idle" <=> call[c].n = 0
    /\ call[c].at = "idle" => call[c].n = 0 /\ call[c].kind = "evaluate"
    /\ call[c].at # "returned" => call[c].err = "none"
    /\ call[c].last = "pending" => call[c].at = "calling"
    /\ call[c].at = "returned" => (call[c].err = "ErrInvalidRequest" <=> call[c].n = 0)

(* What brings an answer has reached the server, with the body the call      *)
(* began with; a call without an attempt has sent nothing.                   *)
Reached(c) == \E w \in wire : w.call = c

SentInv(c) ==
    /\ call[c].n = 0 => ~Reached(c)
    /\ call[c].last = "answered" => Reached(c)
    /\ call[c].at = "returned" /\ call[c].err \notin {"ErrInvalidRequest", "TransportError"} =>
         Reached(c)
    /\ call[c].kind = "evaluate" /\ (call[c].at = "calling" \/ call[c].n # 0) => Sound(call[c].asked)

WireInv == \A w \in wire : w.call \in Calls /\ w.body = call[w.call].asked

(* An honest reply answers questions of the request that was sent; one with  *)
(* an unusable answer is no result.                                          *)
ReplyInv(c) ==
    /\ Unusable(call[c].reply) =>
         /\ call[c].last = "answered"
         /\ call[c].at = "returned" => call[c].err = "ErrInvalidResponse"
    /\ call[c].reply.honest =>
         /\ call[c].last = "answered"
         /\ call[c].reply.form = IF call[c].kind = "models" THEN "models" ELSE "answers"
         /\ call[c].kind = "models" => DOMAIN call[c].reply.answers = {}
         /\ \A name \in DOMAIN call[c].reply.answers :
              /\ name \in DOMAIN call[c].asked.questions
              /\ \E raw \in RawAnswers :
                   call[c].reply.answers[name] = AnswerTo(call[c].asked.questions[name], raw)
         /\ call[c].at = "returned" => call[c].err = "none"
    /\ call[c].at = "returned" /\ call[c].err = "none" =>
         call[c].last = "answered" /\ call[c].answers = call[c].reply.answers

KeysInv == \A k \in keys : k.kind \in Kinds \cup {"zero"}

Inv ==
    /\ Shape
    /\ KeysInv
    /\ WireInv
    /\ \A c \in Calls : PlaceInv(c) /\ SentInv(c) /\ ReplyInv(c)

-----------------------------------------------------------------------------
(* What the actions rest on.                                               *)

(* marshalRequest lets nothing unsound through, and Extra nothing over it. *)
LEMMA AcceptedIsSound ==
    ASSUME NEW r, RequestAccepted(r)
    PROVE  Sound(Encoded(r))
<1>1. "state" \notin r.extra /\ "questions" \notin r.extra
  BY DEF RequestAccepted, Reserved
<1>2. Encoded(r) = [state |-> r.state, questions |-> r.questions]
  BY <1>1 DEF Encoded
<1>3. r.state = "text"
  BY DEF RequestAccepted, EntryAccepted
<1>4. r.questions # NoQuestions
  BY DEF RequestAccepted, NoQuestions
<1>5. ASSUME NEW name \in DOMAIN r.questions
      PROVE  /\ name # "" /\ r.questions[name].named
             /\ r.questions[name].kind \in Kinds \cup {"raw"}
             /\ r.questions[name].kind \in Kinds =>
                  /\ r.questions[name].instructions \in {"nil", "text"}
                  /\ r.questions[name].entries \subseteq {"text", "nil", "null"}
             /\ r.questions[name].kind = "choice" => r.questions[name].size \in 1..MaxOptions
             /\ r.questions[name].kind = "score" => r.questions[name].size \in MinLevels..MaxLevels
  <2>1. name # "" /\ QuestionAccepted(r.questions[name])
    BY DEF RequestAccepted
  <2> QED BY <2>1 DEF QuestionAccepted, InstructionsAccepted, EntryAccepted, Kinds
<1>6. Encoded(r).state = "text" /\ Encoded(r).questions = r.questions
  BY <1>2, <1>3
<1> QED BY <1>4, <1>5, <1>6 DEF Sound

(* A step of call c leaves the others alone, keeps its body once it has     *)
(* sent one, and puts none but that body on the wire.                       *)
LEMMA OneCallSteps ==
    ASSUME Inv, NEW c \in Calls, Shape', UNCHANGED keys,
           \A d \in Calls \ {c} : call'[d] = call[d],
           call'[c].asked = call[c].asked \/ call[c].n = 0,
           wire' = wire \/ \E m : wire' = wire \cup {[call |-> c, n |-> m, body |-> call'[c].asked]},
           PlaceInv(c)', SentInv(c)', ReplyInv(c)'
    PROVE  Inv'
<1>1. KeysInv'
  BY DEF Inv, KeysInv
<1>2. WireInv'
  <2>1. \A w \in wire : w.call \in Calls /\ w.body = call'[w.call].asked
    BY DEF Inv, WireInv, SentInv, Reached
  <2> QED BY <2>1 DEF WireInv
<1>3. ASSUME NEW d \in Calls \ {c} PROVE (PlaceInv(d) /\ SentInv(d) /\ ReplyInv(d))'
  <2>1. call'[d] = call[d]
    OBVIOUS
  <2>2. Reached(d)' = Reached(d)
    BY DEF Reached
  <2>3. PlaceInv(d) /\ SentInv(d) /\ ReplyInv(d)
    BY DEF Inv
  <2>4. PlaceInv(d)'
    BY <2>1, <2>3 DEF PlaceInv
  <2>5. SentInv(d)'
    BY <2>1, <2>2, <2>3 DEF SentInv
  <2>6. ReplyInv(d)'
    BY <2>1, <2>3 DEF ReplyInv
  <2> QED BY <2>4, <2>5, <2>6
<1> QED BY <1>1, <1>2, <1>3 DEF Inv

LEMMA InvInit == Init => Inv
<1> SUFFICES ASSUME Init PROVE Inv
  OBVIOUS
<1>1. wire = {} /\ keys = {ZeroKey} /\ DOMAIN call = Calls /\ \A c \in Calls : call[c] = Idle
  BY DEF Init
<1>2. Shape
  BY <1>1 DEF Shape, Idle, Fields
<1>3. KeysInv
  <2>1. ZeroKey.kind = "zero"
    BY DEF ZeroKey
  <2>2. \A k \in keys : k = ZeroKey
    BY <1>1
  <2> QED BY <2>1, <2>2 DEF KeysInv
<1>5. WireInv
  BY <1>1 DEF WireInv
<1>4. ASSUME NEW c \in Calls PROVE PlaceInv(c) /\ SentInv(c) /\ ReplyInv(c)
  <2>1. call[c] = Idle
    BY <1>1
  <2>2. PlaceInv(c)
    BY <2>1, BatchAssumption DEF PlaceInv, Idle
  <2>3. SentInv(c)
    BY <1>1, <2>1 DEF SentInv, Reached, Idle
  <2>4. ReplyInv(c)
    <3>1. /\ ~call[c].reply.honest /\ DOMAIN call[c].reply.answers = {}
          /\ call[c].at = "idle"
      BY <2>1 DEF Idle, NoReply, NoAnswers, Reply
    <3> QED BY <3>1 DEF ReplyInv, Unusable
  <2> QED BY <2>2, <2>3, <2>4
<1> QED BY <1>2, <1>3, <1>4, <1>5 DEF Inv

(* The caller's own steps touch no call. *)
LEMMA CallerKeepsInv ==
    ASSUME Inv, NEW name, NEW q, Ask(name, q) \/ Assign(name, q) \/ Remove(name)
    PROVE  Inv'
<1>1. UNCHANGED <<call, wire>>
  BY DEF Ask, Assign, Remove, Edit
<1>2. KeysInv'
  BY DEF Inv, KeysInv, Ask, Assign, Remove
<1>3. Shape'
  BY <1>1 DEF Inv, Shape
<1>4. WireInv'
  BY <1>1 DEF Inv, WireInv
<1>5. ASSUME NEW c \in Calls PROVE (PlaceInv(c) /\ SentInv(c) /\ ReplyInv(c))'
  BY <1>1 DEF Inv, PlaceInv, SentInv, Reached, ReplyInv
<1> QED BY <1>2, <1>3, <1>4, <1>5 DEF Inv

(* A call refused before its first attempt ends where it began.            *)
LEMMA RefusedKeepsInv ==
    ASSUME Inv, NEW c \in Calls, call[c].at = "idle", Returns(c, "ErrInvalidRequest"),
           UNCHANGED <<keys, wire>>
    PROVE  Inv'
<1>0. /\ DOMAIN call = Calls /\ \A d \in Calls : DOMAIN call[d] = Fields
      /\ PlaceInv(c) /\ SentInv(c) /\ ReplyInv(c)
  BY DEF Inv, Shape
<1>1. call' = [call EXCEPT ![c].at = "returned", ![c].err = "ErrInvalidRequest"]
  BY DEF Returns
<1>2. /\ Shape' /\ \A d \in Calls \ {c} : call'[d] = call[d]
      /\ call'[c] = [call[c] EXCEPT !.at = "returned", !.err = "ErrInvalidRequest"]
  BY <1>0, <1>1 DEF Shape, Fields
<1>3. /\ call'[c].at = "returned" /\ call'[c].err = "ErrInvalidRequest"
      /\ call'[c].kind = call[c].kind /\ call'[c].n = call[c].n /\ call'[c].last = call[c].last
      /\ call'[c].reply = call[c].reply /\ call'[c].asked = call[c].asked
  BY <1>0, <1>2 DEF Fields
<1>4. call[c].n = 0 /\ call[c].last = "idle"
  BY <1>0 DEF PlaceInv
<1>5. PlaceInv(c)'
  BY <1>0, <1>3, <1>4 DEF PlaceInv
<1>6. SentInv(c)'
  BY <1>0, <1>3, <1>4 DEF SentInv, Reached
<1>7. ReplyInv(c)'
  BY <1>0, <1>3, <1>4 DEF ReplyInv
<1> QED BY <1>2, <1>3, <1>5, <1>6, <1>7, OneCallSteps

(* A request is encoded, or refused before anything is sent.               *)
LEMMA EvaluateKeepsInv ==
    ASSUME Inv, NEW c \in Calls, Evaluate(c)
    PROVE  Inv'
<1>0. /\ DOMAIN call = Calls /\ \A d \in Calls : DOMAIN call[d] = Fields
      /\ PlaceInv(c) /\ SentInv(c) /\ ReplyInv(c)
      /\ UNCHANGED <<keys, wire>>
  BY DEF Inv, Shape, Evaluate
<1>1. CASE RequestAccepted(req)
  <2>1. call' = [call EXCEPT ![c].at = "calling", ![c].asked = Encoded(req)]
    BY <1>1 DEF Evaluate
  <2>2. /\ Shape' /\ \A d \in Calls \ {c} : call'[d] = call[d]
        /\ call'[c] = [call[c] EXCEPT !.at = "calling", !.asked = Encoded(req)]
    BY <1>0, <2>1 DEF Shape, Fields
  <2>3. /\ call'[c].at = "calling" /\ call'[c].asked = Encoded(req)
        /\ call'[c].kind = call[c].kind /\ call'[c].n = call[c].n /\ call'[c].last = call[c].last
        /\ call'[c].reply = call[c].reply /\ call'[c].answers = call[c].answers
        /\ call'[c].err = call[c].err
    BY <1>0, <2>2 DEF Fields
  <2>4. Sound(call'[c].asked)
    BY <1>1, <2>3, AcceptedIsSound
  <2>5. call[c].at = "idle" /\ call[c].n = 0 /\ call[c].last = "idle"
    BY <1>0 DEF Evaluate, PlaceInv
  <2>6. PlaceInv(c)'
    BY <1>0, <2>3, <2>5 DEF PlaceInv
  <2>7. SentInv(c)'
    BY <1>0, <2>3, <2>4, <2>5 DEF SentInv, Reached, PlaceInv
  <2>8. ReplyInv(c)'
    BY <1>0, <2>3, <2>5 DEF ReplyInv
  <2> QED BY <1>0, <2>2, <2>5, <2>6, <2>7, <2>8, OneCallSteps
<1>2. CASE ~RequestAccepted(req)
  <2>1. call[c].at = "idle" /\ Returns(c, "ErrInvalidRequest")
    BY <1>2 DEF Evaluate
  <2> QED BY <1>0, <2>1, RefusedKeepsInv
<1> QED BY <1>1, <1>2

(* Without a request there is nothing to send.                             *)
LEMMA EvaluateNilKeepsInv ==
    ASSUME Inv, NEW c \in Calls, EvaluateNil(c)
    PROVE  Inv'
<1>0. /\ DOMAIN call = Calls /\ \A d \in Calls : DOMAIN call[d] = Fields
      /\ PlaceInv(c) /\ SentInv(c) /\ ReplyInv(c)
      /\ UNCHANGED <<keys, wire>>
  BY DEF Inv, Shape, EvaluateNil
<1>1. call[c].at = "idle" /\ Returns(c, "ErrInvalidRequest")
  BY DEF EvaluateNil
<1> QED BY <1>0, <1>1, RefusedKeepsInv

(* A call without a body starts.                                           *)
LEMMA ListModelsKeepsInv ==
    ASSUME Inv, NEW c \in Calls, ListModels(c)
    PROVE  Inv'
<1>0. /\ DOMAIN call = Calls /\ \A d \in Calls : DOMAIN call[d] = Fields
      /\ PlaceInv(c) /\ SentInv(c) /\ ReplyInv(c)
      /\ UNCHANGED <<keys, wire>>
  BY DEF Inv, Shape, ListModels
<1>1. call' = [call EXCEPT ![c].at = "calling", ![c].kind = "models"]
  BY DEF ListModels
<1>2. /\ Shape' /\ \A d \in Calls \ {c} : call'[d] = call[d]
      /\ call'[c] = [call[c] EXCEPT !.at = "calling", !.kind = "models"]
  BY <1>0, <1>1 DEF Shape, Fields
<1>3. /\ call'[c].at = "calling" /\ call'[c].kind = "models" /\ call'[c].n = call[c].n
      /\ call'[c].last = call[c].last /\ call'[c].asked = call[c].asked
      /\ call'[c].reply = call[c].reply /\ call'[c].err = call[c].err
  BY <1>0, <1>2 DEF Fields
<1>4. call[c].at = "idle" /\ call[c].n = 0 /\ call[c].last = "idle"
  BY <1>0 DEF ListModels, PlaceInv
<1>5. PlaceInv(c)'
  BY <1>0, <1>3, <1>4 DEF PlaceInv
<1>6. SentInv(c)'
  BY <1>0, <1>3, <1>4 DEF SentInv, Reached, PlaceInv
<1>7. ReplyInv(c)'
  BY <1>0, <1>3, <1>4 DEF ReplyInv
<1> QED BY <1>0, <1>2, <1>3, <1>5, <1>6, <1>7, OneCallSteps

(* An attempt sends the body the call began with.                          *)
LEMMA SendAttemptKeepsInv ==
    ASSUME Inv, NEW c \in Calls, SendAttempt(c)
    PROVE  Inv'
<1>0. /\ DOMAIN call = Calls /\ \A d \in Calls : DOMAIN call[d] = Fields
      /\ PlaceInv(c) /\ SentInv(c) /\ ReplyInv(c)
      /\ UNCHANGED keys
  BY DEF Inv, Shape, SendAttempt
<1>1. /\ call' = [call EXCEPT ![c].n = call[c].n + 1, ![c].last = "pending"]
      /\ \/ wire' = wire \cup {[call |-> c, n |-> call[c].n, body |-> call[c].asked]}
         \/ wire' = wire
      /\ call[c].at = "calling" /\ call[c].n < MaxAttempts
      /\ call[c].last \in {"idle", "retryable"}
  BY DEF SendAttempt, Sends, MaySend, AttemptBody
<1>2. /\ Shape' /\ \A d \in Calls \ {c} : call'[d] = call[d]
      /\ call'[c] = [call[c] EXCEPT !.n = call[c].n + 1, !.last = "pending"]
  BY <1>0, <1>1 DEF Shape, Fields
<1>3. /\ call'[c].n = call[c].n + 1 /\ call'[c].last = "pending"
      /\ call'[c].at = call[c].at /\ call'[c].kind = call[c].kind /\ call'[c].asked = call[c].asked
      /\ call'[c].reply = call[c].reply /\ call'[c].err = call[c].err
  BY <1>0, <1>2 DEF Fields
<1>4. PlaceInv(c)'
  BY <1>0, <1>1, <1>3, BatchAssumption DEF PlaceInv
<1>5. SentInv(c)'
  <2>1. call'[c].n # 0
    BY <1>0, <1>3 DEF PlaceInv
  <2>3. call[c].kind = "evaluate" => Sound(call[c].asked)
    BY <1>0, <1>1 DEF SentInv
  <2> QED BY <1>1, <1>3, <2>1, <2>3 DEF SentInv, Reached
<1>6. ReplyInv(c)'
  BY <1>0, <1>1, <1>3 DEF ReplyInv
<1>7. wire' = wire \/ \E m : wire' = wire \cup {[call |-> c, n |-> m, body |-> call'[c].asked]}
  BY <1>1, <1>3
<1> QED BY <1>0, <1>2, <1>3, <1>4, <1>5, <1>6, <1>7, OneCallSteps

(* An attempt under way comes to an end: of the call's place, only `last`   *)
(* and the reply change.                                                    *)
LEMMA ResolvedKeepsInv ==
    ASSUME Inv, NEW c \in Calls, UNCHANGED <<keys, wire>>, Shape',
           \A d \in Calls \ {c} : call'[d] = call[d],
           call[c].last = "pending", call'[c].last \in {"retryable", "final", "answered"},
           call'[c].last = "answered" => Reached(c),
           \A f \in Fields \ {"last", "reply"} : call'[c][f] = call[c][f],
           ReplyInv(c)'
    PROVE  Inv'
<1>1. /\ call'[c].at = call[c].at /\ call'[c].kind = call[c].kind /\ call'[c].asked = call[c].asked
      /\ call'[c].n = call[c].n /\ call'[c].err = call[c].err
  BY DEF Fields
<1>2. PlaceInv(c) /\ SentInv(c)
  BY DEF Inv
<1>3. PlaceInv(c)'
  BY <1>1, <1>2 DEF PlaceInv
<1>4. SentInv(c)'
  <2>1. Reached(c)' = Reached(c)
    BY DEF Reached
  <2> QED BY <1>1, <1>2, <1>3, <2>1 DEF SentInv, PlaceInv
<1> QED BY <1>1, <1>3, <1>4, OneCallSteps

(* An attempt brings no answer.                                            *)
LEMMA AttemptFailsKeepsInv ==
    ASSUME Inv, NEW c \in Calls, AttemptFails(c)
    PROVE  Inv'
<1>0. /\ DOMAIN call = Calls /\ \A d \in Calls : DOMAIN call[d] = Fields
      /\ ReplyInv(c) /\ PlaceInv(c) /\ call[c].last = "pending" /\ UNCHANGED <<keys, wire>>
  BY DEF Inv, Shape, AttemptFails
<1>1. PICK verdict \in {"retryable", "final"} : call' = [call EXCEPT ![c].last = verdict]
  BY DEF AttemptFails
<1>2. /\ Shape' /\ \A d \in Calls \ {c} : call'[d] = call[d]
      /\ call'[c] = [call[c] EXCEPT !.last = verdict]
  BY <1>0, <1>1 DEF Shape, Fields
<1>3. call'[c].last = verdict /\ \A f \in Fields \ {"last"} : call'[c][f] = call[c][f]
  BY <1>0, <1>2 DEF Fields
<1>4. call'[c].at = "calling" /\ call'[c].reply = call[c].reply
  BY <1>0, <1>3 DEF Fields, PlaceInv
<1>5. ReplyInv(c)'
  BY <1>0, <1>4 DEF ReplyInv
<1>6. call'[c].last \in {"retryable", "final"}
  BY <1>3
<1> QED BY <1>0, <1>2, <1>3, <1>5, <1>6, ResolvedKeepsInv

(* A reply arrives; an honest one answers what was sent.                   *)
LEMMA AnsweredKeepsInv ==
    ASSUME Inv, NEW c \in Calls, NEW reply, Answered(c, reply), Received(c) # {},
           reply.honest =>
             /\ reply.form = IF call[c].kind = "models" THEN "models" ELSE "answers"
             /\ call[c].kind = "models" => DOMAIN reply.answers = {}
             /\ \A name \in DOMAIN reply.answers :
                  /\ name \in DOMAIN call[c].asked.questions
                  /\ \E raw \in RawAnswers :
                       reply.answers[name] = AnswerTo(call[c].asked.questions[name], raw)
    PROVE  Inv'
<1>0. /\ DOMAIN call = Calls /\ \A d \in Calls : DOMAIN call[d] = Fields
      /\ PlaceInv(c) /\ call[c].last = "pending" /\ UNCHANGED <<keys, wire>>
  BY DEF Inv, Shape, Answered
<1>1. PICK r : r = reply
  OBVIOUS
<1>2. call' = [call EXCEPT ![c].last = "answered", ![c].reply = r]
  BY <1>1 DEF Answered
<1>3. /\ Shape' /\ \A d \in Calls \ {c} : call'[d] = call[d]
      /\ call'[c] = [call[c] EXCEPT !.last = "answered", !.reply = r]
  BY <1>0, <1>2 DEF Shape, Fields
<1>4. /\ call'[c].last = "answered" /\ call'[c].reply = r
      /\ \A f \in Fields \ {"last", "reply"} : call'[c][f] = call[c][f]
  BY <1>0, <1>3 DEF Fields
<1>5. call'[c].at = "calling" /\ call'[c].kind = call[c].kind /\ call'[c].asked = call[c].asked
  BY <1>0, <1>4 DEF Fields, PlaceInv
<1>6. ReplyInv(c)'
  BY <1>1, <1>4, <1>5 DEF ReplyInv
<1>7. Reached(c)
  BY DEF Received, Reached
<1> QED BY <1>0, <1>3, <1>4, <1>6, <1>7, ResolvedKeepsInv

(* A call gives up.                                                        *)
LEMMA CallFailsKeepsInv ==
    ASSUME Inv, NEW c \in Calls, CallFails(c)
    PROVE  Inv'
<1>0. /\ DOMAIN call = Calls /\ \A d \in Calls : DOMAIN call[d] = Fields
      /\ PlaceInv(c) /\ SentInv(c) /\ ReplyInv(c) /\ UNCHANGED <<keys, wire>>
      /\ call[c].at = "calling" /\ call[c].last \in {"retryable", "final"}
  BY DEF Inv, Shape, CallFails
<1>1. PICK err \in {"APIError", "TransportError", "ErrInvalidResponse"} :
        /\ call' = [call EXCEPT ![c].at = "returned", ![c].err = err]
        /\ err # "TransportError" => Reached(c)
  BY DEF CallFails, Returns, Received, Reached
<1>2. /\ Shape' /\ \A d \in Calls \ {c} : call'[d] = call[d]
      /\ call'[c] = [call[c] EXCEPT !.at = "returned", !.err = err]
  BY <1>0, <1>1 DEF Shape, Fields
<1>3. /\ call'[c].at = "returned" /\ call'[c].err = err
      /\ call'[c].kind = call[c].kind /\ call'[c].n = call[c].n /\ call'[c].last = call[c].last
      /\ call'[c].reply = call[c].reply /\ call'[c].asked = call[c].asked
  BY <1>0, <1>2 DEF Fields
<1>4. PlaceInv(c)'
  BY <1>0, <1>3 DEF PlaceInv
<1>5. SentInv(c)'
  BY <1>0, <1>1, <1>3 DEF SentInv, Reached
<1>6. ReplyInv(c)'
  BY <1>0, <1>3 DEF ReplyInv
<1> QED BY <1>0, <1>2, <1>3, <1>4, <1>5, <1>6, OneCallSteps

(* The server was sent the body the call began with. *)
LEMMA ServerAnswersKeepsInv ==
    ASSUME Inv, NEW c \in Calls, ServerAnswers(c)
    PROVE  Inv'
<1>1. PICK w \in Received(c) :
        \/ /\ call[c].kind = "evaluate"
           /\ \E names \in SUBSET DOMAIN w.body.questions, raw \in RawAnswers :
                Answered(c, Reply("answers", [name \in names |->
                                     AnswerTo(w.body.questions[name], raw)], TRUE))
        \/ call[c].kind = "models" /\ Answered(c, Reply("models", NoAnswers, TRUE))
  BY DEF ServerAnswers
<1>2. w.body = call[c].asked
  BY DEF Inv, WireInv, Received
<1>3. CASE /\ call[c].kind = "evaluate"
           /\ \E names \in SUBSET DOMAIN w.body.questions, raw \in RawAnswers :
                Answered(c, Reply("answers", [name \in names |->
                                     AnswerTo(w.body.questions[name], raw)], TRUE))
  <2>1. PICK names \in SUBSET DOMAIN w.body.questions, raw \in RawAnswers :
          Answered(c, Reply("answers", [name \in names |->
                               AnswerTo(w.body.questions[name], raw)], TRUE))
    BY <1>3
  <2> DEFINE answers == [name \in names |-> AnswerTo(w.body.questions[name], raw)]
             reply == Reply("answers", answers, TRUE)
  <2>2. DOMAIN answers = names /\ \A name \in names : answers[name] = AnswerTo(w.body.questions[name], raw)
    OBVIOUS
  <2>3. \A name \in DOMAIN answers :
           /\ name \in DOMAIN call[c].asked.questions
           /\ \E a \in RawAnswers : answers[name] = AnswerTo(call[c].asked.questions[name], a)
    BY <1>2, <2>2
  <2>4. Answered(c, reply)
    BY <2>1
  <2> HIDE DEF answers
  <2>5. reply.form = "answers" /\ reply.answers = answers
    BY DEF Reply
  <2> HIDE DEF reply
  <2> QED BY <1>3, <2>3, <2>4, <2>5, AnsweredKeepsInv
<1>4. CASE call[c].kind = "models" /\ Answered(c, Reply("models", NoAnswers, TRUE))
  <2> DEFINE reply == Reply("models", NoAnswers, TRUE)
  <2>1. reply.form = "models" /\ DOMAIN reply.answers = {} /\ Answered(c, reply)
    BY <1>4 DEF Reply, NoAnswers
  <2> HIDE DEF reply
  <2> QED BY <1>4, <2>1, AnsweredKeepsInv
<1> QED BY <1>1, <1>3, <1>4

(* A reply that is not honest promises nothing.                            *)
LEMMA ServerMisbehavesKeepsInv ==
    ASSUME Inv, NEW c \in Calls, ServerMisbehaves(c)
    PROVE  Inv'
<1>1. Received(c) # {} /\ \E form, answers : Answered(c, Reply(form, answers, FALSE))
  BY DEF ServerMisbehaves
<1>2. PICK form, answers : Answered(c, Reply(form, answers, FALSE))
  BY <1>1
<1>3. ~Reply(form, answers, FALSE).honest
  BY DEF Reply
<1> QED BY <1>1, <1>2, <1>3, AnsweredKeepsInv

(* parseResult reads whatever an honest server says of the questions of     *)
(* the request, and an honest list of models has no answers.                *)
LEMMA HonestDecodes ==
    ASSUME Inv, NEW c \in Calls, call[c].reply.honest
    PROVE  Decodes(c)
<1>1. ReplyInv(c)
  BY DEF Inv
<1>2. ASSUME NEW q, NEW raw \in RawAnswers PROVE AnswerTo(q, raw).type # ""
  <2>1. WholeAnswer(q.kind).type = q.kind
    BY DEF WholeAnswer
  <2>2. raw.type \in Kinds \cup {"new"}
    BY DEF RawAnswers, WholeAnswer
  <2>3. AnswerTo(q, raw).type = IF q.kind \in Kinds THEN WholeAnswer(q.kind).type ELSE raw.type
    BY DEF AnswerTo
  <2> QED BY <2>1, <2>2, <2>3 DEF Kinds
<1>3. ASSUME NEW name \in DOMAIN call[c].reply.answers
      PROVE  call[c].reply.answers[name].type # ""
  <2>1. PICK raw \in RawAnswers :
          call[c].reply.answers[name] = AnswerTo(call[c].asked.questions[name], raw)
    BY <1>1 DEF ReplyInv
  <2> QED BY <1>2, <2>1
<1> QED BY <1>1, <1>3 DEF ReplyInv, Decodes, Parses

(* A reply is decoded, or is no result.                                    *)
LEMMA DecodeKeepsInv ==
    ASSUME Inv, NEW c \in Calls, Decode(c)
    PROVE  Inv'
<1>0. /\ DOMAIN call = Calls /\ \A d \in Calls : DOMAIN call[d] = Fields
      /\ PlaceInv(c) /\ SentInv(c) /\ ReplyInv(c) /\ UNCHANGED <<keys, wire>>
      /\ call[c].at = "calling" /\ call[c].last = "answered"
  BY DEF Inv, Shape, Decode
<1>1. CASE Decodes(c)
  <2>1. call' = [call EXCEPT ![c].at = "returned", ![c].answers = call[c].reply.answers]
    BY <1>1 DEF Decode
  <2>2. /\ Shape' /\ \A d \in Calls \ {c} : call'[d] = call[d]
        /\ call'[c] = [call[c] EXCEPT !.at = "returned", !.answers = call[c].reply.answers]
    BY <1>0, <2>1 DEF Shape, Fields
  <2>3. /\ call'[c].at = "returned" /\ call'[c].answers = call[c].reply.answers
        /\ call'[c].kind = call[c].kind /\ call'[c].n = call[c].n /\ call'[c].last = call[c].last
        /\ call'[c].reply = call[c].reply /\ call'[c].asked = call[c].asked
        /\ call'[c].err = call[c].err
    BY <1>0, <2>2 DEF Fields
  <2>4. call[c].err = "none" /\ call[c].n # 0
    BY <1>0 DEF PlaceInv
  <2>5. PlaceInv(c)'
    BY <1>0, <2>3, <2>4 DEF PlaceInv
  <2>6. SentInv(c)'
    BY <1>0, <2>3 DEF SentInv, Reached
  <2>7. ReplyInv(c)'
    BY <1>0, <1>1, <2>3, <2>4 DEF ReplyInv, Unusable, Decodes, Parses
  <2> QED BY <1>0, <2>2, <2>3, <2>5, <2>6, <2>7, OneCallSteps
<1>2. CASE ~Decodes(c)
  <2>1. call' = [call EXCEPT ![c].at = "returned", ![c].err = "ErrInvalidResponse"]
    BY <1>2 DEF Decode, Returns
  <2>2. /\ Shape' /\ \A d \in Calls \ {c} : call'[d] = call[d]
        /\ call'[c] = [call[c] EXCEPT !.at = "returned", !.err = "ErrInvalidResponse"]
    BY <1>0, <2>1 DEF Shape, Fields
  <2>3. /\ call'[c].at = "returned" /\ call'[c].err = "ErrInvalidResponse"
        /\ call'[c].kind = call[c].kind /\ call'[c].n = call[c].n /\ call'[c].last = call[c].last
        /\ call'[c].reply = call[c].reply /\ call'[c].asked = call[c].asked
    BY <1>0, <2>2 DEF Fields
  <2>4. ~call[c].reply.honest
    BY <1>2, HonestDecodes
  <2>5. PlaceInv(c)'
    BY <1>0, <2>3 DEF PlaceInv
  <2>6. SentInv(c)'
    BY <1>0, <2>3 DEF SentInv, Reached
  <2>7. ReplyInv(c)'
    BY <1>0, <2>3, <2>4 DEF ReplyInv
  <2> QED BY <1>0, <2>2, <2>3, <2>5, <2>6, <2>7, OneCallSteps
<1> QED BY <1>1, <1>2

LEMMA InvStep ==
    ASSUME Inv, [Next]_vars
    PROVE  Inv'
<1>1. CASE UNCHANGED vars
  <2>1. KeysInv' /\ Shape' /\ WireInv'
    BY <1>1 DEF Inv, vars, KeysInv, Shape, WireInv
  <2>2. ASSUME NEW c \in Calls PROVE (PlaceInv(c) /\ SentInv(c) /\ ReplyInv(c))'
    BY <1>1 DEF Inv, vars, PlaceInv, SentInv, Reached, ReplyInv
  <2> QED BY <2>1, <2>2 DEF Inv
<1>2. CASE \E name \in Names, q \in Questions : Ask(name, q) \/ Assign(name, q)
  BY <1>2, CallerKeepsInv
<1>3. CASE \E name \in Names : Remove(name)
  BY <1>3, CallerKeepsInv
<1>4. ASSUME NEW c \in Calls,
             \/ Evaluate(c) \/ EvaluateNil(c) \/ ListModels(c) \/ SendAttempt(c) \/ AttemptFails(c)
             \/ CallFails(c) \/ ServerAnswers(c) \/ ServerMisbehaves(c) \/ Decode(c)
      PROVE  Inv'
  BY <1>4, EvaluateKeepsInv, EvaluateNilKeepsInv, ListModelsKeepsInv, SendAttemptKeepsInv, AttemptFailsKeepsInv,
     CallFailsKeepsInv, ServerAnswersKeepsInv, ServerMisbehavesKeepsInv, DecodeKeepsInv
<1> QED BY <1>1, <1>2, <1>3, <1>4 DEF Next

(* Inv holds throughout: calls send the sound body they began with, and an  *)
(* honest reply is about the questions of that body (client.go:83-97).      *)
THEOREM InvCorrect == Spec => []Inv
BY InvInit, InvStep, PTL DEF Spec
-----------------------------------------------------------------------------
(* The properties.                                                         *)

LEMMA InvSound == Inv => OnlySoundBodiesSent
<1> SUFFICES ASSUME Inv, NEW w \in wire, call[w.call].kind = "evaluate"
             PROVE  /\ w.body.state = "text"
                    /\ w.body.questions # NoQuestions
                    /\ \A name \in DOMAIN w.body.questions :
                         LET q == w.body.questions[name]
                         IN  /\ name # "" /\ q.kind # "nil" /\ q.named
                             /\ q.kind \in Kinds =>
                                  /\ q.instructions \in {"nil", "text"}
                                  /\ q.entries \subseteq {"text", "nil", "null"}
                             /\ q.kind = "choice" => 1 <= q.size /\ q.size <= MaxOptions
                             /\ q.kind = "score" => MinLevels <= q.size /\ q.size <= MaxLevels
  BY DEF OnlySoundBodiesSent
<1>1. w.call \in Calls /\ w.body = call[w.call].asked
  BY DEF Inv, WireInv
<1>2. call[w.call].n # 0 /\ SentInv(w.call)
  BY <1>1 DEF Inv, SentInv, Reached
<1>3. Sound(w.body)
  BY <1>1, <1>2 DEF SentInv
<1>4. ASSUME NEW q, q.kind = "choice" => q.size \in 1..MaxOptions,
             q.kind = "score" => q.size \in MinLevels..MaxLevels
      PROVE  /\ q.kind = "choice" => 1 <= q.size /\ q.size <= MaxOptions
             /\ q.kind = "score" => MinLevels <= q.size /\ q.size <= MaxLevels
  BY <1>4, BatchAssumption
<1>5. ASSUME NEW name \in DOMAIN w.body.questions, NEW q, q = w.body.questions[name]
      PROVE  /\ name # "" /\ q.kind # "nil" /\ q.named
             /\ q.kind \in Kinds => /\ q.instructions \in {"nil", "text"}
                                    /\ q.entries \subseteq {"text", "nil", "null"}
             /\ q.kind = "choice" => 1 <= q.size /\ q.size <= MaxOptions
             /\ q.kind = "score" => MinLevels <= q.size /\ q.size <= MaxLevels
  <2>1. /\ name # "" /\ q.named /\ q.kind \in Kinds \cup {"raw"}
        /\ q.kind \in Kinds => /\ q.instructions \in {"nil", "text"}
                               /\ q.entries \subseteq {"text", "nil", "null"}
        /\ q.kind = "choice" => q.size \in 1..MaxOptions
        /\ q.kind = "score" => q.size \in MinLevels..MaxLevels
    BY <1>3, <1>5 DEF Sound
  <2> QED BY <1>4, <2>1 DEF Kinds
<1>6. w.body.state = "text" /\ w.body.questions # NoQuestions
  BY <1>3 DEF Sound
<1> QED BY <1>5, <1>6

LEMMA InvLocalErrors == Inv => LocalErrorsSendNothing
<1> SUFFICES ASSUME Inv, NEW c \in Calls, call[c].at = "returned"
             PROVE  /\ call[c].err = "ErrInvalidRequest" => \A w \in wire : w.call # c
                    /\ call[c].err \notin {"ErrInvalidRequest", "TransportError"} =>
                           \E w \in wire : w.call = c
  BY DEF LocalErrorsSendNothing
<1>1. PlaceInv(c) /\ SentInv(c)
  BY DEF Inv
<1> QED BY <1>1 DEF PlaceInv, SentInv, Reached

LEMMA InvParses == Inv => BatchParsesOrFails
BY DEF Inv, ReplyInv, BatchParsesOrFails

(* What AnswerOf returns is of the kind that was asked for, and whole.      *)
LEMMA AnswerIsWhole ==
    ASSUME NEW answers, NEW k, Answer(k, answers).err = "none"
    PROVE  /\ k.name \in DOMAIN answers
           /\ answers[k.name].type = k.kind
           /\ Required[k.kind] \subseteq answers[k.name].fields
           /\ answers[k.name].fits
           /\ Answer(k, answers).id = answers[k.name].id
BY DEF Answer, AnswerOf, Failure, KindMatches

(* What the code says of an answer it does not return. *)
LEMMA AnswerFails ==
    ASSUME NEW answers, NEW k
    PROVE  /\ Answer(k, answers).err = "ErrAnswerMissing" => k.name \notin DOMAIN answers
           /\ Answer(k, answers).err = "ErrAnswerKind" =>
                k.kind # "zero" /\ k.name \in DOMAIN answers /\ answers[k.name].type # k.kind
           /\ Answer(k, answers).err = "ErrInvalidResponse" =>
                /\ k.name \in DOMAIN answers
                /\ \/ ~answers[k.name].fits
                   \/ answers[k.name].type = k.kind
                      /\ ~(Required[k.kind] \subseteq answers[k.name].fields)
BY DEF Answer, AnswerOf, Failure, KindMatches

(* What an honest server answers to a question. *)
LEMMA AnswerToIs ==
    ASSUME NEW q, NEW raw
    PROVE  /\ AnswerTo(q, raw).id = q.id
           /\ q.kind \in Kinds => /\ AnswerTo(q, raw).type = q.kind
                                  /\ AnswerTo(q, raw).fits
                                  /\ AnswerTo(q, raw).fields = Required[q.kind]
BY DEF AnswerTo, WholeAnswer, Kinds

(* An answer that reads well was given to a question of the key's kind.    *)
LEMMA InvKeys == Inv => KeyReadsWhatWasAsked
<1> SUFFICES ASSUME Inv, NEW c \in Calls, NEW k \in keys, HasResult(c)
             PROVE  LET answers == call[c].answers
                        read    == Answer(k, answers)
                    IN  /\ read.err = "none" => /\ answers[k.name].type = k.kind
                                               /\ Required[k.kind] \subseteq answers[k.name].fields
                                               /\ answers[k.name].fits
                        /\ call[c].reply.honest
                           => ReadsHonestly(k, call[c].asked.questions, DOMAIN answers, read)
  BY DEF KeyReadsWhatWasAsked
<1> DEFINE answers == call[c].answers
           read    == Answer(k, answers)
           asked   == call[c].asked.questions
<1>1. read.err = "none" => /\ answers[k.name].type = k.kind
                           /\ Required[k.kind] \subseteq answers[k.name].fields
                           /\ answers[k.name].fits
  BY AnswerIsWhole
<1>2. ASSUME call[c].reply.honest PROVE ReadsHonestly(k, asked, DOMAIN answers, read)
  <2>1. ReplyInv(c) /\ PlaceInv(c) /\ call[c].answers = call[c].reply.answers
    BY DEF Inv, ReplyInv, HasResult
  <2>2. \A name \in DOMAIN answers :
          /\ name \in DOMAIN asked
          /\ \E raw \in RawAnswers : answers[name] = AnswerTo(asked[name], raw)
    BY <1>2, <2>1 DEF ReplyInv
  <2>3. k.name \in DOMAIN answers =>
          /\ k.name \in DOMAIN asked
          /\ answers[k.name].id = asked[k.name].id
          /\ asked[k.name].kind \in Kinds => /\ answers[k.name].type = asked[k.name].kind
                                             /\ answers[k.name].fits
                                             /\ answers[k.name].fields = Required[asked[k.name].kind]
    <3> SUFFICES ASSUME k.name \in DOMAIN answers
                 PROVE  /\ k.name \in DOMAIN asked
                        /\ answers[k.name].id = asked[k.name].id
                        /\ asked[k.name].kind \in Kinds =>
                             /\ answers[k.name].type = asked[k.name].kind
                             /\ answers[k.name].fits
                             /\ answers[k.name].fields = Required[asked[k.name].kind]
                    OBVIOUS
    <3>1. PICK raw \in RawAnswers : answers[k.name] = AnswerTo(asked[k.name], raw)
      BY <2>2
    <3>2. k.name \in DOMAIN asked
      BY <2>2
    <3> HIDE DEF answers, asked
    <3> QED BY <3>1, <3>2, AnswerToIs
  <2>4. k.name \in DOMAIN answers => asked[k.name].kind \in Kinds \cup {"raw"}
    <3> SUFFICES ASSUME k.name \in DOMAIN answers
                 PROVE  asked[k.name].kind \in Kinds \cup {"raw"}
      OBVIOUS
    <3>1. call[c].kind = "evaluate" /\ call[c].n # 0
      BY <1>2, <2>1 DEF ReplyInv, PlaceInv
    <3>2. Sound(call[c].asked)
      BY <3>1 DEF Inv, SentInv
    <3> QED BY <2>3, <3>2 DEF Sound
  <2>5. k.kind \in Kinds \cup {"zero"}
    BY DEF Inv, KeysInv
  <2> HIDE DEF answers, asked
  <2>6. read.err = "none" => k.name \in DOMAIN asked /\ read.id = asked[k.name].id
    BY <2>3, AnswerIsWhole
  <2>7. read.err = "ErrAnswerKind" => asked[k.name].kind # k.kind
    BY <2>3, <2>5, AnswerFails
  <2>8. read.err = "ErrAnswerMissing" => k.name \notin DOMAIN asked \cap DOMAIN answers
    BY AnswerFails
  <2>9. read.err = "ErrInvalidResponse" => asked[k.name].kind = "raw"
    BY <2>3, <2>4, AnswerFails
  <2> HIDE DEF read
  <2> QED BY <2>6, <2>7, <2>8, <2>9 DEF ReadsHonestly
<1> QED BY <1>1, <1>2

(* No body with a bad state, no questions, an empty name, a nil question,   *)
(* bad instructions or criteria, or options or levels out of bounds reaches *)
(* a server, whatever the caller does to the request while its calls run    *)
(* (docs/errors.md:46, request.go:72-120).                               *)
THEOREM SoundBodiesHold == Spec => []OnlySoundBodiesSent
BY InvCorrect, InvSound, PTL

(* A call that ends in ErrInvalidRequest sent nothing; one that ends in an  *)
(* answer, an APIError or an ErrInvalidResponse reached the server; a       *)
(* TransportError may come of either (docs/errors.md:51, client.go:83-97).  *)
THEOREM LocalErrorsHold == Spec => []LocalErrorsSendNothing
BY InvCorrect, InvLocalErrors, PTL

(* One answer without a type fails the whole evaluation; nothing an honest  *)
(* server says does, and none of it is lost (result.go:70-108,              *)
(* client.go:75-97).                                                        *)
THEOREM BatchParseHolds == Spec => []BatchParsesOrFails
BY InvCorrect, InvParses, PTL

(* A key reads the answer to the question its name stood for in that        *)
(* evaluation, or says why it cannot (request.go:33-63, answer.go:105-184). *)
THEOREM KeysReadHonestly == Spec => []KeyReadsWhatWasAsked
BY InvCorrect, InvKeys, PTL

-----------------------------------------------------------------------------
(* Each call keeps CallContract.                                           *)

(* A call that was not made has tried nothing.                             *)
LEMMA ContractInit == ASSUME Init, NEW c \in Calls PROVE Contract(c)!Init
<1>1. call[c] = Idle
  BY DEF Init
<1>2. call[c].n = 0 /\ call[c].last = "idle" /\ Outcome(c) = "none"
  BY <1>1 DEF Idle, Outcome
<1> QED BY <1>2, BatchAssumption DEF Contract!Init

(* A call whose place CallContract sees no change of. *)
LEMMA ContractStutters ==
    ASSUME NEW c \in Calls, call'[c].n = call[c].n, call'[c].last = call[c].last,
           Outcome(c)' = Outcome(c)
    PROVE  [Contract(c)!Next]_(Contract(c)!vars)
BY DEF Contract!vars

(* What leaves a call alone leaves its contract alone.                     *)
LEMMA OthersStutter ==
    ASSUME NEW c \in Calls, call'[c] = call[c]
    PROVE  [Contract(c)!Next]_(Contract(c)!vars)
<1>1. Outcome(c)' = Outcome(c)
  BY DEF Outcome
<1> QED BY <1>1, ContractStutters

(* Sending an attempt is a try of the contract.                            *)
LEMMA SendAttemptTries ==
    ASSUME Inv, NEW c \in Calls, SendAttempt(c)
    PROVE  Contract(c)!Next
<1>0. /\ DOMAIN call = Calls /\ DOMAIN call[c] = Fields /\ PlaceInv(c)
  BY DEF Inv, Shape
<1>1. /\ call' = [call EXCEPT ![c].n = call[c].n + 1, ![c].last = "pending"]
      /\ call[c].at = "calling" /\ call[c].n < MaxAttempts
      /\ call[c].last \in {"idle", "retryable"}
  BY DEF SendAttempt, Sends, MaySend
<1>2. call'[c].n = call[c].n + 1 /\ call'[c].last = "pending" /\ call'[c].at = "calling"
  BY <1>0, <1>1 DEF Fields
<1>3. Outcome(c) = "none" /\ Outcome(c)' = "none"
  BY <1>1, <1>2 DEF Outcome
<1>4. Contract(c)!Try
  BY <1>1, <1>2, <1>3 DEF Contract!Try
<1> QED BY <1>4 DEF Contract!Next

(* AttemptFails, ServerAnswers and ServerMisbehaves end an attempt. *)
LEMMA AttemptResolves ==
    ASSUME Inv, NEW c \in Calls, AttemptFails(c) \/ ServerAnswers(c) \/ ServerMisbehaves(c)
    PROVE  Contract(c)!Next
<1>0. /\ DOMAIN call = Calls /\ DOMAIN call[c] = Fields /\ PlaceInv(c)
  BY DEF Inv, Shape
<1>1. /\ call[c].last = "pending"
      /\ \/ \E verdict \in {"retryable", "final"} : call' = [call EXCEPT ![c].last = verdict]
         \/ \E reply : Answered(c, reply)
  BY DEF AttemptFails, ServerAnswers, ServerMisbehaves, Answered
<1>2. call'[c].last \in {"retryable", "final", "answered"} /\ call'[c].n = call[c].n
      /\ call'[c].at = call[c].at
  BY <1>0, <1>1 DEF Fields, Answered
<1>3. Outcome(c) = "none" /\ Outcome(c)' = "none"
  BY <1>0, <1>1, <1>2 DEF Outcome, PlaceInv
<1>4. Contract(c)!Resolve
  BY <1>1, <1>2, <1>3 DEF Contract!Resolve, Contract!Verdicts
<1> QED BY <1>4 DEF Contract!Next

(* CallFails returns an error of do, Decode what became of an answer.       *)
LEMMA CallReturns ==
    ASSUME Inv, NEW c \in Calls, CallFails(c) \/ Decode(c)
    PROVE  Contract(c)!Next
<1>0. /\ DOMAIN call = Calls /\ DOMAIN call[c] = Fields /\ PlaceInv(c)
  BY DEF Inv, Shape
<1>1. /\ call[c].at = "calling" /\ call[c].last \in {"retryable", "final", "answered"}
      /\ \/ \E err : call' = [call EXCEPT ![c].at = "returned", ![c].err = err]
         \/ \E answers : call' = [call EXCEPT ![c].at = "returned", ![c].answers = answers]
  BY DEF CallFails, Decode, Returns
<1>2. call'[c].last = call[c].last /\ call'[c].n = call[c].n /\ call'[c].at = "returned"
  BY <1>0, <1>1 DEF Fields
<1>3. call[c].n # 0
  BY <1>0, <1>1 DEF PlaceInv
<1>4. Outcome(c) = "none" /\ Outcome(c)' = IF call[c].last = "answered" THEN "answer" ELSE "error"
  BY <1>1, <1>2, <1>3 DEF Outcome
<1>5. Contract(c)!Return
  BY <1>1, <1>2, <1>4 DEF Contract!Return, Contract!Verdicts
<1> QED BY <1>5 DEF Contract!Next

(* A call that begins has no attempt yet, and one refused has none at all. *)
LEMMA BeginningStutters ==
    ASSUME Inv, NEW c \in Calls, Evaluate(c) \/ EvaluateNil(c) \/ ListModels(c)
    PROVE  [Contract(c)!Next]_(Contract(c)!vars)
<1>0. /\ DOMAIN call = Calls /\ DOMAIN call[c] = Fields /\ PlaceInv(c)
  BY DEF Inv, Shape
<1>1. /\ call[c].at = "idle"
      /\ \/ \E body : call' = [call EXCEPT ![c].at = "calling", ![c].asked = body]
         \/ \E err : call' = [call EXCEPT ![c].at = "returned", ![c].err = err]
         \/ \E kind : call' = [call EXCEPT ![c].at = "calling", ![c].kind = kind]
  BY DEF Evaluate, EvaluateNil, ListModels, Returns
<1>2. call[c].n = 0 /\ call'[c].n = call[c].n /\ call'[c].last = call[c].last
  BY <1>0, <1>1 DEF Fields, PlaceInv
<1>3. Outcome(c)' = Outcome(c)
  BY <1>1, <1>2 DEF Outcome
<1> QED BY <1>2, <1>3, ContractStutters

(* Every step is one of the contract of the call it is made by, if any.    *)
LEMMA ContractStep ==
    ASSUME Inv, [Next]_vars, NEW d \in Calls
    PROVE  [Contract(d)!Next]_(Contract(d)!vars)
<1>0. DOMAIN call = Calls
  BY DEF Inv, Shape
<1>1. CASE UNCHANGED vars
  BY <1>1, OthersStutter DEF vars
<1>2. CASE \/ \E name \in Names, q \in Questions : Ask(name, q) \/ Assign(name, q)
           \/ \E name \in Names : Remove(name)
  <2>1. UNCHANGED call
    BY <1>2 DEF Ask, Assign, Remove, Edit
  <2> QED BY <2>1, OthersStutter
<1>3. ASSUME NEW c \in Calls,
             \/ Evaluate(c) \/ EvaluateNil(c) \/ ListModels(c) \/ SendAttempt(c) \/ AttemptFails(c)
             \/ CallFails(c) \/ ServerAnswers(c) \/ ServerMisbehaves(c) \/ Decode(c)
      PROVE  [Contract(d)!Next]_(Contract(d)!vars)
  <2>1. CASE d = c
    BY <1>3, <2>1, SendAttemptTries, AttemptResolves, CallReturns, BeginningStutters
  <2>2. CASE d # c
    <3>1. call'[d] = call[d]
      BY <1>0, <1>3, <2>2
      DEF Evaluate, EvaluateNil, ListModels, SendAttempt, Sends, AttemptFails, CallFails, Returns,
          ServerAnswers, ServerMisbehaves, Answered, Decode
    <3> QED BY <3>1, OthersStutter
  <2> QED BY <2>1, <2>2
<1> QED BY <1>1, <1>2, <1>3 DEF Next

(* Evaluate and ListModels add no attempt to a call and take none away:     *)
(* each call goes by CallContract, however many run and whatever the caller *)
(* does meanwhile (client.go:83-97, models.go:21-36).                       *)
THEOREM ContractsKept == Spec => CallsKeepContract
<1>1. Init => \A c \in Calls : Contract(c)!Init
  BY ContractInit
<1>2. Inv /\ [Next]_vars => [\A c \in Calls : [Contract(c)!Next]_(Contract(c)!vars)]_vars
  BY ContractStep
<1> QED BY <1>1, <1>2, InvCorrect, PTL DEF Spec, CallsKeepContract
=============================================================================
