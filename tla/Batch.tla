-------------------------------- MODULE Batch --------------------------------
(***************************************************************************)
(* A Request and its calls: the caller registers questions with Ask or in  *)
(* the map itself (request.go), Evaluate encodes the request once          *)
(* (request.go, question.go, entry.go), its attempts send that body, and   *)
(* the keys of Ask read the answers out of whatever came back (result.go,  *)
(* answer.go).  ListModels is a call without a request (models.go).        *)
(*                                                                         *)
(* The caller may go on changing the request while an evaluation waits for *)
(* its answer: Evaluate has encoded it by then and must not notice.  The   *)
(* attempts of a call go by CallContract, which ClientCall implements.     *)
(*                                                                         *)
(* X_Y is a faulty variant of X, which some property must reject.          *)
(***************************************************************************)
EXTENDS Integers, FiniteSets, Functions

CONSTANTS
    Names,         \* question names, "" included
    Questions,     \* the questions a caller can build
    States,        \* the entries a caller passes as state
    Extras,        \* the sets of extra top-level fields
    MaxOptions,    \* maxChoiceOptions
    MinLevels,     \* minScoreLevels
    MaxLevels,     \* maxScoreLevels
    Calls,         \* the calls of Evaluate and ListModels
    Replies,       \* the answers of a server that answers anything
    MaxEdits,      \* bound: changes to the request
    MaxAttempts    \* bound: attempts per call

Kinds == {"noul", "choice", "score"}

(* An Entry by what marshalEntry makes of it: a string, object or array; an *)
(* untyped nil; a value that encodes to null; a bare number or boolean; a   *)
(* []byte; a value json.Marshal refuses.                                    *)
Entries == {"text", "nil", "null", "scalar", "bytes", "failing"}

(* A question of any kind, `nil` included.  `size` is the number of options *)
(* or levels, `entries` what describes them; `named` says that no label is  *)
(* empty, that a score has no deferred error, that a raw question has a     *)
(* type.                                                                    *)
QuestionShapes == [id : Nat, kind : Kinds \cup {"raw", "nil"}, instructions : Entries,
                   size : Nat, entries : SUBSET Entries, named : BOOLEAN]

ASSUME BatchAssumption ==
    /\ Names \subseteq STRING
    /\ Questions \subseteq QuestionShapes
    /\ States \subseteq Entries
    /\ MaxOptions \in Nat /\ MinLevels \in Nat /\ MaxLevels \in Nat
    /\ MaxEdits \in Nat /\ MaxAttempts \in Nat \ {0}

VARIABLES
    req,     \* the Request: [state, questions, extra]
    edits,   \* how often it was changed
    keys,    \* the keys there are: Ask's, and the zero Key: [name, id, kind]
    call,    \* each call: where it is, its body, its attempts, its reply, its result
    wire     \* the bodies that reached the server: [call, n, body]

vars == <<req, edits, keys, call, wire>>

-----------------------------------------------------------------------------
(* Encoding. *)

EntryAccepted(e, allowNil) == e = "text" \/ (allowNil /\ e \in {"nil", "null"})

(* marshalInstructions leaves a nil out; `null` is no instruction. *)
InstructionsAccepted(e) == e = "nil" \/ EntryAccepted(e, FALSE)

QuestionAccepted_AnySize(q) ==
    IF q.kind = "raw" THEN q.named
    ELSE /\ q.kind \in Kinds /\ q.named
         /\ InstructionsAccepted(q.instructions)
         /\ \A e \in q.entries : EntryAccepted(e, TRUE)

(* marshalQuestion of each kind; ScoreScale has how a scale is built.       *)
QuestionAccepted(q) ==
    IF q.kind = "raw" THEN q.named
    ELSE /\ q.kind \in Kinds
         /\ q.named
         /\ InstructionsAccepted(q.instructions)
         /\ \A e \in q.entries : EntryAccepted(e, TRUE)
         /\ q.kind = "choice" => q.size \in 1..MaxOptions
         /\ q.kind = "score" => q.size \in MinLevels..MaxLevels

Reserved == {"state", "questions"}

(* The questions map as a function on the names in it. *)
RequestAccepted(r) ==
    /\ EntryAccepted(r.state, FALSE)
    /\ DOMAIN r.questions # {}
    /\ \A name \in DOMAIN r.questions : name # "" /\ QuestionAccepted(r.questions[name])
    /\ r.extra \cap (Reserved \cup {"unencodable"}) = {}

NoQuestions == [name \in {} |-> 0]

(* What the server reads under the fields the SDK writes: the extra ones    *)
(* are merged last.  The model is left out.                                 *)
Encoded(r) ==
    [state     |-> IF "state" \in r.extra THEN "extra" ELSE r.state,
     questions |-> IF "questions" \in r.extra THEN NoQuestions ELSE r.questions]

-----------------------------------------------------------------------------
(* The caller. *)

NoBody == [state |-> "", questions |-> NoQuestions]
NoAnswers == [name \in {} |-> 0]

(* A 2xx body by what it decodes to, and whether its server was honest.     *)
Reply(form, answers, honest) == [form |-> form, answers |-> answers, honest |-> honest]
NoReply == Reply("none", NoAnswers, FALSE)

Idle == [at |-> "idle", kind |-> "evaluate", asked |-> NoBody, n |-> 0, last |-> "idle",
         reply |-> NoReply, answers |-> NoAnswers, err |-> "none"]

ZeroKey == [name |-> "", id |-> 0, kind |-> "zero"]

Init ==
    /\ req \in [state : States, questions : {NoQuestions}, extra : Extras]
    /\ edits = 0
    /\ keys = {ZeroKey}
    /\ call = [c \in Calls |-> Idle]
    /\ wire = {}

Edit(questions) ==
    /\ edits < MaxEdits
    /\ edits' = edits + 1
    /\ req' = [req EXCEPT !.questions = questions]
    /\ UNCHANGED <<call, wire>>

With(name, q) ==
    [x \in DOMAIN req.questions \cup {name} |-> IF x = name THEN q ELSE req.questions[x]]

(* Ask replaces what the name stood for; the earlier key stays around. *)
Ask(name, q) ==
    /\ q.kind \in Kinds
    /\ Edit(With(name, q))
    /\ keys' = keys \cup {[name |-> name, id |-> q.id, kind |-> q.kind]}

(* The map is the caller's: raw and nil questions get in this way. *)
Assign(name, q) ==
    /\ q.kind \notin Kinds
    /\ Edit(With(name, q))
    /\ UNCHANGED keys

Remove(name) ==
    /\ name \in DOMAIN req.questions
    /\ Edit(Restrict(req.questions, DOMAIN req.questions \ {name}))
    /\ UNCHANGED keys

-----------------------------------------------------------------------------
(* The calls. *)

Returns(c, err) == call' = [call EXCEPT ![c].at = "returned", ![c].err = err]

(* marshalRequest, before anything else. *)
Evaluate(c) ==
    /\ call[c].at = "idle"
    /\ \/ /\ RequestAccepted(req)
          /\ call' = [call EXCEPT ![c].at = "calling", ![c].asked = Encoded(req)]
       \/ ~RequestAccepted(req) /\ Returns(c, "ErrInvalidRequest")
    /\ UNCHANGED <<req, edits, keys, wire>>

(* Evaluate without a request. *)
EvaluateNil(c) ==
    /\ call[c].at = "idle"
    /\ Returns(c, "ErrInvalidRequest")
    /\ UNCHANGED <<req, edits, keys, wire>>

ListModels(c) ==
    /\ call[c].at = "idle"
    /\ call' = [call EXCEPT ![c].at = "calling", ![c].kind = "models"]
    /\ UNCHANGED <<req, edits, keys, wire>>

(* The body of an attempt: the bytes encoded when the call began. *)
AttemptBody_Live(c) == Encoded(req)

AttemptBody(c) == call[c].asked

(* do starts an attempt: the first, or one after a failure it retries.      *)
MaySend(c) ==
    /\ call[c].at = "calling" /\ call[c].n < MaxAttempts
    /\ call[c].last \in {"idle", "retryable"}

(* Nothing reaches the server when the context is done or no connection can *)
(* be made.                                                                 *)
Sends(c) ==
    /\ call' = [call EXCEPT ![c].n = @ + 1, ![c].last = "pending"]
    /\ \/ wire' = wire \cup {[call |-> c, n |-> call[c].n, body |-> AttemptBody(c)]}
       \/ UNCHANGED wire

(* What reached the server of the latest attempt: its body, or nothing.     *)
Received(c) == {w \in wire : w.call = c /\ w.n = call[c].n - 1}

SendAttempt_Reencoding(c) ==
    /\ MaySend(c)
    /\ \/ RequestAccepted(req) /\ Sends(c)
       \/ ~RequestAccepted(req) /\ Returns(c, "ErrInvalidRequest") /\ UNCHANGED wire
    /\ UNCHANGED <<req, edits, keys>>

SendAttempt(c) ==
    /\ MaySend(c)
    /\ Sends(c)
    /\ UNCHANGED <<req, edits, keys>>

(* Nothing is sent, the network fails, or a response is no 2xx or too large. *)
AttemptFails(c) ==
    /\ call[c].last = "pending"
    /\ \E verdict \in {"retryable", "final"} : call' = [call EXCEPT ![c].last = verdict]
    /\ UNCHANGED <<req, edits, keys, wire>>

(* Both hand on the error of do; a server must have answered for any but    *)
(* TransportError.                                                          *)
CallFails(c) ==
    /\ call[c].at = "calling" /\ call[c].last \in {"retryable", "final"}
    /\ \/ Returns(c, "TransportError")
       \/ Received(c) # {} /\ \E err \in {"APIError", "ErrInvalidResponse"} : Returns(c, err)
    /\ UNCHANGED <<req, edits, keys, wire>>

Answered(c, reply) ==
    /\ call[c].last = "pending"
    /\ call' = [call EXCEPT ![c].last = "answered", ![c].reply = reply]
    /\ UNCHANGED <<req, edits, keys, wire>>

(* The fields decodeNoul, decodeChoice and decodeScore ask for. *)
Required == [noul   |-> {"noul"},
             choice |-> {"choice", "confidence", "probabilities"},
             score  |-> {"score", "confidence", "probabilities", "legend"}]

(* A whole answer of a kind the SDK knows. *)
WholeAnswer(kind) == [type |-> kind, fields |-> Required[kind], fits |-> TRUE]

(* What a raw question is answered: of a kind the SDK knows, or of a newer  *)
(* one, which may use the SDK's field names for values of other types:      *)
(* `fits` is then FALSE.                                                    *)
RawAnswers ==
    {WholeAnswer(kind) : kind \in Kinds}
    \cup [type : {"new"}, fields : {{}}, fits : BOOLEAN]

(* The answer to a question, `raw` being that to one the SDK did not build. *)
AnswerTo(q, raw) ==
    LET a == IF q.kind \in Kinds THEN WholeAnswer(q.kind) ELSE raw
    IN  [type |-> a.type, fields |-> a.fields, fits |-> a.fits, id |-> q.id]

(* External: a server that answers some of the questions it was last sent,  *)
(* each in its own kind, or lists its models.                               *)
ServerAnswers(c) ==
    \E w \in Received(c) :
       \/ /\ call[c].kind = "evaluate"
          /\ \E names \in SUBSET DOMAIN w.body.questions, raw \in RawAnswers :
               LET answers == [name \in names |-> AnswerTo(w.body.questions[name], raw)]
               IN  Answered(c, Reply("answers", answers, TRUE))
       \/ call[c].kind = "models" /\ Answered(c, Reply("models", NoAnswers, TRUE))

(* External: a server that answers anything, or nothing readable.           *)
ServerMisbehaves(c) ==
    /\ Received(c) # {}
    /\ \/ /\ call[c].kind = "evaluate"
          /\ \E answers \in Replies : Answered(c, Reply("answers", answers, FALSE))
       \/ Answered(c, Reply("malformed", NoAnswers, FALSE))

(* parseResult: one answer without a type fails them all, a type the SDK    *)
(* does not know fails none.                                                *)
Parses_KnownOnly(answers) == \A name \in DOMAIN answers : answers[name].type \in Kinds

Parses(answers) == \A name \in DOMAIN answers : answers[name].type # ""

Decodes(c) ==
    /\ call[c].reply.form = (IF call[c].kind = "models" THEN "models" ELSE "answers")
    /\ Parses(call[c].reply.answers)

(* What Evaluate and ListModels make of a 2xx body. *)
Decode_Retried(c) ==
    /\ call[c].at = "calling" /\ call[c].last = "answered"
    /\ \/ /\ Decodes(c)
          /\ call' = [call EXCEPT ![c].at = "returned", ![c].answers = call[c].reply.answers]
       \/ ~Decodes(c) /\ call' = [call EXCEPT ![c].last = "retryable", ![c].reply = NoReply]
    /\ UNCHANGED <<req, edits, keys, wire>>

Decode(c) ==
    /\ call[c].at = "calling" /\ call[c].last = "answered"
    /\ \/ /\ Decodes(c)
          /\ call' = [call EXCEPT ![c].at = "returned", ![c].answers = call[c].reply.answers]
       \/ ~Decodes(c) /\ Returns(c, "ErrInvalidResponse")
    /\ UNCHANGED <<req, edits, keys, wire>>

Next ==
    \/ \E name \in Names, q \in Questions : Ask(name, q) \/ Assign(name, q)
    \/ \E name \in Names : Remove(name)
    \/ \E c \in Calls :
         \/ Evaluate(c)
         \/ EvaluateNil(c)
         \/ ListModels(c)
         \/ SendAttempt(c)
         \/ AttemptFails(c)
         \/ CallFails(c)
         \/ ServerAnswers(c)
         \/ ServerMisbehaves(c)
         \/ Decode(c)

Spec == Init /\ [][Next]_vars

-----------------------------------------------------------------------------
(* Reading a result. *)

KindMatches(answer, kind) == answer.type = kind

Failure(err) == [err |-> err, id |-> 0]

(* NoulOf, ChoiceOf and ScoreOf, by their kind.  decodeWire unmarshals every *)
(* field before it looks at the type.                                       *)
AnswerOf(answers, name, kind) ==
    IF name \notin DOMAIN answers THEN Failure("ErrAnswerMissing")
    ELSE IF ~answers[name].fits THEN Failure("ErrInvalidResponse")
    ELSE IF ~KindMatches(answers[name], kind) THEN Failure("ErrAnswerKind")
    ELSE IF ~(Required[kind] \subseteq answers[name].fields) THEN Failure("ErrInvalidResponse")
    ELSE [err |-> "none", id |-> answers[name].id]

(* Key.Answer: what the key's own question decodes. *)
Answer(key, answers) ==
    IF key.kind = "zero" THEN Failure("ErrInvalidRequest")
    ELSE AnswerOf(answers, key.name, key.kind)

HasResult(c) == call[c].at = "returned" /\ call[c].err = "none"

-----------------------------------------------------------------------------
(* Properties. *)

ReadsHonestly(k, asked, answered, read) ==
    /\ read.err = "none" => k.name \in DOMAIN asked /\ read.id = asked[k.name].id
    /\ read.err = "ErrAnswerKind" => asked[k.name].kind # k.kind
    /\ read.err = "ErrAnswerMissing" => k.name \notin DOMAIN asked \cap answered
    /\ read.err = "ErrInvalidResponse" => asked[k.name].kind = "raw"

(* However requests were edited, keys kept and results mixed up, a key      *)
(* reads from an honest server the answer to the question its name stood    *)
(* for in that evaluation, or says that the kind is another one or that     *)
(* there is none, or, of a raw question's answer only, that it cannot be    *)
(* read; and what it reads of any answer is of its own kind and whole       *)
(* (request.go:33-63, answer.go:105-184, client.go:88-92).                  *)
KeyReadsWhatWasAsked ==
    \A c \in Calls, k \in keys :
        HasResult(c) =>
            LET answers == call[c].answers
                read    == Answer(k, answers)
            IN  /\ read.err = "none" => /\ answers[k.name].type = k.kind
                                       /\ Required[k.kind] \subseteq answers[k.name].fields
                                       /\ answers[k.name].fits
                /\ call[c].reply.honest
                   => ReadsHonestly(k, call[c].asked.questions, DOMAIN answers, read)

(* What the documentation lists as refused before anything is sent reaches  *)
(* no server: a bad state, no questions, an empty name, a nil question,     *)
(* bad instructions or criteria, options and levels out of bounds, and      *)
(* Extra in the place of the state or the questions (docs/errors.md:46,     *)
(* request.go:72-120, question.go:77-275).                                  *)
OnlySoundBodiesSent ==
    \A w \in wire : call[w.call].kind = "evaluate" =>
        /\ w.body.state = "text"
        /\ w.body.questions # NoQuestions
        /\ \A name \in DOMAIN w.body.questions :
             LET q == w.body.questions[name]
             IN  /\ name # "" /\ q.kind # "nil" /\ q.named
                 /\ q.kind \in Kinds => /\ q.instructions \in {"nil", "text"}
                                        /\ q.entries \subseteq {"text", "nil", "null"}
                 /\ q.kind = "choice" => 1 <= q.size /\ q.size <= MaxOptions
                 /\ q.kind = "score" => MinLevels <= q.size /\ q.size <= MaxLevels

Unusable(reply) == \E name \in DOMAIN reply.answers : reply.answers[name].type = ""

(* One answer without a type fails the whole evaluation; an answer of a     *)
(* kind the SDK cannot decode does not, and what an honest server says of   *)
(* some of its questions is neither refused nor lost (client.go:75-76,      *)
(* docs/errors.md:47, result.go:70-108).                                    *)
BatchParsesOrFails ==
    \A c \in Calls : call[c].at = "returned" =>
        /\ Unusable(call[c].reply) => call[c].err = "ErrInvalidResponse"
        /\ call[c].reply.honest =>
               call[c].err = "none" /\ call[c].answers = call[c].reply.answers

(* ErrInvalidRequest is "raised before a single byte goes out"              *)
(* (docs/errors.md:51), whatever the caller does to the request while the   *)
(* call retries; and a call that returns an answer, an APIError or an       *)
(* ErrInvalidResponse did reach the server.                                 *)
LocalErrorsSendNothing ==
    \A c \in Calls : call[c].at = "returned" =>
        /\ call[c].err = "ErrInvalidRequest" => \A w \in wire : w.call # c
        /\ call[c].err \notin {"ErrInvalidRequest", "TransportError"} =>
               \E w \in wire : w.call = c

(* What CallContract says of a call.  One refused before its first attempt  *)
(* makes none and has no outcome of do.                                     *)
Outcome(c) ==
    IF call[c].at # "returned" \/ call[c].n = 0 THEN "none"
    ELSE IF call[c].last = "answered" THEN "answer" ELSE "error"

Contract(c) == INSTANCE CallContract
               WITH budget <- MaxAttempts, tries <- call[c].n, last <- call[c].last,
                    outcome <- Outcome(c)

(* Evaluate and ListModels add nothing to the attempts of a call and take   *)
(* none away: whatever the body turns out to be, an answered call is not    *)
(* repeated, and each call goes by the contract of the loop                 *)
(* (client.go:83-97, models.go:21-36).                                      *)
CallsKeepContract ==
    /\ \A c \in Calls : Contract(c)!Init
    /\ [][\A c \in Calls : [Contract(c)!Next]_(Contract(c)!vars)]_vars
=============================================================================
