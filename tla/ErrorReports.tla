----------------------------- MODULE ErrorReports -----------------------------
(***************************************************************************)
(* The errors made of responses of any status with any JSON in their body, *)
(* compared with what the documentation says of them.                      *)
(***************************************************************************)
EXTENDS Errors

CONSTANTS
    Words,       \* what texts are made of
    Values,      \* JSON values, with those inside them
    Responses,   \* the statuses and bodies of responses: [status, body]
    Attempts,    \* how many attempts a call made
    Now          \* when the response was read

ASSUME ReportAssumption ==
    /\ \A v \in Values :
         /\ v.text \in Seq(Words)
         /\ \A name \in DOMAIN v.fields : v.fields[name] \in Values
         /\ v.items \in Seq(Values)
    /\ {":", ";"} \subseteq Words
    /\ Other \in Values
    /\ \A r \in Responses : r.body \in Values /\ (r.body # Blank => r.body.text # <<>>)

VARIABLES
    response,  \* the one the call ends with
    err        \* the APIError of it, or none yet

vars == <<response, err>>

NoError == [status |-> 0, message |-> <<>>, body |-> <<>>, retryAfter |-> 0, attempts |-> 0]

Init ==
    /\ response \in Responses
    /\ err = NoError

(* do makes the error of a response that is no 2xx.                         *)
Fail ==
    /\ err = NoError
    /\ err' = NewAPIError(response.status, NoHints, response.body, Attempts, Now)
    /\ UNCHANGED response

Next == Fail

Spec == Init /\ [][Next]_vars

-----------------------------------------------------------------------------
(* Properties. *)

(* docs/errors.md:121-128, in its order: each shape's message if the body   *)
(* has that shape, in a sequence of at most one.                            *)
TextOf(v) == IF IsString(v) THEN <<v.text>> ELSE <<>>

(* What an entry of a detail array complains of, behind its path without    *)
(* the segments "body"; one with no text in msg complains of nothing.       *)
Complains(entry) == TextOf(Field(entry, "msg")) \notin {<<>>, <<<<>>>>}

Complaint(entry) ==
    LET path     == Field(entry, "loc").items
        Kept     == {i \in DOMAIN path : path[i].text # <<"body">>}
        segments == [i \in DOMAIN path |-> IF i \in Kept THEN path[i].text ELSE <<>>]
        message  == Field(entry, "msg").text
    IN  IF Kept = {} THEN message ELSE FlattenSeq(segments) \o <<":">> \o message

(* Every complaint of a detail array, "; " between them. *)
TextOfDetails(entries) ==
    LET Speakers == {i \in DOMAIN entries : Complains(entries[i])}
        Text(i) == IF i \notin Speakers THEN <<>>
                   ELSE IF \E j \in Speakers : j < i THEN <<";">> \o Complaint(entries[i])
                   ELSE Complaint(entries[i])
    IN  IF Speakers = {} THEN <<>> ELSE <<FlattenSeq([i \in DOMAIN entries |-> Text(i)])>>

Shapes(body) ==
    <<TextOf(Field(body, "error")),
      TextOf(Field(Field(body, "error"), "message")),
      TextOf(Field(body, "message")),
      TextOf(Field(body, "detail")),
      TextOf(Field(Field(body, "detail"), "message")),
      TextOfDetails(Field(body, "detail").items)>>

IsJSON(body) == body.kind \notin {"blank", "text"}

(* The message of an object is that of the first shape the documentation    *)
(* lists which it has, every complaint of a detail array included, or ""    *)
(* when it has none; that of a body which is no JSON is its raw text        *)
(* (docs/errors.md:116-131, errors.go:158-236).  Nothing is said of other   *)
(* JSON: see README.md, Findings.                                           *)
MessageAsDocumented ==
    LET body == response.body
        shapes == Shapes(body)
    IN  err # NoError =>
            /\ ~IsJSON(body) => err.message = body.text
            /\ body.kind = "object" =>
                 \/ err.message = <<>> /\ \A i \in 1..6 : shapes[i] = <<>>
                 \/ \E i \in 1..6 : /\ shapes[i] = <<err.message>>
                                    /\ \A j \in 1..(i - 1) : shapes[j] = <<>>

(* Whatever is in the body, the error line shows some of it, though never   *)
(* more than the limit (errors.go:47-49, 80-86).                            *)
SaysSomethingShort ==
    err # NoError =>
        /\ response.body # Blank => Echoed(err) # <<>>
        /\ Len(Echoed(err)) <= MaxBodyEcho

DefaultPolicy == [Statuses |-> [isNil |-> TRUE, codes |-> {}]]

Matching(e) == {s \in DOMAIN StatusesOf : Is(e, s)}

(* docs/errors.md:19-38: the errors retried by default are those that match *)
(* ErrRateLimited or ErrServer, and 408, which has no sentinel; no error    *)
(* matches two sentinels but 529, ErrOverloaded and ErrServer               *)
(* (errors.go:100-121, retry.go:75-78).                                     *)
SentinelsTellRetries ==
    err # NoError =>
        /\ RetryableStatus(DefaultPolicy, err.status)
           <=> Matching(err) \cap {"ErrRateLimited", "ErrServer"} # {} \/ err.status = 408
        /\ err.status # 529 => Cardinality(Matching(err)) <= 1
        /\ err.status = 529 => Matching(err) = {"ErrOverloaded", "ErrServer"}
        /\ err.status = 408 => Matching(err) = {}
=============================================================================
