-------------------------------- MODULE Errors --------------------------------
(***************************************************************************)
(* The error a call returns for a response that is no 2xx (errors.go):     *)
(* which sentinels its status matches, the message found in a body whose   *)
(* format nobody documents, and what Error() shows of it.                  *)
(*                                                                         *)
(* A text is a sequence of words, and lengths count words.  A JSON value   *)
(* is its kind with its text, fields or items; what a body looks like as   *)
(* text stays beside the value it parses to.                               *)
(*                                                                         *)
(* X_Y is a faulty variant of X, which some property must reject.          *)
(***************************************************************************)
EXTENDS RetryDelay, SequencesExt

CONSTANT MaxBodyEcho   \* maxBodyEcho

ASSUME EchoAssumption == MaxBodyEcho \in Nat \ {0}

-----------------------------------------------------------------------------
(* JSON values. *)

NoFields == [name \in {} |-> 0]

Value(kind, text, fields, items) ==
    [kind |-> kind, text |-> text, fields |-> fields, items |-> items]

String(text) == Value("string", text, NoFields, <<>>)
Object(fields) == Value("object", <<"{}">>, fields, <<>>)
Array(items) == Value("array", <<"[]">>, NoFields, items)

(* A number, a boolean, null; and what a missing field reads as.            *)
Other == Value("other", <<"0">>, NoFields, <<>>)

(* Bodies that parse to nothing. *)
Blank == Value("blank", <<>>, NoFields, <<>>)
NotJSON(text) == Value("text", text, NoFields, <<>>)

Field(v, name) ==
    IF v.kind = "object" /\ name \in DOMAIN v.fields THEN v.fields[name] ELSE Other

IsString(v) == v.kind = "string"

-----------------------------------------------------------------------------
(* The message. *)

Location_WithBody(entry) ==
    LET Along(path, segment) == path \o segment.text
    IN  FoldLeft(Along, <<>>, Field(entry, "loc").items)

(* The segments of loc but "body", which says nothing.                      *)
Location(entry) ==
    LET Along(path, segment) ==
            IF segment.text = <<"body">> THEN path ELSE path \o segment.text
    IN  FoldLeft(Along, <<>>, Field(entry, "loc").items)

(* Whether a segment is left, an empty one too. *)
Located(entry) ==
    LET segments == Field(entry, "loc").items
    IN  \E i \in DOMAIN segments : segments[i].text # <<"body">>

(* One entry of detail[] that has something to say.                         *)
Part(entry) ==
    (IF Located(entry) THEN Location(entry) \o <<":">> ELSE <<>>) \o Field(entry, "msg").text

Says(entry) == IsString(Field(entry, "msg")) /\ Field(entry, "msg").text # <<>>

(* The parts in order, "; " between them; <<>> when there are none.         *)
JoinDetailEntries(entries) ==
    LET Joined(text, entry) ==
            IF ~Says(entry) THEN text
            ELSE IF text = <<>> THEN Part(entry) ELSE text \o <<";">> \o Part(entry)
    IN  FoldLeft(Joined, <<>>, entries)

ExtractMessage(body) ==
    LET error  == Field(body, "error")
        detail == Field(body, "detail")
    IN  IF body.kind # "object" THEN body.text
        ELSE IF IsString(error) THEN error.text
        ELSE IF IsString(Field(error, "message")) THEN Field(error, "message").text
        ELSE IF IsString(Field(body, "message")) THEN Field(body, "message").text
        ELSE IF IsString(detail) THEN detail.text
        ELSE IF IsString(Field(detail, "message")) THEN Field(detail, "message").text
        ELSE JoinDetailEntries(detail.items)

-----------------------------------------------------------------------------
(* The error. *)

NewAPIError(status, hints, body, attempts, now) ==
    [status |-> status, message |-> ExtractMessage(body), body |-> body.text,
     retryAfter |-> RetryAfter(hints, now), attempts |-> attempts]

(* Error(): the message, or else the body, cut short. *)
Echoed_MessageOnly(e) ==
    IF Len(e.message) > MaxBodyEcho THEN SubSeq(e.message, 1, MaxBodyEcho) ELSE e.message

Echoed(e) ==
    LET msg == IF e.message = <<>> THEN e.body ELSE e.message
    IN  IF Len(msg) > MaxBodyEcho THEN SubSeq(msg, 1, MaxBodyEcho) ELSE msg

(* APIError.Is: the statuses of each sentinel. *)
StatusesOf_ServerBelow529 ==
    [ErrBadRequest |-> {400}, ErrUnauthorized |-> {401}, ErrForbidden |-> {403},
     ErrNotFound |-> {404}, ErrUnprocessable |-> {422}, ErrRateLimited |-> {429},
     ErrOverloaded |-> {529}, ErrServer |-> 500..528]

StatusesOf ==
    [ErrBadRequest |-> {400}, ErrUnauthorized |-> {401}, ErrForbidden |-> {403},
     ErrNotFound |-> {404}, ErrUnprocessable |-> {422}, ErrRateLimited |-> {429},
     ErrOverloaded |-> {529}, ErrServer |-> 500..599]

Is(e, sentinel) == e.status \in StatusesOf[sentinel]
=============================================================================
