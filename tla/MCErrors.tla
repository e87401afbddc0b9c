------------------------------- MODULE MCErrors -------------------------------
(* Instances of ErrorReports for TLC: every status, and bodies in which each *)
(* field the SDK looks at is missing, of another type, empty or filled.      *)
EXTENDS ErrorReports

(* What amd64 makes of a float64 beyond MaxDuration. *)
LeastDuration == -32

OneField(name, v) == [x \in {name} |-> v]

Strings == {String(t) : t \in {<<>>, <<"a">>, <<"b">>, <<"body">>, <<"c">>, <<"d">>, <<"dm">>,
                               <<"e">>, <<"em">>, <<"hello">>, <<"m", "m", "m">>, <<"x">>,
                               <<"y">>, <<"z">>}}

Errs == {Other, String(<<>>), String(<<"e">>), Object(NoFields),
         Object(OneField("message", Other)), Object(OneField("message", String(<<"em">>)))}
Messages == {Other, String(<<>>), String(<<"m", "m", "m">>)}

Locations == {Array(<<String(<<"body">>), String(<<"a">>), Other>>),
              Array(<<String(<<"body">>)>>), Array(<<String(<<"b">>)>>), Array(<<String(<<>>)>>)}
Entry(msg, loc) == Object([msg |-> msg, loc |-> loc])
Entries ==
    {Other, Object(NoFields), Object(OneField("msg", String(<<"x">>))),
     Entry(String(<<"y">>), Array(<<String(<<"body">>), String(<<"a">>), Other>>)),
     Entry(String(<<"z">>), Array(<<String(<<"body">>)>>)),
     Entry(String(<<"y">>), Array(<<String(<<>>)>>)),
     Entry(String(<<>>), Array(<<String(<<"b">>)>>)),
     Entry(Other, String(<<"c">>))}

Details ==
    {Other, String(<<"d">>), Object(NoFields), Object(OneField("message", String(<<"dm">>)))}
    \cup {Array(s) : s \in BoundedSeq(Entries, 2)}

Bodies ==
    {Blank, NotJSON(<<"internal", "server", "error">>), Other, Array(<<Other>>), String(<<"hello">>)}
    \cup {Object([error |-> e, message |-> m, detail |-> d]) :
              e \in Errs, m \in Messages, d \in Details}

AllValues == Strings \cup Errs \cup Locations \cup Entries \cup Details \cup Bodies

AllWords == {"{}", "[]", "0", ":", ";", "internal", "server", "error", "hello", "body", "a", "b",
             "c", "d", "dm", "e", "em", "m", "x", "y", "z"}

AllResponses ==
    [status : (100..199) \cup (300..999), body : {Blank}] \cup [status : {503}, body : Bodies]
=============================================================================
