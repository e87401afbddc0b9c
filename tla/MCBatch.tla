------------------------------- MODULE MCBatch -------------------------------
(* Instances of Batch for TLC. *)
EXTENDS Batch

Question(id, kind, instructions, size, entries, named) ==
    [id |-> id, kind |-> kind, instructions |-> instructions, size |-> size,
     entries |-> entries, named |-> named]

(* One of each kind, a second noul, and one that fails in each way.         *)
SomeQuestions ==
    {Question(1, "noul", "text", 0, {}, TRUE),
     Question(2, "noul", "nil", 0, {"text", "null"}, TRUE),
     Question(3, "choice", "text", 2, {"nil"}, TRUE),
     Question(4, "raw", "nil", 0, {}, TRUE),
     Question(5, "nil", "nil", 0, {}, TRUE),
     Question(6, "choice", "text", 3, {"nil"}, TRUE),
     Question(7, "score", "null", 2, {"text"}, TRUE),
     Question(8, "raw", "nil", 0, {}, FALSE),
     Question(9, "score", "nil", 1, {"text"}, TRUE),
     Question(10, "noul", "nil", 0, {"bytes"}, TRUE)}

SomeExtras == {{"other"}, {"state"}, {"unencodable"}}

(* Answers of the wrong kind, without a field, with those of another kind,  *)
(* with a field of another type, without a type, unasked for.               *)
SomeReplies ==
    LET answer(type, fields) == [type |-> type, fields |-> fields, fits |-> TRUE, id |-> 0]
        misfit(type) == [type |-> type, fields |-> Required[type], fits |-> FALSE, id |-> 0]
    IN  [{"a"} -> {answer("noul", {}), answer("choice", Required["choice"]),
                   answer("score", {"score", "confidence", "probabilities"}),
                   answer("", {"noul"}), misfit("choice")}]
        \cup [{"a", "b"} -> {answer("noul", {"noul"}), answer("new", {})}]
=============================================================================
