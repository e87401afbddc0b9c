----------------------------- MODULE MCScoreScale -----------------------------
(* Instances of ScoreScale for TLC: integers of 2 to 4 bits. *)
EXTENDS ScoreScale

SmallTypes == [bits : {2, 3, 4}, signed : BOOLEAN]

(* Keys within the small types, just beyond them, beyond int, and negative; *)
(* "01" and a word.                                                         *)
SomeKeys == {[n |-> i, form |-> "plain"] : i \in {-1, 0, 1, 2, 3, 5}}
            \cup {[n |-> 1, form |-> "padded"], [n |-> 0, form |-> "word"]}

SomeScores == {-3, -1, 0, 1, 3, 6, 11, 22}
=============================================================================
