------------------------------ MODULE ScoreScale ------------------------------
(***************************************************************************)
(* A scale question from the caller's enum to the level the caller acts    *)
(* on: ScoreMap or Score builds it (question.go), marshalQuestion refuses  *)
(* or sends it, the server answers with a score, a legend and              *)
(* probabilities keyed by decimal indexes, decodeScore turns these back    *)
(* into the caller's level type, and Nearest picks a level (answer.go).    *)
(*                                                                         *)
(* Integers have the width of their Go type.  A score is counted in        *)
(* halves; JSON has no NaN, so none reaches Nearest here.                  *)
(*                                                                         *)
(* X_Y is a faulty variant of X, which some property must reject.          *)
(***************************************************************************)
EXTENDS Integers, FiniteSets

CONSTANTS
    LevelTypes,     \* the integer types L ranges over: [bits, signed]
    IntBits,        \* the width of int in this build, at most LongBits
    LongBits,       \* the width of int64
    MinLevels,      \* minScoreLevels
    MaxLevels,      \* maxScoreLevels
    ScaleSizes,     \* bound: how many levels a caller passes
    WireKeys,       \* the keys a server can use: [n, form]
    Scores,         \* the scores a server can send, in halves
    WireSizes       \* bound: how many keys a misbehaving server sends

(* An int holds every level of the longest scale.                           *)
ASSUME ScaleAssumption ==
    /\ IntBits \in Nat \ {0} /\ LongBits \in Nat \ {0} /\ IntBits <= LongBits
    /\ LevelTypes \subseteq [bits : 1..LongBits, signed : BOOLEAN]
    /\ MinLevels \in Nat \ {0} /\ MaxLevels \in Nat /\ MinLevels <= MaxLevels
    /\ MaxLevels <= 2^(IntBits - 1)
    /\ ScaleSizes \subseteq Nat /\ WireSizes \subseteq Nat
    /\ Scores \subseteq Int
    /\ WireKeys \subseteq [n : Int, form : {"plain", "padded", "word"}]

VARIABLES
    lt,         \* the level type L of the question
    asked,      \* the caller's scale: the levels of a map, or those of a list
    question,   \* the ScoreQuestion: its Levels by index, or its deferred error
    reply,      \* the wire answer
    answer,     \* what decodeScore made of it
    phase       \* "new", "built", then whether an "echo" or "anything" came back

vars == <<lt, asked, question, reply, answer, phase>>

-----------------------------------------------------------------------------
(* Go integer types. *)

TypeRange(t) == IF t.signed THEN -(2^(t.bits - 1)) .. 2^(t.bits - 1) - 1
                ELSE 0 .. 2^t.bits - 1

IntType == [bits |-> IntBits, signed |-> TRUE]
LongType == [bits |-> LongBits, signed |-> TRUE]

(* The conversion T(i): the low bits of i. *)
Converted(t, i) ==
    LET low == i % 2^t.bits
    IN  IF t.signed /\ low >= 2^(t.bits - 1) THEN low - 2^t.bits ELSE low

(* T(x) of a whole float64: exact when it fits; otherwise left to the       *)
(* platform, here amd64, which goes through int64 and its least value.      *)
FloatConverted(t, x) ==
    IF x \in TypeRange(t) THEN x
    ELSE Converted(t, IF x \in TypeRange(LongType) THEN x ELSE -(2^(LongBits - 1)))

(* math.Round of a score in halves: halves go away from zero. *)
Rounded_Down(halves) == halves \div 2

Rounded(halves) == IF halves >= 0 THEN (halves + 1) \div 2 ELSE -((1 - halves) \div 2)

-----------------------------------------------------------------------------
(* The question. *)

NoLevels == [i \in {} |-> 0]
Refused == [levels |-> NoLevels, err |-> TRUE]

(* The description the caller gave to a level; the one a level left out of  *)
(* the slice keeps; and one the server made up.                             *)
Entry(level) == <<"caller's", level>>
NilEntry == <<"nil">>
TheirEntry == <<"server's">>

(* The index ScoreMap gives a level. *)
MapIndex_Int(level) == Converted(IntType, level)

MapIndex(level) == Converted(LongType, level)

InScale_BelowTop(i, n) == i >= 0 /\ i < n - 1

InScale(i, n) == i >= 0 /\ i < n

ScoreMap(levels) ==
    LET n == Cardinality(levels)
        at(i) == {level \in levels : MapIndex(level) = i}
    IN  IF \A level \in levels : InScale(MapIndex(level), n)
        THEN [levels |-> [i \in 0..n-1 |-> IF at(i) = {} THEN NilEntry
                                           ELSE Entry(CHOOSE level \in at(i) : TRUE)],
              err |-> FALSE]
        ELSE Refused

(* Score takes the levels in order. *)
ScoreList(n) == [levels |-> [i \in 0..n-1 |-> Entry(i)], err |-> FALSE]

NoReply == [complete |-> FALSE, score |-> 0, legend |-> {}, probabilities |-> {}]
NoAnswer == [err |-> "none", score |-> 0, legend |-> NoLevels, probabilities |-> {}]

Init ==
    /\ lt \in LevelTypes
    /\ asked = {}
    /\ question = Refused
    /\ reply = NoReply
    /\ answer = NoAnswer
    /\ phase = "new"

BuildFromMap ==
    /\ phase = "new"
    /\ \E levels \in SUBSET TypeRange(lt) :
         /\ Cardinality(levels) \in ScaleSizes
         /\ asked' = levels
         /\ question' = ScoreMap(levels)
    /\ phase' = "built"
    /\ UNCHANGED <<lt, reply, answer>>

BuildFromList ==
    /\ phase = "new"
    /\ \E n \in ScaleSizes :
         /\ asked' = 0..n-1
         /\ question' = ScoreList(n)
    /\ phase' = "built"
    /\ UNCHANGED <<lt, reply, answer>>

(* marshalQuestion sends the levels as they are, or refuses the request. *)
Marshals(q) ==
    /\ ~q.err
    /\ Cardinality(DOMAIN q.levels) \in MinLevels..MaxLevels

Sent == phase # "new" /\ Marshals(question)

-----------------------------------------------------------------------------
(* The answer. *)

Plain(i) == [n |-> i, form |-> "plain"]

(* strconv.Atoi of a key: "01" and "+1" read as 1, a word is an error, and  *)
(* so is what an int cannot hold.                                           *)
Atoi(key) == [ok |-> key.form # "word" /\ key.n \in TypeRange(IntType), i |-> key.n]

FitsLevel_AnyWidth(t, i) == i >= 0

FitsLevel(t, i) == i >= 0 /\ Converted(IntType, Converted(t, i)) = i

(* byLevel refuses the whole map on one bad key. *)
KeysFit(t, keys) == \A k \in keys : Atoi(k).ok /\ FitsLevel(t, Atoi(k).i)

(* The level byLevel files a key under. *)
LevelOf(t, key) == Converted(t, Atoi(key).i)

(* byLevel on the legend; of keys that name one level the iteration order   *)
(* of the map decides which stays.                                          *)
ByLevel(t, entries) ==
    LET levels == {LevelOf(t, e[1]) : e \in entries}
    IN  {f \in [levels -> {e[2] : e \in entries}] :
            \A l \in levels : \E e \in entries : LevelOf(t, e[1]) = l /\ e[2] = f[l]}

Decodes(w) ==
    /\ w.complete
    /\ KeysFit(lt, w.probabilities \cup {e[1] : e \in w.legend})

(* decodeScore, with the level type the question was asked with. *)
Decode(w) ==
    IF Decodes(w)
    THEN \E legend \in ByLevel(lt, w.legend) :
             answer' = [err |-> "none", score |-> w.score, legend |-> legend,
                        probabilities |-> {LevelOf(lt, k) : k \in w.probabilities}]
    ELSE answer' = [NoAnswer EXCEPT !.err = "ErrInvalidResponse"]

Answered(w, how) ==
    /\ phase = "built" /\ Sent
    /\ phase' = how
    /\ reply' = w
    /\ Decode(w)
    /\ UNCHANGED <<lt, asked, question>>

(* External: a server that scores within the scale it was sent and echoes   *)
(* it.  A legend is a set of <<key, description>>, a JSON object.           *)
ServerEchoes ==
    LET levels == question.levels
    IN  \E halves \in 0 .. 2 * (Cardinality(DOMAIN levels) - 1) :
          Answered([complete |-> TRUE, score |-> halves,
                    legend |-> {<<Plain(i), levels[i]>> : i \in DOMAIN levels},
                    probabilities |-> {Plain(i) : i \in DOMAIN levels}], "echo")

(* External: a server that answers anything, complete or with a field       *)
(* missing.                                                                 *)
ServerMisbehaves ==
    \E keys \in {k \in SUBSET WireKeys : Cardinality(k) \in WireSizes},
       s \in Scores, c \in BOOLEAN :
      \E other \in {{}, {Plain(0)}, keys} :
         Answered([complete |-> c, score |-> s, legend |-> {<<k, TheirEntry>> : k \in keys},
                   probabilities |-> other], "anything")

Next == BuildFromMap \/ BuildFromList \/ ServerEchoes \/ ServerMisbehaves

Spec == Init /\ [][Next]_vars

-----------------------------------------------------------------------------
(* Reading the answer. *)

LevelCount(a) ==
    IF DOMAIN a.legend # {} THEN Cardinality(DOMAIN a.legend) ELSE Cardinality(a.probabilities)

Clamped_OffByOne(level, n) == IF n > 0 /\ level > n THEN n ELSE level

Clamped(level, n) == IF n > 0 /\ level > n - 1 THEN n - 1 ELSE level

Nearest(t, a) ==
    LET level == Rounded(a.score)
    IN  FloatConverted(t, Clamped(IF level < 0 THEN 0 ELSE level, LevelCount(a)))

Decoded == phase \in {"echo", "anything"} /\ answer.err = "none"

-----------------------------------------------------------------------------
(* Properties. *)

(* A scale that is sent is the caller's own, whole and in order: 2 to 10    *)
(* levels, level i described at index i, whichever integer type the levels  *)
(* have and however wide int is (question.go:211-248).                      *)
SentScaleIsCallers ==
    Sent =>
        /\ asked = 0 .. Cardinality(asked) - 1
        /\ Cardinality(asked) \in MinLevels..MaxLevels
        /\ question.levels = [i \in asked |-> Entry(i)]

(* A scale the documentation allows is never refused (question.go:193-196). *)
ContiguousScaleSent ==
    phase # "new" /\ ~Sent =>
        \/ asked # 0 .. Cardinality(asked) - 1
        \/ Cardinality(asked) \notin MinLevels..MaxLevels

(* The answer of a server that echoes the scale comes back as the caller's  *)
(* own levels with their own descriptions, and Nearest is the level of      *)
(* theirs closest to the score, the upper one of two (answer.go:68-84,      *)
(* 155-202), provided the level type can name every level that was listed.  *)
ScaleRoundTrip ==
    phase = "echo" /\ asked \subseteq TypeRange(lt) =>
        /\ answer.err = "none"
        /\ answer.legend = [l \in asked |-> Entry(l)]
        /\ answer.probabilities = asked
        /\ Nearest(lt, answer) \in asked
        /\ \A l \in asked : LET off(x) == IF 2 * x > answer.score THEN 2 * x - answer.score
                                          ELSE answer.score - 2 * x
                                nearest == Nearest(lt, answer)
                            IN  \/ off(nearest) < off(l)
                                \/ off(nearest) = off(l) /\ nearest >= l

(* "Out-of-range keys would wrap around and collide with a valid level"     *)
(* (answer.go:195): every level of a decoded answer is an index the server  *)
(* wrote, and every index it wrote is there.                                *)
NoLevelWrapsAround ==
    Decoded =>
        /\ DOMAIN answer.legend = {e[1].n : e \in reply.legend}
        /\ answer.probabilities = {k.n : k \in reply.probabilities}

(* Whatever the server sends, Nearest stays within a scale whose size it    *)
(* knows (docs/confidence.md:112-113).                                      *)
NearestWithinScale ==
    Decoded /\ LevelCount(answer) > 0 => Nearest(lt, answer) \in 0 .. LevelCount(answer) - 1

(* "Nearest() ... never returns a negative level" (docs/confidence.md:113): *)
(* see README.md, Findings.                                                 *)
NearestNeverNegative == Decoded => Nearest(lt, answer) >= 0
=============================================================================
