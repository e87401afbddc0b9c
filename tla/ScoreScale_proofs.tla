-------------------------- MODULE ScoreScale_proofs --------------------------
(***************************************************************************)
(* ScoreScale, for any level types, any width of int, any bounds and any   *)
(* keys a server can send: which scales are sent, and that no level of an  *)
(* answer is another one that wrapped around.                              *)
(***************************************************************************)
EXTENDS ScoreScale, NatLemmas

-----------------------------------------------------------------------------
(* Go integer types.                                                       *)

GoTypes == [bits : Nat \ {0}, signed : BOOLEAN]

LEMMA TypesAre ==
    /\ IntType \in GoTypes /\ LongType \in GoTypes
    /\ LevelTypes \subseteq GoTypes
    /\ \A t \in LevelTypes : t.bits <= LongBits
<1>1. ASSUME NEW t \in LevelTypes PROVE t \in GoTypes /\ t.bits <= LongBits
  <2>1. t \in [bits : 1..LongBits, signed : BOOLEAN] /\ LongBits \in Nat
    BY ScaleAssumption
  <2> QED BY <2>1 DEF GoTypes
<1>2. IntType \in GoTypes /\ LongType \in GoTypes
  BY ScaleAssumption DEF IntType, LongType, GoTypes
<1> QED BY <1>1, <1>2

(* The half and the whole of the numbers of b bits. *)
LEMMA Halves ==
    ASSUME NEW b \in Nat \ {0}
    PROVE  /\ 2^(b - 1) \in Nat \ {0}
           /\ 2^b \in Nat \ {0}
           /\ 2^b = 2 * 2^(b - 1)
<1>1. b - 1 \in Nat /\ b = (b - 1) + 1
  OBVIOUS
<1>2. 2^((b - 1) + 1) = 2 * 2^(b - 1)
  BY <1>1, PowerDoubles
<1> QED BY <1>1, <1>2, PowerOfTwo

(* A conversion stays in the range of its type, and leaves alone what is.   *)
LEMMA ConvertedIs ==
    ASSUME NEW t \in GoTypes, NEW i \in Int
    PROVE  /\ Converted(t, i) \in TypeRange(t)
           /\ i \in TypeRange(t) => Converted(t, i) = i
<1> DEFINE P == 2^t.bits
           H == 2^(t.bits - 1)
           low == i % P
<1>1. t.bits \in Nat \ {0} /\ t.signed \in BOOLEAN
  BY DEF GoTypes
<1>2. H \in Nat \ {0} /\ P \in Nat \ {0} /\ P = 2 * H
  BY <1>1, Halves
<1>3. TypeRange(t) = IF t.signed THEN -H .. H - 1 ELSE 0 .. P - 1
  BY DEF TypeRange
<1>4. Converted(t, i) = IF t.signed /\ low >= H THEN low - P ELSE low
  BY DEF Converted
<1> HIDE DEF P, H
<1>5. low \in 0..P-1 /\ (i \in 0..P-1 => low = i) /\ (i \in -P..-1 => low = i + P)
  BY <1>2, RemainderIs
<1> HIDE DEF low
<1>6. CASE t.signed
  BY <1>2, <1>3, <1>4, <1>5, <1>6
<1>7. CASE ~t.signed
  BY <1>2, <1>3, <1>4, <1>5, <1>7
<1> QED BY <1>6, <1>7

LEMMA TypeRangeInt == ASSUME NEW t \in GoTypes PROVE TypeRange(t) \subseteq Int
<1> DEFINE P == 2^t.bits
           H == 2^(t.bits - 1)
<1>1. t.bits \in Nat \ {0}
  BY DEF GoTypes
<1>2. H \in Nat \ {0} /\ P \in Nat \ {0}
  BY <1>1, Halves
<1>3. TypeRange(t) = IF t.signed THEN -H .. H - 1 ELSE 0 .. P - 1
  BY DEF TypeRange
<1> HIDE DEF P, H
<1> QED BY <1>2, <1>3

(* A wider type holds what a narrower one does, when it can hold negative   *)
(* numbers or the narrower one cannot.                                      *)
LEMMA WiderHolds ==
    ASSUME NEW s \in GoTypes, NEW t \in GoTypes, s.bits < t.bits, t.signed
    PROVE  TypeRange(s) \subseteq TypeRange(t)
<1> DEFINE SP == 2^s.bits
           SH == 2^(s.bits - 1)
           TH == 2^(t.bits - 1)
<1>1. s.bits \in Nat \ {0} /\ t.bits \in Nat \ {0}
  BY DEF GoTypes
<1>2. SP \in Nat /\ SH \in Nat /\ TH \in Nat /\ SP = 2 * SH
  BY <1>1, Halves
<1>3. SP <= TH
  <2>1. t.bits - 1 \in Nat /\ s.bits \in Nat /\ s.bits <= t.bits - 1
    BY <1>1
  <2> QED BY <2>1, PowerGrows
<1>4. TypeRange(s) = (IF s.signed THEN -SH .. SH - 1 ELSE 0 .. SP - 1)
      /\ TypeRange(t) = -TH .. TH - 1
  BY DEF TypeRange
<1> HIDE DEF SP, SH, TH
<1> QED BY <1>2, <1>3, <1>4

(* The numbers an int has that are not negative are numbers of every type   *)
(* at least as wide.                                                        *)
LEMMA WiderHoldsPositive ==
    ASSUME NEW s \in GoTypes, NEW t \in GoTypes, s.bits <= t.bits, s.signed,
           NEW i \in TypeRange(s), i >= 0
    PROVE  i \in TypeRange(t)
<1> DEFINE TP == 2^t.bits
           SH == 2^(s.bits - 1)
           TH == 2^(t.bits - 1)
<1>1. s.bits \in Nat \ {0} /\ t.bits \in Nat \ {0}
  BY DEF GoTypes
<1>2. TP \in Nat /\ SH \in Nat /\ TH \in Nat /\ TP = 2 * TH
  BY <1>1, Halves
<1>3. SH <= TH
  <2>1. t.bits - 1 \in Nat /\ s.bits - 1 \in Nat /\ s.bits - 1 <= t.bits - 1
    BY <1>1
  <2> QED BY <2>1, PowerGrows
<1>4. TypeRange(s) = -SH .. SH - 1
      /\ TypeRange(t) = IF t.signed THEN -TH .. TH - 1 ELSE 0 .. TP - 1
  BY DEF TypeRange
<1> HIDE DEF TP, SH, TH
<1> QED BY <1>2, <1>3, <1>4

-----------------------------------------------------------------------------
(* The scale that is sent.                                                 *)

(* An int64 holds a level, or takes it below zero: no level of a uint64     *)
(* passes for another one.                                                  *)
LEMMA MapIndexIs ==
    ASSUME NEW t \in LevelTypes, NEW level \in TypeRange(t)
    PROVE  /\ MapIndex(level) \in Int
           /\ MapIndex(level) >= 0 => MapIndex(level) = level
           /\ level \in TypeRange(LongType) => MapIndex(level) = level
<1> DEFINE P == 2^LongBits
           H == 2^(LongBits - 1)
           low == level % P
           S == 2^t.bits
           R == 2^(t.bits - 1)
<1>1. t \in GoTypes /\ LongType \in GoTypes /\ t.bits <= LongBits
      /\ t.bits \in Nat \ {0} /\ LongBits \in Nat \ {0}
  BY TypesAre, ScaleAssumption DEF GoTypes
<1>2. /\ H \in Nat \ {0} /\ P \in Nat \ {0} /\ P = 2 * H
      /\ R \in Nat \ {0} /\ S \in Nat \ {0} /\ S = 2 * R
  BY <1>1, Halves
<1>3. S <= P
  BY <1>1, PowerGrows
<1>4. TypeRange(t) = IF t.signed THEN -R .. R - 1 ELSE 0 .. S - 1
  BY DEF TypeRange
<1>5. MapIndex(level) = IF low >= H THEN low - P ELSE low
  BY DEF MapIndex, Converted, LongType
<1>6. level \in Int
  BY <1>1, TypeRangeInt
<1>7. level \in TypeRange(LongType) => MapIndex(level) = level
  BY <1>1, <1>6, ConvertedIs DEF MapIndex
<1> HIDE DEF P, H, S, R
<1>8. low \in 0..P-1 /\ (level \in 0..P-1 => low = level) /\ (level \in -P..-1 => low = level + P)
  BY <1>2, <1>6, RemainderIs
<1> HIDE DEF low
<1>9. level \in -H..P-1
  BY <1>2, <1>3, <1>4
<1>10. MapIndex(level) >= 0 => MapIndex(level) = level
  BY <1>2, <1>5, <1>8, <1>9
<1>11. MapIndex(level) \in Int
  BY <1>2, <1>5, <1>8
<1> QED BY <1>7, <1>10, <1>11

(* A type has finitely many numbers.                                       *)
LEMMA TypeRangeFinite == ASSUME NEW t \in GoTypes PROVE IsFiniteSet(TypeRange(t))
<1> DEFINE P == 2^t.bits
           H == 2^(t.bits - 1)
<1>1. H \in Nat \ {0} /\ P \in Nat \ {0}
  BY Halves DEF GoTypes
<1>2. TypeRange(t) = IF t.signed THEN -H .. H - 1 ELSE 0 .. P - 1
  BY DEF TypeRange
<1> HIDE DEF P, H
<1>3. -H \in Int /\ H - 1 \in Int /\ P - 1 \in Int
  BY <1>1
<1>4. IsFiniteSet(-H .. H - 1) /\ IsFiniteSet(0 .. P - 1)
  BY <1>3, FS_Interval
<1> QED BY <1>2, <1>4

LEMMA IndexesOf ==
    ASSUME NEW n \in Nat
    PROVE  IsFiniteSet(0..n-1) /\ Cardinality(0..n-1) = n
<1>1. n - 1 \in Int /\ (0 > n - 1 => n = 0) /\ (n - 1) - 0 + 1 = n
  OBVIOUS
<1> QED BY <1>1, FS_Interval

(* A map ScoreMap accepts has the levels 0 to n-1, each at its own index.   *)
LEMMA AcceptedIsContiguous ==
    ASSUME NEW t \in LevelTypes, NEW levels \in SUBSET TypeRange(t), ~ScoreMap(levels).err
    PROVE  /\ levels = 0 .. Cardinality(levels) - 1
           /\ ScoreMap(levels).levels = [i \in levels |-> Entry(i)]
<1> DEFINE n == Cardinality(levels)
           at(i) == {level \in levels : MapIndex(level) = i}
<1>1. n \in Nat /\ IsFiniteSet(levels)
  <2>1. IsFiniteSet(TypeRange(t))
    BY TypesAre, TypeRangeFinite
  <2>2. IsFiniteSet(levels)
    BY <2>1, FS_Subset
  <2> QED BY <2>2, FS_CardinalityType
<1>2. \A level \in levels : InScale(MapIndex(level), n)
  BY DEF ScoreMap, Refused
<1>3. ScoreMap(levels).levels = [i \in 0..n-1 |-> IF at(i) = {} THEN NilEntry
                                                 ELSE Entry(CHOOSE level \in at(i) : TRUE)]
  BY <1>2 DEF ScoreMap
<1> HIDE DEF n
<1>4. ASSUME NEW level \in levels
      PROVE  MapIndex(level) = level /\ level \in 0..n-1
  BY <1>1, <1>2, <1>4, MapIndexIs DEF InScale
<1>5. levels \in SUBSET (0..n-1)
  BY <1>4
<1>6. levels = 0..n-1
  <2>1. IsFiniteSet(0..n-1) /\ Cardinality(0..n-1) = Cardinality(levels)
    BY <1>1, IndexesOf DEF n
  <2> QED BY <1>5, <2>1, FS_Subset
<1>7. ASSUME NEW i \in 0..n-1
      PROVE  (IF at(i) = {} THEN NilEntry ELSE Entry(CHOOSE level \in at(i) : TRUE)) = Entry(i)
  <2>1. at(i) = {i}
    BY <1>4, <1>6
  <2>2. (CHOOSE level \in at(i) : TRUE) = i
    BY <2>1
  <2> QED BY <2>1, <2>2
<1>8. ScoreMap(levels).levels = [i \in 0..n-1 |-> Entry(i)]
  BY <1>3, <1>7
<1> QED BY <1>6, <1>8 DEF n

(* A map with the levels 0 to n-1 of a scale short enough is accepted.      *)
LEMMA ContiguousIsAccepted ==
    ASSUME NEW t \in LevelTypes, NEW n \in 0..MaxLevels, 0..n-1 \subseteq TypeRange(t)
    PROVE  ~ScoreMap(0..n-1).err
<1>1. n \in Nat /\ Cardinality(0..n-1) = n
  BY IndexesOf, ScaleAssumption
<1>2. ASSUME NEW i \in 0..n-1 PROVE i \in TypeRange(LongType)
  <2> DEFINE H == 2^(LongBits - 1)
             I == 2^(IntBits - 1)
  <2>1. IntBits - 1 \in Nat /\ LongBits - 1 \in Nat /\ IntBits - 1 <= LongBits - 1
    BY ScaleAssumption
  <2>2. I <= H /\ H \in Nat /\ I \in Nat
    BY <2>1, PowerGrows, PowerOfTwo
  <2>3. TypeRange(LongType) = -H .. H - 1
    BY DEF TypeRange, LongType
  <2>4. MaxLevels <= I /\ MaxLevels \in Nat
    BY ScaleAssumption
  <2> HIDE DEF H, I
  <2> QED BY <1>1, <2>2, <2>3, <2>4
<1>3. \A i \in 0..n-1 : MapIndex(i) = i
  BY <1>2, MapIndexIs
<1>4. \A i \in 0..n-1 : InScale(MapIndex(i), n)
  BY <1>1, <1>3 DEF InScale
<1> QED BY <1>1, <1>4 DEF ScoreMap

-----------------------------------------------------------------------------
(* The inductive invariant.                                                *)

(* The question is what ScoreMap or Score made of what was asked. *)
QuestionInv ==
    phase # "new" =>
        \/ asked \subseteq TypeRange(lt) /\ question = ScoreMap(asked)
        \/ \E n \in ScaleSizes : asked = 0..n-1 /\ question = ScoreList(n)

(* The answer is what decodeScore made of the reply, for the level type the *)
(* question was asked with.                                                 *)
AnswerInv ==
    phase \in {"echo", "anything"} =>
        /\ Sent
        /\ reply.score \in Int
        /\ answer.err = "none" <=> Decodes(reply)
        /\ answer.err = "none" =>
             /\ answer.score = reply.score
             /\ answer.legend \in ByLevel(lt, reply.legend)
             /\ answer.probabilities = {LevelOf(lt, k) : k \in reply.probabilities}

(* An honest reply scores within the scale that was sent, and echoes it.    *)
EchoInv ==
    phase = "echo" =>
        /\ reply.complete
        /\ reply.score \in 0 .. 2 * (Cardinality(DOMAIN question.levels) - 1)
        /\ reply.legend = {<<Plain(i), question.levels[i]>> : i \in DOMAIN question.levels}
        /\ reply.probabilities = {Plain(i) : i \in DOMAIN question.levels}

Inv ==
    /\ lt \in LevelTypes
    /\ QuestionInv
    /\ AnswerInv
    /\ EchoInv

LEMMA InvInit == Init => Inv
BY DEF Init, Inv, QuestionInv, AnswerInv, EchoInv

(* A question is what its scale makes of it.                               *)
LEMMA BuiltKeepsInv ==
    ASSUME Inv, BuildFromMap \/ BuildFromList
    PROVE  Inv'
<1>1. lt' = lt /\ phase' = "built"
  BY DEF BuildFromMap, BuildFromList
<1>2. QuestionInv'
  <2>1. CASE BuildFromMap
    BY <2>1 DEF BuildFromMap, QuestionInv
  <2>2. CASE BuildFromList
    BY <2>2 DEF BuildFromList, QuestionInv
  <2> QED BY <2>1, <2>2
<1> QED BY <1>1, <1>2 DEF Inv, AnswerInv, EchoInv

(* An answer is what its level type makes of the reply.                    *)
LEMMA AnsweredKeepsAnswerInv ==
    ASSUME Inv, NEW w, NEW how, Answered(w, how), w.score \in Int
    PROVE  QuestionInv' /\ AnswerInv' /\ lt' \in LevelTypes
<1>1. phase = "built" /\ Sent /\ phase' = how /\ reply' = w /\ Decode(w)
      /\ UNCHANGED <<lt, asked, question>>
  BY DEF Answered
<1>2. QuestionInv'
  BY <1>1 DEF Inv, QuestionInv
<1>3. AnswerInv'
  <2> SUFFICES ASSUME how \in {"echo", "anything"}
               PROVE  /\ Sent'
                      /\ reply'.score \in Int
                      /\ answer'.err = "none" <=> Decodes(reply)'
                      /\ answer'.err = "none" =>
                           /\ answer'.score = reply'.score
                           /\ answer'.legend \in ByLevel(lt', reply'.legend)
                           /\ answer'.probabilities = {LevelOf(lt', k) : k \in reply'.probabilities}
    BY <1>1 DEF AnswerInv
  <2>1. Sent'
    BY <1>1 DEF Sent
  <2>2. PICK v : v = w
    OBVIOUS
  <2>3. Decodes(reply)' <=> Decodes(w)
    BY <1>1 DEF Decodes
  <2>4. CASE Decodes(w)
    <3>1. PICK legend \in ByLevel(lt, w.legend) :
            answer' = [err |-> "none", score |-> w.score, legend |-> legend,
                       probabilities |-> {LevelOf(lt, k) : k \in w.probabilities}]
      BY <1>1, <2>4 DEF Decode
    <3>2. /\ answer'.err = "none" /\ answer'.score = w.score /\ answer'.legend = legend
          /\ answer'.probabilities = {LevelOf(lt, k) : k \in w.probabilities}
      BY <3>1
    <3> QED BY <1>1, <2>1, <2>3, <2>4, <3>1, <3>2
  <2>5. CASE ~Decodes(w)
    <3>1. answer'.err = "ErrInvalidResponse"
      BY <1>1, <2>5 DEF Decode, NoAnswer
    <3> QED BY <1>1, <2>1, <2>3, <2>5, <3>1
  <2> QED BY <2>4, <2>5
<1> QED BY <1>1, <1>2, <1>3 DEF Inv

(* A server that echoes the scale of a question.                           *)
LEMMA EchoKeepsInv ==
    ASSUME Inv, ServerEchoes
    PROVE  Inv'
<1> DEFINE levels == question.levels
           Echo(halves) == [complete |-> TRUE, score |-> halves,
                            legend |-> {<<Plain(i), levels[i]>> : i \in DOMAIN levels},
                            probabilities |-> {Plain(i) : i \in DOMAIN levels}]
<1>1. PICK halves \in 0 .. 2 * (Cardinality(DOMAIN levels) - 1) : Answered(Echo(halves), "echo")
  BY DEF ServerEchoes
<1>2. halves \in Int
  BY <1>1
<1>3. /\ Echo(halves).complete /\ Echo(halves).score = halves
      /\ Echo(halves).legend = {<<Plain(i), levels[i]>> : i \in DOMAIN levels}
      /\ Echo(halves).probabilities = {Plain(i) : i \in DOMAIN levels}
  OBVIOUS
<1>4. reply' = Echo(halves) /\ question' = question
  BY <1>1 DEF Answered
<1> HIDE DEF Echo
<1>5. EchoInv'
  BY <1>1, <1>3, <1>4 DEF EchoInv
<1>6. QuestionInv' /\ AnswerInv' /\ lt' \in LevelTypes
  BY <1>1, <1>2, <1>3, AnsweredKeepsAnswerInv
<1> QED BY <1>5, <1>6 DEF Inv

(* A server that answers anything.                                         *)
LEMMA MisbehavesKeepsInv ==
    ASSUME Inv, ServerMisbehaves
    PROVE  Inv'
<1>1. PICK keys \in SUBSET WireKeys, s \in Scores, c \in BOOLEAN :
        \E other \in {{}, {Plain(0)}, keys} :
            Answered([complete |-> c, score |-> s, legend |-> {<<k, TheirEntry>> : k \in keys},
                      probabilities |-> other], "anything")
  BY DEF ServerMisbehaves
<1>2. PICK other \in {{}, {Plain(0)}, keys} :
            Answered([complete |-> c, score |-> s, legend |-> {<<k, TheirEntry>> : k \in keys},
                      probabilities |-> other], "anything")
  BY <1>1
<1>3. PICK w : w = [complete |-> c, score |-> s, legend |-> {<<k, TheirEntry>> : k \in keys},
                    probabilities |-> other]
  OBVIOUS
<1>4. w.score \in Int
  BY <1>3, ScaleAssumption
<1>5. Answered(w, "anything")
  BY <1>2, <1>3
<1>6. QuestionInv' /\ AnswerInv' /\ lt' \in LevelTypes
  BY <1>4, <1>5, AnsweredKeepsAnswerInv
<1>7. EchoInv'
  BY <1>5 DEF Answered, EchoInv
<1> QED BY <1>6, <1>7 DEF Inv

LEMMA InvStep ==
    ASSUME Inv, [Next]_vars
    PROVE  Inv'
<1>1. CASE UNCHANGED vars
  BY <1>1 DEF vars, Inv, QuestionInv, AnswerInv, EchoInv, Sent, Decodes
<1>2. CASE Next
  BY <1>2, BuiltKeepsInv, EchoKeepsInv, MisbehavesKeepsInv DEF Next
<1> QED BY <1>1, <1>2

(* Inv holds throughout: the question is what was asked, the answer what    *)
(* its own level type makes of the reply (question.go:211-248,              *)
(* answer.go:155-202).                                                      *)
THEOREM InvCorrect == Spec => []Inv
BY InvInit, InvStep, PTL DEF Spec

-----------------------------------------------------------------------------
(* The properties.                                                         *)

(* A list is a scale from 0, entry by entry.                               *)
LEMMA ListIs ==
    ASSUME NEW n \in Nat
    PROVE  /\ ScoreList(n).levels = [i \in 0..n-1 |-> Entry(i)]
           /\ ~ScoreList(n).err
           /\ Cardinality(0..n-1) = n
BY IndexesOf DEF ScoreList

LEMMA InvSent == Inv => SentScaleIsCallers
<1> SUFFICES ASSUME Inv, Sent
             PROVE  /\ asked = 0 .. Cardinality(asked) - 1
                    /\ Cardinality(asked) \in MinLevels..MaxLevels
                    /\ question.levels = [i \in asked |-> Entry(i)]
  BY DEF SentScaleIsCallers
<1>1. phase # "new" /\ ~question.err /\ Cardinality(DOMAIN question.levels) \in MinLevels..MaxLevels
  BY DEF Sent, Marshals
<1>2. asked = 0 .. Cardinality(asked) - 1 /\ question.levels = [i \in asked |-> Entry(i)]
  <2>1. CASE asked \subseteq TypeRange(lt) /\ question = ScoreMap(asked)
    BY <1>1, <2>1, AcceptedIsContiguous DEF Inv
  <2>2. ASSUME NEW n \in ScaleSizes, asked = 0..n-1, question = ScoreList(n)
        PROVE  asked = 0 .. Cardinality(asked) - 1 /\ question.levels = [i \in asked |-> Entry(i)]
    <3>1. n \in Nat
      BY ScaleAssumption
    <3> QED BY <2>2, <3>1, ListIs
  <2> QED BY <1>1, <2>1, <2>2 DEF Inv, QuestionInv
<1>3. DOMAIN question.levels = asked
  BY <1>2
<1> QED BY <1>1, <1>2, <1>3

LEMMA InvContiguous == Inv => ContiguousScaleSent
<1> SUFFICES ASSUME Inv, phase # "new", asked = 0 .. Cardinality(asked) - 1,
                    Cardinality(asked) \in MinLevels..MaxLevels
             PROVE  Sent
  BY DEF ContiguousScaleSent
<1>1. PICK n \in 0..MaxLevels : n = Cardinality(asked)
  BY ScaleAssumption
<1>2. n \in Nat /\ asked = 0..n-1 /\ n \in MinLevels..MaxLevels
  BY <1>1
<1>3. CASE asked \subseteq TypeRange(lt) /\ question = ScoreMap(asked)
  <2>1. ~question.err
    BY <1>2, <1>3, ContiguousIsAccepted DEF Inv
  <2>2. question.levels = [i \in asked |-> Entry(i)]
    BY <1>3, <2>1, AcceptedIsContiguous DEF Inv
  <2>3. Cardinality(DOMAIN question.levels) \in MinLevels..MaxLevels
    BY <1>1, <1>2, <2>2
  <2> QED BY <2>1, <2>3 DEF Sent, Marshals
<1>4. ASSUME NEW m \in ScaleSizes, asked = 0..m-1, question = ScoreList(m)
      PROVE  Sent
  <2>1. m \in Nat
    BY ScaleAssumption
  <2>2. ~question.err /\ DOMAIN question.levels = asked
    BY <1>4, <2>1, ListIs
  <2> QED BY <1>1, <1>2, <2>2 DEF Sent, Marshals
<1> QED BY <1>3, <1>4 DEF Inv, QuestionInv

(* An index an int can hold and a level type takes back to itself is that   *)
(* level.                                                                   *)
LEMMA FitsIsExact ==
    ASSUME NEW t \in LevelTypes, NEW i \in TypeRange(IntType), FitsLevel(t, i)
    PROVE  Converted(t, i) = i /\ i >= 0
<1>1. /\ t \in GoTypes /\ IntType \in GoTypes
      /\ IntType.bits = IntBits /\ IntType.signed
      /\ t.bits \in Nat /\ IntBits \in Nat
  BY TypesAre, ScaleAssumption DEF IntType, GoTypes
<1>2. i \in Int /\ i >= 0 /\ Converted(IntType, Converted(t, i)) = i
  BY <1>1, TypeRangeInt DEF FitsLevel
<1>3. CASE IntBits <= t.bits
  <2>1. i \in TypeRange(t)
    BY <1>1, <1>2, <1>3, WiderHoldsPositive
  <2> QED BY <1>1, <1>2, <2>1, ConvertedIs
<1>4. CASE t.bits < IntBits
  <2>1. Converted(t, i) \in TypeRange(t)
    BY <1>1, <1>2, ConvertedIs
  <2>2. Converted(t, i) \in TypeRange(IntType)
    BY <1>1, <1>4, <2>1, WiderHolds
  <2>3. Converted(t, i) \in Int
    BY <1>1, <2>2, TypeRangeInt
  <2>4. Converted(IntType, Converted(t, i)) = Converted(t, i)
    BY <1>1, <2>2, <2>3, ConvertedIs
  <2> QED BY <1>2, <2>4
<1> QED BY <1>1, <1>3, <1>4

(* byLevel files every key it does not refuse under its own number.         *)
LEMMA KeysKeepTheirLevel ==
    ASSUME NEW t \in LevelTypes, NEW keys, KeysFit(t, keys)
    PROVE  \A k \in keys : /\ LevelOf(t, k) = k.n
                           /\ k.n \in TypeRange(t) /\ k.n \in Int /\ k.n >= 0
<1> SUFFICES ASSUME NEW k \in keys
             PROVE  LevelOf(t, k) = k.n /\ k.n \in TypeRange(t) /\ k.n \in Int /\ k.n >= 0
  OBVIOUS
<1>1. k.n \in TypeRange(IntType) /\ FitsLevel(t, k.n) /\ LevelOf(t, k) = Converted(t, k.n)
  BY DEF KeysFit, Atoi, LevelOf
<1>2. Converted(t, k.n) = k.n /\ k.n >= 0
  BY <1>1, FitsIsExact
<1>3. k.n \in Int
  BY <1>1, TypesAre, TypeRangeInt
<1>4. Converted(t, k.n) \in TypeRange(t)
  BY <1>3, TypesAre, ConvertedIs
<1> QED BY <1>1, <1>2, <1>3, <1>4

(* What byLevel makes of keys it does not refuse.                          *)
LEMMA DecodedIs ==
    ASSUME Inv, Decoded
    PROVE  /\ DOMAIN answer.legend = {e[1].n : e \in reply.legend}
           /\ answer.probabilities = {k.n : k \in reply.probabilities}
           /\ \A l \in DOMAIN answer.legend \cup answer.probabilities :
                l \in TypeRange(lt) /\ l \in Int /\ l >= 0
<1>1. /\ lt \in LevelTypes /\ Decodes(reply)
      /\ answer.legend \in ByLevel(lt, reply.legend)
      /\ answer.probabilities = {LevelOf(lt, k) : k \in reply.probabilities}
  BY DEF Inv, AnswerInv, Decoded
<1>2. KeysFit(lt, reply.probabilities \cup {e[1] : e \in reply.legend})
  BY <1>1 DEF Decodes
<1>3. \A k \in reply.probabilities \cup {e[1] : e \in reply.legend} :
        LevelOf(lt, k) = k.n /\ k.n \in TypeRange(lt) /\ k.n \in Int /\ k.n >= 0
  BY <1>1, <1>2, KeysKeepTheirLevel
<1>4. DOMAIN answer.legend = {LevelOf(lt, e[1]) : e \in reply.legend}
  BY <1>1 DEF ByLevel
<1>5. \A e \in reply.legend : LevelOf(lt, e[1]) = e[1].n
                              /\ e[1].n \in TypeRange(lt) /\ e[1].n \in Int /\ e[1].n >= 0
  BY <1>3
<1>6. DOMAIN answer.legend = {e[1].n : e \in reply.legend}
  BY <1>4, <1>5
<1>7. answer.probabilities = {k.n : k \in reply.probabilities}
  BY <1>1, <1>3
<1> QED BY <1>3, <1>5, <1>6, <1>7

LEMMA InvNoWrap == Inv => NoLevelWrapsAround
BY DecodedIs DEF NoLevelWrapsAround

(* The types that hold the last level of a scale hold every level.          *)
LEMMA RangeFromZero ==
    ASSUME NEW t \in GoTypes, NEW top \in TypeRange(t), NEW i \in 0..top
    PROVE  i \in TypeRange(t)
<1> DEFINE P == 2^t.bits
           H == 2^(t.bits - 1)
<1>1. H \in Nat \ {0} /\ P \in Nat \ {0}
  BY Halves DEF GoTypes
<1>2. TypeRange(t) = IF t.signed THEN -H .. H - 1 ELSE 0 .. P - 1
  BY DEF TypeRange
<1> HIDE DEF P, H
<1> QED BY <1>1, <1>2

(* A type that has some levels can count them. *)
LEMMA CountFits ==
    ASSUME NEW t \in GoTypes, NEW S \in SUBSET TypeRange(t), S # {},
           \A l \in S : l \in Int /\ l >= 0
    PROVE  Cardinality(S) \in Nat \ {0} /\ Cardinality(S) - 1 \in TypeRange(t)
<1> DEFINE P == 2^t.bits
           H == 2^(t.bits - 1)
           top == IF t.signed THEN H - 1 ELSE P - 1
           n == Cardinality(S)
<1>1. H \in Nat \ {0} /\ P \in Nat \ {0}
  BY Halves DEF GoTypes
<1>2. TypeRange(t) = IF t.signed THEN -H .. H - 1 ELSE 0 .. P - 1
  BY DEF TypeRange
<1> HIDE DEF P, H
<1>3. top \in Nat /\ top \in TypeRange(t) /\ S \in SUBSET (0..top)
  BY <1>1, <1>2
<1>4. IsFiniteSet(0..top) /\ Cardinality(0..top) = top + 1
  <2>1. top \in Int /\ 0 \in Int /\ ~(0 > top)
    BY <1>3
  <2> HIDE DEF top
  <2>2. Cardinality(0..top) = top - 0 + 1 /\ IsFiniteSet(0..top)
    BY <2>1, FS_Interval
  <2> QED BY <2>1, <2>2
<1>5. IsFiniteSet(S) /\ n <= top + 1
  BY <1>3, <1>4, FS_Subset
<1>6. n \in Nat
  BY <1>5, FS_CardinalityType
<1>7. n # 0
  BY <1>5, FS_EmptySet
<1> HIDE DEF n, top
<1>8. n - 1 \in 0..top
  BY <1>3, <1>5, <1>6, <1>7
<1>9. n - 1 \in TypeRange(t)
  BY <1>3, <1>8, RangeFromZero
<1> QED BY <1>6, <1>7, <1>9 DEF n

(* Nearest of a scale its level type can count is the rounded score, within *)
(* the scale.                                                               *)
LEMMA NearestIs ==
    ASSUME NEW t \in GoTypes, NEW a, a.score \in Int,
           LevelCount(a) \in Nat \ {0}, LevelCount(a) - 1 \in TypeRange(t)
    PROVE  /\ Rounded(a.score) \in Int
           /\ Nearest(t, a) = IF Rounded(a.score) < 0 THEN 0
                              ELSE IF Rounded(a.score) > LevelCount(a) - 1 THEN LevelCount(a) - 1
                              ELSE Rounded(a.score)
           /\ Nearest(t, a) \in 0 .. LevelCount(a) - 1
<1> DEFINE r == Rounded(a.score)
           n == LevelCount(a)
           x == Clamped(IF r < 0 THEN 0 ELSE r, n)
<1>1. r \in Int
  <2>1. PICK s \in Int : s = a.score
    OBVIOUS
  <2>2. Rounded(s) \in Int
    BY DEF Rounded
  <2> QED BY <2>1, <2>2
<1>2. n \in Nat \ {0} /\ n - 1 \in TypeRange(t)
  OBVIOUS
<1>3. Nearest(t, a) = FloatConverted(t, x)
  BY DEF Nearest
<1> HIDE DEF r, n
<1>4. x \in 0..n-1 /\ x = IF r < 0 THEN 0 ELSE IF r > n - 1 THEN n - 1 ELSE r
  BY <1>1, <1>2 DEF Clamped
<1> HIDE DEF x
<1>5. x \in TypeRange(t)
  BY <1>2, <1>4, RangeFromZero
<1>6. Nearest(t, a) = x
  BY <1>3, <1>5 DEF FloatConverted
<1> QED BY <1>1, <1>4, <1>6 DEF r, n

LEMMA InvNearest == Inv => NearestWithinScale
<1> SUFFICES ASSUME Inv, Decoded, LevelCount(answer) > 0
             PROVE  Nearest(lt, answer) \in 0 .. LevelCount(answer) - 1
  BY DEF NearestWithinScale
<1>1. lt \in GoTypes
  BY TypesAre DEF Inv
<1>2. answer.score \in Int
  BY DEF Inv, AnswerInv, Decoded
<1>3. \A l \in DOMAIN answer.legend \cup answer.probabilities :
        l \in TypeRange(lt) /\ l \in Int /\ l >= 0
  BY DecodedIs
<1>4. LevelCount(answer) \in Nat \ {0} /\ LevelCount(answer) - 1 \in TypeRange(lt)
  <2>1. CASE DOMAIN answer.legend # {}
    <3>1. LevelCount(answer) = Cardinality(DOMAIN answer.legend)
      BY <2>1 DEF LevelCount
    <3>2. DOMAIN answer.legend \in SUBSET TypeRange(lt)
      BY <1>3
    <3> QED BY <1>1, <1>3, <2>1, <3>1, <3>2, CountFits
  <2>2. CASE DOMAIN answer.legend = {}
    <3>1. LevelCount(answer) = Cardinality(answer.probabilities)
      BY <2>2 DEF LevelCount
    <3>2. answer.probabilities \in SUBSET TypeRange(lt)
      BY <1>3
    <3>3. answer.probabilities # {}
      BY <3>1, FS_EmptySet
    <3> QED BY <1>1, <1>3, <3>1, <3>2, <3>3, CountFits
  <2> QED BY <2>1, <2>2
<1> QED BY <1>1, <1>2, <1>4, NearestIs

(* An int holds every index of a scale that is sent, and the keys of its    *)
(* echo fit the level type.                                                 *)
LEMMA EchoFits ==
    ASSUME NEW t \in LevelTypes, NEW n \in 0..MaxLevels, 0..n-1 \subseteq TypeRange(t)
    PROVE  \A i \in 0..n-1 : /\ Atoi(Plain(i)).ok /\ Atoi(Plain(i)).i = i
                             /\ FitsLevel(t, i)
                             /\ LevelOf(t, Plain(i)) = i
<1> SUFFICES ASSUME NEW i \in 0..n-1
             PROVE  /\ Atoi(Plain(i)).ok /\ Atoi(Plain(i)).i = i
                    /\ FitsLevel(t, i)
                    /\ LevelOf(t, Plain(i)) = i
  OBVIOUS
<1>1. t \in GoTypes /\ IntType \in GoTypes /\ i \in Int /\ i >= 0
  BY TypesAre
<1>2. i \in TypeRange(IntType)
  <2> DEFINE H == 2^(IntBits - 1)
  <2>1. H \in Nat
    BY ScaleAssumption, PowerOfTwo
  <2>2. MaxLevels <= H /\ MaxLevels \in Nat
    BY ScaleAssumption
  <2>3. TypeRange(IntType) = -H .. H - 1
    BY DEF TypeRange, IntType
  <2> HIDE DEF H
  <2> QED BY <2>1, <2>2, <2>3
<1>3. Converted(t, i) = i /\ Converted(IntType, i) = i
  BY <1>1, <1>2, ConvertedIs
<1>4. Plain(i).n = i /\ Plain(i).form = "plain"
  BY DEF Plain
<1>5. Atoi(Plain(i)).ok /\ Atoi(Plain(i)).i = i
  BY <1>2, <1>4 DEF Atoi
<1>6. FitsLevel(t, i)
  BY <1>1, <1>3 DEF FitsLevel
<1> QED BY <1>3, <1>5, <1>6 DEF LevelOf

LEMMA InvRoundTrip == Inv => ScaleRoundTrip
<1> SUFFICES ASSUME Inv, phase = "echo", asked \subseteq TypeRange(lt)
             PROVE  /\ answer.err = "none"
                    /\ answer.legend = [l \in asked |-> Entry(l)]
                    /\ answer.probabilities = asked
                    /\ Nearest(lt, answer) \in asked
                    /\ \A l \in asked :
                         LET off(x) == IF 2 * x > answer.score THEN 2 * x - answer.score
                                       ELSE answer.score - 2 * x
                             nearest == Nearest(lt, answer)
                         IN  \/ off(nearest) < off(l)
                             \/ off(nearest) = off(l) /\ nearest >= l
  BY DEF ScaleRoundTrip
<1>1. Sent /\ lt \in LevelTypes /\ lt \in GoTypes
  BY TypesAre DEF Inv, AnswerInv
<1>2. /\ asked = 0 .. Cardinality(asked) - 1
      /\ Cardinality(asked) \in MinLevels..MaxLevels
      /\ question.levels = [i \in asked |-> Entry(i)]
  BY <1>1, InvSent DEF SentScaleIsCallers
<1>3. PICK n \in 1..MaxLevels : n = Cardinality(asked)
  BY <1>2, ScaleAssumption
<1>4. /\ n \in 0..MaxLevels /\ n \in Nat /\ asked = 0..n-1
      /\ DOMAIN question.levels = 0..n-1 /\ \A i \in 0..n-1 : question.levels[i] = Entry(i)
      /\ Cardinality(DOMAIN question.levels) = n
  BY <1>2, <1>3
<1>5. \A i \in 0..n-1 : /\ Atoi(Plain(i)).ok /\ Atoi(Plain(i)).i = i
                        /\ FitsLevel(lt, i) /\ LevelOf(lt, Plain(i)) = i
  BY <1>1, <1>4, EchoFits
<1>6. /\ reply.complete /\ reply.score \in 0 .. 2 * (n - 1)
      /\ reply.legend = {<<Plain(i), question.levels[i]>> : i \in 0..n-1}
      /\ reply.probabilities = {Plain(i) : i \in 0..n-1}
  BY <1>4 DEF Inv, EchoInv
<1>7. Decodes(reply)
  <2>1. \A k \in reply.probabilities \cup {e[1] : e \in reply.legend} :
          \E i \in 0..n-1 : k = Plain(i)
    BY <1>6
  <2>2. KeysFit(lt, reply.probabilities \cup {e[1] : e \in reply.legend})
    BY <1>5, <2>1 DEF KeysFit
  <2> QED BY <1>6, <2>2 DEF Decodes
<1>8. /\ answer.err = "none" /\ answer.score = reply.score
      /\ answer.legend \in ByLevel(lt, reply.legend)
      /\ answer.probabilities = {LevelOf(lt, k) : k \in reply.probabilities}
  BY <1>7 DEF Inv, AnswerInv
<1>9. answer.probabilities = asked
  BY <1>4, <1>5, <1>6, <1>8
<1>10. answer.legend = [l \in asked |-> Entry(l)]
  <2> DEFINE f == answer.legend
             levels == {LevelOf(lt, e[1]) : e \in reply.legend}
  <2>1. /\ f \in [levels -> {e[2] : e \in reply.legend}]
        /\ \A l \in levels : \E e \in reply.legend : LevelOf(lt, e[1]) = l /\ e[2] = f[l]
    BY <1>8 DEF ByLevel
  <2>2. \A e \in reply.legend : \E i \in 0..n-1 :
          e[1] = Plain(i) /\ e[2] = Entry(i) /\ LevelOf(lt, e[1]) = i
    BY <1>4, <1>5, <1>6
  <2>3. levels = 0..n-1
    <3>1. levels \subseteq 0..n-1
      BY <2>2
    <3>2. ASSUME NEW i \in 0..n-1 PROVE i \in levels
      <4>1. <<Plain(i), question.levels[i]>> \in reply.legend
        BY <1>6
      <4> QED BY <1>5, <4>1
    <3> QED BY <3>1, <3>2
  <2> HIDE DEF f, levels
  <2>4. \A l \in levels : f[l] = Entry(l)
    BY <2>1, <2>2
  <2>5. f = [l \in asked |-> Entry(l)]
    BY <1>4, <2>1, <2>3, <2>4
  <2> QED BY <2>5 DEF f
<1>11. LevelCount(answer) = n
  <2>1. DOMAIN answer.legend = asked
    BY <1>10
  <2>2. asked # {}
    <3>1. 0 \in 0..n-1
      BY ScaleAssumption
    <3> QED BY <1>4, <3>1
  <2> QED BY <1>3, <2>1, <2>2 DEF LevelCount
<1>12. n \in Nat \ {0} /\ n - 1 \in TypeRange(lt)
  <2>1. n \in Nat \ {0} /\ n - 1 \in 0..n-1
    BY <1>4, ScaleAssumption
  <2> QED BY <1>4, <2>1
<1>13. Nearest(lt, answer) = Rounded(answer.score)
       /\ Rounded(answer.score) = (answer.score + 1) \div 2
       /\ answer.score \in 0 .. 2 * (n - 1)
  <2>1. answer.score \in 0 .. 2 * (n - 1)
    BY <1>6, <1>8
  <2>2. PICK s \in 0 .. 2 * (n - 1) : s = answer.score
    BY <2>1
  <2>3. s \in Int /\ Rounded(s) = (s + 1) \div 2
    BY DEF Rounded
  <2>4. Rounded(s) \in 0 .. n-1
    BY <1>12, <2>3
  <2>5. Nearest(lt, answer) = Rounded(s)
    BY <1>1, <1>11, <1>12, <2>2, <2>3, <2>4, NearestIs
  <2> QED BY <2>1, <2>2, <2>3, <2>5
<1> QED
  <2>1. PICK s \in 0 .. 2 * (n - 1) : s = answer.score
    BY <1>13
  <2>2. PICK m \in Int : m = (s + 1) \div 2
    BY <1>12
  <2>3. Nearest(lt, answer) = m
    BY <1>13, <2>1, <2>2
  <2>4. m \in 0..n-1 /\ (s = 2 * m \/ s + 1 = 2 * m)
    BY <1>12, <2>2
  <2>5. ASSUME NEW l \in 0..n-1
        PROVE  LET off(x) == IF 2 * x > s THEN 2 * x - s ELSE s - 2 * x
               IN  off(m) < off(l) \/ (off(m) = off(l) /\ m >= l)
    BY <1>12, <2>4
  <2> QED BY <1>4, <1>8, <1>9, <1>10, <2>1, <2>3, <2>4, <2>5

(* A scale that is sent is the caller's own, whole and in order, whatever   *)
(* the level type and however wide int is (question.go:211-248).            *)
THEOREM SentScaleHolds == Spec => []SentScaleIsCallers
BY InvCorrect, InvSent, PTL

(* A scale the documentation allows is never refused (question.go:193-196), *)
(* as long as an int holds the longest scale.                               *)
THEOREM ContiguousHolds == Spec => []ContiguousScaleSent
BY InvCorrect, InvContiguous, PTL

(* Every level of a decoded answer is an index the server wrote: none       *)
(* wrapped around (answer.go:186-202).                                      *)
THEOREM NoWrapHolds == Spec => []NoLevelWrapsAround
BY InvCorrect, InvNoWrap, PTL

(* Whatever the server sends, Nearest stays within the scale                *)
(* (answer.go:68-84).                                                       *)
THEOREM NearestHolds == Spec => []NearestWithinScale
BY InvCorrect, InvNearest, PTL

(* An echoed scale comes back as the caller's own, and Nearest is the level *)
(* closest to the score (answer.go:68-84, 155-202).                         *)
THEOREM RoundTripHolds == Spec => []ScaleRoundTrip
BY InvCorrect, InvRoundTrip, PTL
=============================================================================
